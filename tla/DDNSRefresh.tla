----------------------------- MODULE DDNSRefresh -----------------------------
(***************************************************************************)
(* The DDNS allowlist of the loaded policy.  `cnftctl ddns refresh`, run by   *)
(* the operator and by cnftctl-ddns-refresh.timer, resolves the hosts of the  *)
(* desired configuration under the firewall lock and replaces the elements of *)
(* two nftables sets, which the kernel drops when their TTL runs out.  Apply   *)
(* embeds elements of its own in the generation it loads; boot and rollback    *)
(* load them again.  One Tick is one minute.                                   *)
(*                                                                             *)
(* The activation protocol is in module Activation; here an activation is one  *)
(* step under the lock.  Fields marked "ghost" exist for the properties only.  *)
(***************************************************************************)
EXTENDS Integers, FiniteSets

CONSTANTS
  Hosts,        \* names that may be configured
  HostLists,    \* sets of them an operator may configure, {} for none
  Addrs,        \* addresses the resolver may return
  PrefixOf,     \* PrefixOf[a]: IPv6 address a masked to the configured length
  Answers,      \* Answers[h][f]: what DNS may say of host h in family f
  Failing,      \* a lookup that times out or is refused
  Operators,    \* refreshes an operator may start
  TTL,          \* ssh.ddns_whitelist.ttl, in ticks
  Interval,     \* OnUnitActiveSec of the refresh timer, in ticks
  MaxAge,       \* bound: ages of resolutions are not counted beyond this
  None,
  Env,          \* subset of {"dns", "refresh", "edit", "apply", "kill", "reboot",
                \*   "nft", "flush"}
  MaxEvents     \* bound: how many of them happen in a behaviour

Families == {"v4", "v6"}

\* What a lookup may find: Failing, or a set of addresses, the empty one being
\* an authoritative "no such record".
ASSUME AnswersAssumption ==
  \A h \in Hosts : \A f \in Families : Answers[h][f] \subseteq {Failing} \cup SUBSET Addrs
ASSUME HostListsAssumption == HostLists \subseteq SUBSET Hosts
ASSUME TimesAssumption ==
  /\ TTL \in Nat \ {0} /\ Interval \in Nat \ {0}
  /\ MaxAge \in Nat /\ MaxEvents \in Nat

VARIABLES
  dns,          \* dns[h][f]: the present answer
  events,       \* events of Env so far
  desired,      \* hosts of the desired configuration; {} also when disabled
  meta,         \* ddns-runtime.json
  current,      \* the selected generation
  previous,     \* the generation a rollback would load, None outside a trial
  live,         \* the two sets of the live table, None without a table
  lock,         \* who holds /run/cnftctl/apply.lock
  proc,         \* the running commands
  due           \* ticks until the timer starts the refresh unit

files == <<desired, meta, current, previous>>
vars == <<dns, events, files, live, lock, proc, due>>

Unit == "unit"          \* cnftctl-ddns-refresh.service
Applier == "apply"      \* `cnftctl apply`
Refreshers == Operators \cup {Unit}
Commands == Refreshers \cup {Applier}

\* Elements per family, and the record of what is live (below).
Sets == [Families -> SUBSET (Addrs \cup {PrefixOf[a] : a \in Addrs})]
LiveSets == [sets : Sets, left : [Families -> Nat], hosts : SUBSET Hosts, age : Nat,
             by : {"load", "refresh"}]
ASSUME NamesAssumption == Applier \notin Refreshers /\ None \notin LiveSets

Happens(e) == e \in Env /\ events < MaxEvents /\ events' = events + 1
Least(a, b) == IF a < b THEN a ELSE b
Down(n) == IF n = 0 THEN 0 ELSE n - 1

-----------------------------------------------------------------------------
(* Resolution.  A record is an exact element, an AAAA record gives its prefix. *)

Element(f, a) == IF f = "v6" THEN PrefixOf[a] ELSE a
ElementsOf(f, answer) == {Element(f, a) : a \in answer}
NoAnswers == [h \in Hosts |-> [f \in Families |-> {}]]
\* The result, without duplicates and order.
ResultOf(found) == [f \in Families |-> UNION {ElementsOf(f, found[h][f]) : h \in Hosts}]

\* Mutation: a timeout counts as "no such record".
HeardAsNoRecord(answer) == IF answer = Failing THEN {} ELSE answer
\* isAuthoritativeNoData: "not found" is the empty answer, a timeout is an error.
Heard(answer) == answer

Usable(answers) == \E f \in Families : answers[f] # {}

-----------------------------------------------------------------------------
(* Metadata.  "sets" stands for counts and content hash of the last success,   *)
(* None before the first; "left" for ExpiresAt, counted from now.              *)

NoMetadata == [failed |-> FALSE, sets |-> None, left |-> 0]
Stale(m) == m.sets # None /\ m.left = 0

RecordAttempt(m, failed, sets) ==
  IF failed THEN [m EXCEPT !.failed = TRUE]
  ELSE [failed |-> FALSE, sets |-> sets, left |-> TTL]

-----------------------------------------------------------------------------
(* The sets in the kernel.  "hosts" (ghost) are those the elements were         *)
(* resolved for, "age" (ghost) the time since, "by" (ghost) who put them there. *)

Timed(sets, hosts, age, by) ==
  [sets |-> sets, left |-> [f \in Families |-> TTL], hosts |-> hosts, age |-> age, by |-> by]
\* An element is gone when its timeout has run out.
Elements(f) == IF live # None /\ live.left[f] > 0 THEN live.sets[f] ELSE {}
Admitting == \E f \in Families : Elements(f) # {}

\* A generation embeds the elements apply resolved; every load restarts them.
Generation(sets, hosts) == [sets |-> sets, hosts |-> hosts, age |-> 0]
Loaded(g) == Timed(g.sets, g.hosts, g.age, "load")
\* Mutation: the activation does not start the timer.
TimerNeverStarted == FALSE
\* As ReconcileDDNSTimer leaves the timer for the selected generation.
TimerActive == current.hosts # {}

-----------------------------------------------------------------------------
(* `cnftctl ddns refresh` *)

Stopped == [pc |-> "idle", hosts |-> {}, meta |-> NoMetadata, todo |-> {},
            found |-> NoAnswers, failed |-> FALSE]
Step(p, rec) == proc' = [proc EXCEPT ![p] = rec]
Release(p) == lock' = IF lock = p THEN None ELSE lock
Lookups(hosts) == hosts \X Families

\* Configuration and metadata are read before the lock is taken.
RefreshStart(p) ==
  /\ proc[p].pc = "idle"
  /\ Step(p, [Stopped EXCEPT !.pc = "lock", !.hosts = desired, !.meta = meta])
  /\ UNCHANGED <<dns, files, live, lock>>

OperatorRefresh(p) ==
  p \in Operators /\ Happens("refresh") /\ RefreshStart(p) /\ UNCHANGED due

\* OnUnitActiveSec counts from the start of the unit.
TimerElapses ==
  TimerActive /\ due = 0 /\ RefreshStart(Unit) /\ due' = Interval /\ UNCHANGED events

Fails(p) == Step(p, [proc[p] EXCEPT !.pc = "record", !.failed = TRUE]) /\ Release(p)
Stops(p) == Step(p, Stopped) /\ Release(p)

\* Mutation: DDNS that is disabled is refreshed, with nobody.
RefreshableAlways(hosts) == TRUE
Refreshable(hosts) == hosts # {}
Resolving(rec, hosts) ==
  [rec EXCEPT !.pc = IF hosts = {} THEN "replace" ELSE "resolve",
              !.hosts = hosts, !.todo = Lookups(hosts)]

\* The lock is not waited for; DDNS may be disabled or have no hosts.
TakeLock(p) ==
  /\ proc[p].pc = "lock"
  /\ IF lock = None /\ Refreshable(proc[p].hosts)
     THEN lock' = p /\ Step(p, Resolving(proc[p], proc[p].hosts))
     ELSE Fails(p)
  /\ UNCHANGED <<dns, events, files, live, due>>

\* Hosts are resolved in one fixed order: LookupA, then LookupAAAA of each.
Turn(p) == CHOOSE h \in Hosts : \E f \in Families : <<h, f>> \in proc[p].todo
Lookup(p, h, f) ==
  LET answer == Heard(dns[h][f])
      found  == [proc[p].found EXCEPT ![h][f] = answer]
      todo   == proc[p].todo \ {<<h, f>>}
  IN /\ proc[p].pc = "resolve" /\ <<h, f>> \in proc[p].todo /\ h = Turn(p)
     /\ f = "v6" => <<h, "v4">> \notin proc[p].todo
     /\ IF answer # Failing /\ (f = "v6" => Usable(found[h]))
        THEN /\ Step(p, [proc[p] EXCEPT !.found = found, !.todo = todo,
                           !.pc = IF todo = {} THEN "replace" ELSE "resolve"])
             /\ UNCHANGED lock
        ELSE IF p = Applier THEN Stops(p) ELSE Fails(p)
     /\ UNCHANGED <<dns, events, files, live, due>>

\* One batch flushes and fills both sets. It fails as a whole, without a table or
\* for reasons of nft ("nft").
Replace(p) ==
  /\ p \in Refreshers /\ proc[p].pc = "replace"
  /\ \/ /\ live # None
        /\ live' = Timed(ResultOf(proc[p].found), proc[p].hosts, 0, "refresh")
        /\ Step(p, [proc[p] EXCEPT !.pc = "record"]) /\ Release(p)
        /\ UNCHANGED events
     \/ /\ IF live = None THEN UNCHANGED events ELSE Happens("nft")
        /\ Fails(p) /\ UNCHANGED live
  /\ UNCHANGED <<dns, files, due>>

\* After the lock is released; on top of the metadata read before it was taken.
Record(p) ==
  /\ proc[p].pc = "record"
  /\ meta' = RecordAttempt(proc[p].meta, proc[p].failed, ResultOf(proc[p].found))
  /\ Step(p, Stopped)
  /\ UNCHANGED <<dns, events, desired, current, previous, live, lock, due>>

-----------------------------------------------------------------------------
(* Activations.  Apply resolves the desired hosts before it takes the lock.    *)

ApplyStart ==
  /\ Happens("apply") /\ proc[Applier].pc = "idle"
  /\ Step(Applier, Resolving(Stopped, desired))
  /\ UNCHANGED <<dns, files, live, lock, due>>

\* Refused while the lock is taken or a trial is open; nothing to do when the
\* generation is the selected one (unless its table is gone: module Activation).
ApplyLoad ==
  LET g == Generation(ResultOf(proc[Applier].found), proc[Applier].hosts)
      refused == lock # None \/ previous # None
      same == g.sets = current.sets /\ g.hosts = current.hosts
  IN /\ proc[Applier].pc = "replace"
     /\ IF refused \/ same
        THEN UNCHANGED <<current, previous, live>>
        ELSE current' = g /\ previous' = current /\ live' = Loaded(g)
     /\ Step(Applier, Stopped)
     /\ UNCHANGED <<dns, events, desired, meta, lock, due>>

Confirm ==
  /\ previous # None /\ lock = None /\ previous' = None
  /\ UNCHANGED <<dns, events, desired, meta, current, live, lock, proc, due>>

RollBack ==
  /\ previous # None /\ lock = None
  /\ current' = previous /\ previous' = None /\ live' = Loaded(previous)
  /\ UNCHANGED <<dns, events, desired, meta, lock, proc, due>>

-----------------------------------------------------------------------------
(* Environment *)

DNSChanges(h, f) ==
  /\ Happens("dns")
  /\ \E answer \in Answers[h][f] \ {dns[h][f]} : dns' = [dns EXCEPT ![h][f] = answer]
  /\ UNCHANGED <<files, live, lock, proc, due>>

\* The configuration commands, or an editor.
Edit ==
  /\ Happens("edit")
  /\ desired' \in HostLists \ {desired}
  /\ UNCHANGED <<dns, meta, current, previous, live, lock, proc, due>>

\* A signal, or TimeoutStartSec of the unit: nothing is recorded.
Kill(p) ==
  /\ Happens("kill") /\ proc[p].pc # "idle" /\ Stops(p)
  /\ UNCHANGED <<dns, files, live, due>>

\* Boot settles an open trial (Activation) and loads what is selected then.
Reboot ==
  /\ Happens("reboot")
  /\ current' = IF previous # None THEN previous ELSE current
  /\ previous' = None /\ live' = Loaded(current')
  /\ lock' = None /\ proc' = [p \in Commands |-> Stopped] /\ due' = 1
  /\ UNCHANGED <<dns, desired, meta>>

\* Another tool removes the table.
Flush ==
  /\ Happens("flush") /\ live # None /\ live' = None
  /\ UNCHANGED <<dns, files, lock, proc, due>>

AgedGeneration(g) == IF g = None THEN None ELSE [g EXCEPT !.age = Least(@ + 1, MaxAge)]
AgedSets(s) ==
  IF s = None THEN None
  ELSE [s EXCEPT !.left = [f \in Families |-> Down(@[f])], !.age = Least(@ + 1, MaxAge)]
AgedMetadata(m) == [m EXCEPT !.left = Down(@)]

\* A minute passes.  The unit, stopped by TimeoutStartSec after 45 seconds, is
\* started on time and gone when the next minute begins; other commands may
\* take longer.
Tick ==
  /\ ~(TimerActive /\ due = 0) /\ proc[Unit].pc = "idle"
  /\ live' = AgedSets(live) /\ meta' = AgedMetadata(meta)
  /\ current' = AgedGeneration(current) /\ previous' = AgedGeneration(previous)
  /\ proc' = [p \in Commands |-> [proc[p] EXCEPT !.meta = AgedMetadata(@)]]
  /\ due' = Down(due)
  /\ UNCHANGED <<dns, events, desired, lock>>

-----------------------------------------------------------------------------

\* What DNS may say, and when it answers for all hosts.
AnyAnswer == UNION UNION {{Answers[h][f] : f \in Families} : h \in Hosts}
DNSStates == {d \in [Hosts -> [Families -> AnyAnswer]] :
                \A h \in Hosts : \A f \in Families : d[h][f] \in Answers[h][f]}
Works(d) == \A h \in Hosts : Usable(d[h]) /\ \A f \in Families : d[h][f] # Failing

\* A generation without DDNS is loaded, or one whose hosts resolved.
Init ==
  /\ dns \in DNSStates /\ events = 0
  /\ desired = Hosts /\ meta = NoMetadata
  /\ \/ current = Generation(ResultOf(NoAnswers), {})
     \/ \E d \in DNSStates : Works(d) /\ current = Generation(ResultOf(d), Hosts)
  /\ previous = None /\ live = Loaded(current)
  /\ lock = None /\ proc = [p \in Commands |-> Stopped] /\ due = 0

RefreshStep(p) ==
  \/ TakeLock(p) \/ Replace(p) \/ Record(p)
  \/ \E h \in Hosts : \E f \in Families : Lookup(p, h, f)

Next ==
  \/ TimerElapses \/ Tick
  \/ \E p \in Commands : OperatorRefresh(p) \/ RefreshStep(p) \/ Kill(p)
  \/ ApplyStart \/ ApplyLoad \/ Confirm \/ RollBack
  \/ \E h \in Hosts : \E f \in Families : DNSChanges(h, f)
  \/ Edit \/ Reboot \/ Flush

Spec == Init /\ [][Next]_vars

\* Time passes, the timer elapses, and a command that runs goes on: every
\* lookup and every nft call ends, by its answer or by its timeout.
Fairness ==
  /\ WF_vars(Tick) /\ WF_vars(TimerElapses)
  /\ \A p \in Commands : WF_vars(RefreshStep(p))
  /\ WF_vars(ApplyLoad)

FairSpec == Spec /\ Fairness
=============================================================================
