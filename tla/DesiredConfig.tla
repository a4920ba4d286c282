---------------------------- MODULE DesiredConfig ----------------------------
(***************************************************************************)
(* The desired configuration, /etc/cnftctl/config.yaml, and the commands that *)
(* edit it.  Each command loads the file, edits the configuration in memory   *)
(* and saves it, without a lock; load and save both canonicalise and validate. *)
(* Lists without order that matters are sets; names, comments and durations    *)
(* that only their own syntax check looks at are left out.                     *)
(***************************************************************************)
EXTENDS Integers, FiniteSets

CONSTANTS
  Ranges,       \* port ranges an operator may ask for: [proto, from, to]
  MaxPort,      \* 65535 in the code
  Prefixes,     \* static allowlist entries, as prefixes
  Single,       \* those of full length, which can be written as an address too
  HostNames,    \* DDNS hosts
  Interfaces,   \* interface names
  Editors,      \* commands that may run at the same time
  Commands,     \* what operators ask for
  HandEdits,    \* configurations an operator may write with an editor
  None, Refused

ASSUME SingleAssumption == Single \subseteq Prefixes

VARIABLES
  file,         \* the configuration in the file
  editor        \* editor[e]: a command that has loaded and not written, or None

vars == <<file, editor>>

Modes == {"open", "whitelist-only", "whitelist-rate-limit"}
Hardened == Modes \ {"open"}
\* A static entry and how it is written; both forms of one prefix may stand in
\* the file, since only equal texts are duplicates.
Written == (Prefixes \X {"prefix"}) \cup (Single \X {"address"})

Default ==
  [ports |-> {}, mode |-> "open", rate |-> FALSE, static |-> {}, ddns |-> FALSE, hosts |-> {},
   length |-> 56, trusted |-> FALSE, ifaces |-> {}, forwarding |-> FALSE, docker |-> FALSE]

Configurations ==
  [ports : SUBSET Ranges, mode : Modes, rate : BOOLEAN, static : SUBSET Written, ddns : BOOLEAN,
   hosts : SUBSET HostNames, length : Int, trusted : BOOLEAN, ifaces : SUBSET Interfaces,
   forwarding : BOOLEAN, docker : BOOLEAN]

\* What the command line lets an operator ask for.
Requests ==
  [do : {"open"}, range : Ranges] \cup [do : {"close"}, range : Ranges, strict : BOOLEAN]
  \cup [do : {"allow"}, prefix : Prefixes]
  \cup [do : {"disallow"}, prefix : Prefixes, strict : BOOLEAN]
  \cup [do : {"harden"}, mode : Modes, force : BOOLEAN]
  \cup [do : {"ddns", "docker"}, on : BOOLEAN]
  \cup [do : {"host"}, host : HostNames] \cup [do : {"unhost"}, host : HostNames, strict : BOOLEAN]
  \cup [do : {"length"}, length : Int]
  \cup [do : {"trust", "distrust"}, ifaces : (SUBSET Interfaces) \ {{}}]
  \cup [do : {"init"}, docker : BOOLEAN, ddns : BOOLEAN, ifaces : SUBSET Interfaces]

ASSUME ConfigAssumption ==
  /\ Commands \subseteq Requests /\ HandEdits \subseteq Configurations
  /\ Refused \notin Configurations /\ None \notin [command : Commands, loaded : Configurations]

-----------------------------------------------------------------------------
(* config.Validate *)

ValidRange(r) == 1 <= r.from /\ r.from <= r.to /\ r.to <= MaxPort

Covered(c) == c.static # {} \/ (c.ddns /\ c.hosts # {})

ValidSSH(c) ==
  /\ c.mode \in Modes
  /\ c.rate = (c.mode = "whitelist-rate-limit")
  /\ c.mode \in Hardened => Covered(c)
  /\ c.ddns => c.hosts # {}
  /\ c.length \in {56, 64}

ValidTrusted(c) ==
  /\ c.trusted => c.ifaces # {}
  /\ c.forwarding => c.trusted

Valid(c) == ValidSSH(c) /\ ValidTrusted(c) /\ \A r \in c.ports : ValidRange(r)

\* Load refuses the file as a whole.
Loads(c) == Valid(c)

\* Save canonicalises and validates; only then is the file replaced.
Save(c) == IF Valid(c) THEN c ELSE Refused

-----------------------------------------------------------------------------
(* The edits.  Refused: the command returns an error before it saves.          *)

OpenPorts(c, r) == IF ValidRange(r) THEN [c EXCEPT !.ports = @ \cup {r}] ELSE Refused

\* Mutation: only a range that contains the asked one is removed.
ClosePortsNested(c, r, strict) == [c EXCEPT !.ports = {q \in @ : ~(q.from < r.from /\ r.to < q.to)}]
ClosePorts(c, r, strict) ==
  IF ValidRange(r) /\ (strict => r \in c.ports) THEN [c EXCEPT !.ports = @ \ {r}] ELSE Refused

\* Both forms of a prefix become one text, and Validate refuses the second.
Twice(static) == \E p \in Single : {<<p, "prefix">>, <<p, "address">>} \subseteq static
Form(p) == <<p, IF p \in Single THEN "address" ELSE "prefix">>
\* setWhitelistConfig: full-length prefixes are written as addresses.
Rewritten(c, static) ==
  IF Twice(static) THEN Refused ELSE [c EXCEPT !.static = {Form(w[1]) : w \in static}]

Allow(c, p) ==
  Rewritten(c, IF \E w \in c.static : w[1] = p THEN c.static ELSE c.static \cup {Form(p)})

\* One entry goes: the first of equal prefixes.
Disallow(c, p, strict) ==
  LET forms == {w \in c.static : w[1] = p}
      gone == IF forms = {} THEN {} ELSE {CHOOSE w \in forms : TRUE}
  IN IF strict /\ forms = {} THEN Refused ELSE Rewritten(c, c.static \ gone)

\* A rate limit that is there stays, whatever mode follows.
Harden(c, mode, force) ==
  IF mode \in Hardened /\ ~force /\ ~Covered(c) THEN Refused
  ELSE [c EXCEPT !.mode = mode, !.rate = @ \/ mode = "whitelist-rate-limit"]

SetDDNS(c, on) == [c EXCEPT !.ddns = on]
AddHost(c, h) == [c EXCEPT !.hosts = @ \cup {h}]
\* Mutation: removing a host resets the whole DDNS section.
RemoveHostReset(c, h, strict) == [c EXCEPT !.hosts = @ \ {h}, !.length = 56]
RemoveHost(c, h, strict) ==
  IF strict /\ h \notin c.hosts THEN Refused ELSE [c EXCEPT !.hosts = @ \ {h}]
SetLength(c, n) == IF n \in {56, 64} THEN [c EXCEPT !.length = n] ELSE Refused

Trust(c, ifaces) == [c EXCEPT !.trusted = TRUE, !.ifaces = @ \cup ifaces]
\* Mutation: removing an interface leaves the feature enabled.
DistrustEnabled(c, ifaces) == [c EXCEPT !.ifaces = @ \ ifaces]
\* trust_forwarding is left as it is.
Distrust(c, ifaces) ==
  IF ifaces \cap c.ifaces = {} THEN c
  ELSE [c EXCEPT !.ifaces = @ \ ifaces, !.trusted = c.ifaces \ ifaces # {}]
SetDocker(c, on) == [c EXCEPT !.docker = on]

\* `cnftctl init --yes`: whatever the file held is replaced.
Initialized(k) ==
  LET c == [Default EXCEPT !.docker = k.docker, !.ddns = k.ddns]
  IN IF k.ifaces = {} THEN c ELSE Trust(c, k.ifaces)

Effect(c, k) ==
  CASE k.do = "open"      -> OpenPorts(c, k.range)
    [] k.do = "close"     -> ClosePorts(c, k.range, k.strict)
    [] k.do = "allow"     -> Allow(c, k.prefix)
    [] k.do = "disallow"  -> Disallow(c, k.prefix, k.strict)
    [] k.do = "harden"    -> Harden(c, k.mode, k.force)
    [] k.do = "ddns"      -> SetDDNS(c, k.on)
    [] k.do = "host"      -> AddHost(c, k.host)
    [] k.do = "unhost"    -> RemoveHost(c, k.host, k.strict)
    [] k.do = "length"    -> SetLength(c, k.length)
    [] k.do = "trust"     -> Trust(c, k.ifaces)
    [] k.do = "distrust"  -> Distrust(c, k.ifaces)
    [] k.do = "docker"    -> SetDocker(c, k.on)

\* What a command leaves in the file, or Refused.
Outcome(c, k) ==
  IF k.do = "init" THEN Save(Initialized(k))
  ELSE IF ~Loads(c) \/ Effect(c, k) = Refused THEN Refused ELSE Save(Effect(c, k))

-----------------------------------------------------------------------------

\* Load and edit.  A command that is refused ends here.
Begin(e, k) ==
  /\ editor[e] = None /\ Outcome(file, k) # Refused
  /\ editor' = [editor EXCEPT ![e] = [command |-> k, loaded |-> file]]
  /\ UNCHANGED file

\* Replace the file by a rename.
Finish(e) ==
  /\ editor[e] # None
  /\ file' = Outcome(editor[e].loaded, editor[e].command)
  /\ editor' = [editor EXCEPT ![e] = None]

Killed(e) == editor[e] # None /\ editor' = [editor EXCEPT ![e] = None] /\ UNCHANGED file

EditByHand == file' \in HandEdits /\ UNCHANGED editor

Init == file = Default /\ editor = [e \in Editors |-> None]

Next ==
  \/ \E e \in Editors : Finish(e) \/ Killed(e) \/ \E k \in Commands : Begin(e, k)
  \/ EditByHand

Spec == Init /\ [][Next]_vars
=============================================================================
