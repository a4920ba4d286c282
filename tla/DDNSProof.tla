------------------------------ MODULE DDNSProof ------------------------------
(***************************************************************************)
(* The DDNS sets never hold a partial answer, and a refresh never empties      *)
(* sets that admit somebody: for any hosts, answers, commands, times and       *)
(* number of failures.                                                         *)
(***************************************************************************)
EXTENDS DDNSProperties, TLAPS

Metadata == [failed : BOOLEAN, sets : {None} \cup Sets, left : Nat]
Generations == [sets : Sets, hosts : SUBSET Hosts, age : Nat]
Found == [Hosts -> [Families -> SUBSET Addrs]]
Processes ==
  [pc : {"idle", "lock", "resolve", "replace", "record"}, hosts : SUBSET Hosts,
   meta : Metadata, todo : SUBSET (Hosts \X Families), found : Found, failed : BOOLEAN]

TypeOK ==
  /\ dns \in DNSStates
  /\ desired \in SUBSET Hosts
  /\ meta \in Metadata
  /\ current \in Generations /\ previous \in Generations \cup {None}
  /\ live \in LiveSets \cup {None}
  /\ proc \in [Commands -> Processes]

\* What the elements must contain for a set of hosts.
Answered(sets, h) ==
  /\ \E f \in Families : sets[f] \cap Possible(h, f) # {}
  /\ \A f \in Families : {} \notin Answers[h][f] => sets[f] \cap Possible(h, f) # {}
Complete(sets, hosts) == \A h \in hosts : Answered(sets, h)

\* A batch and a load start the timeouts of both sets at once.
SetsComplete ==
  /\ Complete(current.sets, current.hosts)
  /\ previous # None => Complete(previous.sets, previous.hosts)
  /\ live # None => Complete(live.sets, live.hosts) /\ live.left["v4"] = live.left["v6"]

\* The lookups of host h that are done: each was answered, and of the last one,
\* that in the second family, something is left to use.
Done(r, h, f) == <<h, f>> \notin r.todo
HostResolved(r, h) ==
  /\ \A f \in Families : Done(r, h, f) => r.found[h][f] \in Answers[h][f] \ {Failing}
  /\ Done(r, h, "v6") => Done(r, h, "v4") /\ Usable(r.found[h])

Resolved(p, r) ==
  /\ r.pc \in {"resolve", "replace"} => \A h \in r.hosts : HostResolved(r, h)
  /\ r.pc = "replace" => r.todo = {}
  /\ r.pc \in {"resolve", "replace"} /\ p \in Refreshers => r.hosts # {}
ProcsResolved == \A p \in Commands : Resolved(p, proc[p])

IInv == TypeOK /\ SetsComplete /\ ProcsResolved

-----------------------------------------------------------------------------

USE AnswersAssumption, HostListsAssumption, TimesAssumption, NamesAssumption
USE DEF Families

LEMMA ElementType ==
  ASSUME NEW f \in Families, NEW answer \in SUBSET Addrs
  PROVE  ElementsOf(f, answer) \in SUBSET (Addrs \cup {PrefixOf[a] : a \in Addrs})
BY DEF ElementsOf, Element

LEMMA ResultType ==
  ASSUME NEW found \in Found
  PROVE  ResultOf(found) \in Sets
<1>1. \A f \in Families, h \in Hosts : found[h][f] \in SUBSET Addrs
  BY DEF Found
<1>2. \A f \in Families, h \in Hosts :
        ElementsOf(f, found[h][f]) \in SUBSET (Addrs \cup {PrefixOf[a] : a \in Addrs})
  BY <1>1, ElementType
<1>3. \A f \in Families : UNION {ElementsOf(f, found[h][f]) : h \in Hosts}
                            \in SUBSET (Addrs \cup {PrefixOf[a] : a \in Addrs})
  BY <1>2
<1> QED BY <1>3 DEF ResultOf, Sets

\* What a usable answer adds to the result.
LEMMA Contribution ==
  ASSUME NEW found \in Found, NEW h \in Hosts, NEW f \in Families,
         found[h][f] \in Answers[h][f] \ {Failing}, found[h][f] # {}
  PROVE  ResultOf(found)[f] \cap Possible(h, f) # {}
<1>1. found[h][f] \in SUBSET Addrs BY DEF Found
<1>2. PICK a \in found[h][f] : TRUE BY <1>1
<1>3. Element(f, a) \in ElementsOf(f, found[h][f]) BY <1>2 DEF ElementsOf
<1>4. Element(f, a) \in ResultOf(found)[f] BY <1>3 DEF ResultOf
<1>5. Element(f, a) \in Possible(h, f) BY <1>3 DEF Possible
<1> QED BY <1>4, <1>5

LEMMA ResultComplete ==
  ASSUME NEW found \in Found, NEW hosts \in SUBSET Hosts,
         \A h \in hosts : /\ Usable(found[h])
                         /\ \A f \in Families : found[h][f] \in Answers[h][f] \ {Failing}
  PROVE  /\ Complete(ResultOf(found), hosts)
         /\ hosts # {} => \E f \in Families : ResultOf(found)[f] # {}
<1>1. ASSUME NEW h \in hosts PROVE Answered(ResultOf(found), h)
  <2>1. h \in Hosts OBVIOUS
  <2>2. PICK f \in Families : found[h][f] # {} BY DEF Usable
  <2>3. ResultOf(found)[f] \cap Possible(h, f) # {} BY <2>1, <2>2, Contribution
  <2>4. ASSUME NEW g \in Families, {} \notin Answers[h][g]
        PROVE  ResultOf(found)[g] \cap Possible(h, g) # {}
    <3>1. found[h][g] # {} BY <2>4
    <3> QED BY <2>1, <3>1, Contribution
  <2> QED BY <2>3, <2>4 DEF Answered
<1>2. Complete(ResultOf(found), hosts) BY <1>1 DEF Complete
<1>3. ASSUME hosts # {} PROVE \E f \in Families : ResultOf(found)[f] # {}
  <2>1. PICK h \in hosts : TRUE BY <1>3
  <2>2. PICK f \in Families : ResultOf(found)[f] \cap Possible(h, f) # {}
    BY <1>1, <2>1 DEF Answered
  <2> QED BY <2>2
<1> QED BY <1>2, <1>3

LEMMA TimedType ==
  ASSUME NEW sets \in Sets, NEW hosts \in SUBSET Hosts, NEW age \in Nat,
         NEW by \in {"load", "refresh"}
  PROVE  /\ Timed(sets, hosts, age, by) \in LiveSets
         /\ Timed(sets, hosts, age, by) # None
         /\ Timed(sets, hosts, age, by).sets = sets
         /\ Timed(sets, hosts, age, by).hosts = hosts
         /\ Timed(sets, hosts, age, by).left = [f \in Families |-> TTL]
<1>1. [f \in Families |-> TTL] \in [Families -> Nat] OBVIOUS
<1> QED BY <1>1 DEF Timed, LiveSets

LEMMA LoadedType ==
  ASSUME NEW g \in Generations, Complete(g.sets, g.hosts)
  PROVE  /\ Loaded(g) \in LiveSets /\ Loaded(g) # None
         /\ Complete(Loaded(g).sets, Loaded(g).hosts)
         /\ Loaded(g).left["v4"] = Loaded(g).left["v6"]
<1>1. g.sets \in Sets /\ g.hosts \in SUBSET Hosts /\ g.age \in Nat BY DEF Generations
<1> QED BY <1>1, TimedType DEF Loaded

LEMMA StoppedType == Stopped \in Processes /\ \A p : Resolved(p, Stopped)
<1>1. NoAnswers \in Found BY DEF NoAnswers, Found
<1>2. NoMetadata \in Metadata BY DEF NoMetadata, Metadata
<1>3. Stopped \in Processes BY <1>1, <1>2 DEF Stopped, Processes
<1>4. Stopped.pc = "idle" BY DEF Stopped
<1>5. ASSUME NEW p PROVE Resolved(p, Stopped) BY <1>4 DEF Resolved
<1> QED BY <1>3, <1>5

LEMMA StepOfProc ==
  ASSUME proc \in [Commands -> Processes], ProcsResolved,
         NEW p \in Commands, NEW rec \in Processes, Resolved(p, rec), Step(p, rec)
  PROVE  proc' \in [Commands -> Processes] /\ ProcsResolved'
BY DEF Step, ProcsResolved

LEMMA AttemptType ==
  ASSUME NEW m \in Metadata, NEW failed \in BOOLEAN, NEW sets \in Sets
  PROVE  RecordAttempt(m, failed, sets) \in Metadata
BY DEF RecordAttempt, Metadata

\* What fails is over, and what begins to resolve has nothing done.
LEMMA FailsStep ==
  ASSUME proc \in [Commands -> Processes], ProcsResolved, NEW p \in Commands, Fails(p)
  PROVE  proc' \in [Commands -> Processes] /\ ProcsResolved'
<1> DEFINE rec == [proc[p] EXCEPT !.pc = "record", !.failed = TRUE]
<1>1. rec \in Processes /\ rec.pc = "record"
  <2>1. proc[p] \in Processes OBVIOUS
  <2> QED BY <2>1 DEF Processes
<1>2. Resolved(p, rec) BY <1>1 DEF Resolved
<1>3. Step(p, rec) BY DEF Fails
<1> HIDE DEF rec
<1> QED BY <1>1, <1>2, <1>3, StepOfProc

LEMMA StopsStep ==
  ASSUME proc \in [Commands -> Processes], ProcsResolved, NEW p \in Commands,
         Step(p, Stopped)
  PROVE  proc' \in [Commands -> Processes] /\ ProcsResolved'
BY StoppedType, StepOfProc

LEMMA ResolvingType ==
  ASSUME NEW r \in Processes, NEW hosts \in SUBSET Hosts, NEW p \in Commands,
         p \in Refreshers => hosts # {}
  PROVE  Resolving(r, hosts) \in Processes /\ Resolved(p, Resolving(r, hosts))
<1> DEFINE q == Resolving(r, hosts)
<1>1. Lookups(hosts) \in SUBSET (Hosts \X Families) BY DEF Lookups
<1>2. /\ q \in Processes /\ q.hosts = hosts /\ q.todo = Lookups(hosts)
      /\ q.pc = IF hosts = {} THEN "replace" ELSE "resolve"
  BY <1>1 DEF Resolving, Processes
<1>3. \A h \in hosts : HostResolved(q, h)
  BY <1>2 DEF HostResolved, Done, Lookups
<1>4. hosts = {} => Lookups(hosts) = {} BY DEF Lookups
<1> QED BY <1>2, <1>3, <1>4 DEF Resolved

-----------------------------------------------------------------------------
(* One lemma per step. *)

LEMMA DNSType ==
  ASSUME NEW d \in DNSStates
  PROVE  /\ \A h \in Hosts, f \in Families : d[h][f] \in Answers[h][f]
         /\ d = [h \in Hosts |-> d[h]]
         /\ \A h \in Hosts : d[h] = [f \in Families |-> d[h][f]]
BY DEF DNSStates

LEMMA InitInv == Init => IInv
<1> SUFFICES ASSUME Init PROVE IInv OBVIOUS
<1>1. NoAnswers \in Found BY DEF NoAnswers, Found
<1>2. current \in Generations /\ Complete(current.sets, current.hosts)
  <2>1. CASE current = Generation(ResultOf(NoAnswers), {})
    <3>1. ResultOf(NoAnswers) \in Sets BY <1>1, ResultType
    <3> QED BY <2>1, <3>1 DEF Generation, Generations, Complete
  <2>2. ASSUME NEW d \in DNSStates, Works(d), current = Generation(ResultOf(d), Hosts)
        PROVE  current \in Generations /\ Complete(current.sets, current.hosts)
    <3>1. \A h \in Hosts, f \in Families : d[h][f] \in Answers[h][f] \ {Failing}
      BY <2>2, DNSType DEF Works
    <3>2. d \in Found
      <4>1. \A h \in Hosts, f \in Families : d[h][f] \in SUBSET Addrs BY <3>1
      <4>2. \A h \in Hosts : d[h] \in [Families -> SUBSET Addrs] BY <4>1, DNSType
      <4> QED BY <4>2, DNSType DEF Found
    <3>3. ResultOf(d) \in Sets BY <3>2, ResultType
    <3>4. Complete(ResultOf(d), Hosts)
      BY <3>1, <3>2, <2>2, ResultComplete DEF Works
    <3> QED BY <2>2, <3>3, <3>4 DEF Generation, Generations
  <2> QED BY <2>1, <2>2 DEF Init
<1>3. live \in LiveSets /\ live # None /\ Complete(live.sets, live.hosts)
      /\ live.left["v4"] = live.left["v6"]
  BY <1>2, LoadedType DEF Init
<1>4. meta \in Metadata BY DEF Init, NoMetadata, Metadata
<1>5. proc \in [Commands -> Processes] /\ ProcsResolved
  <2>1. proc = [p \in Commands |-> Stopped] BY DEF Init
  <2> QED BY <2>1, StoppedType DEF ProcsResolved
<1> QED BY <1>2, <1>3, <1>4, <1>5 DEF Init, IInv, TypeOK, SetsComplete

LEMMA RefreshStartStep ==
  ASSUME IInv, NEW p \in Commands, RefreshStart(p)
  PROVE  IInv'
<1> DEFINE rec == [Stopped EXCEPT !.pc = "lock", !.hosts = desired, !.meta = meta]
<1>1. rec \in Processes /\ rec.pc = "lock"
  BY StoppedType DEF IInv, TypeOK, Processes
<1>2. Resolved(p, rec) BY <1>1 DEF Resolved
<1>3. Step(p, rec) BY DEF RefreshStart
<1> HIDE DEF rec
<1>4. proc' \in [Commands -> Processes] /\ ProcsResolved'
  BY <1>1, <1>2, <1>3, StepOfProc DEF IInv, TypeOK
<1> QED BY <1>4 DEF RefreshStart, files, IInv, TypeOK, SetsComplete

LEMMA TakeLockStep ==
  ASSUME IInv, NEW p \in Commands, TakeLock(p)
  PROVE  IInv'
<1>1. proc' \in [Commands -> Processes] /\ ProcsResolved'
  <2>1. CASE Refreshable(proc[p].hosts) /\ Step(p, Resolving(proc[p], proc[p].hosts))
    <3>1. proc[p] \in Processes /\ proc[p].hosts \in SUBSET Hosts
      BY DEF IInv, TypeOK, Processes
    <3>2. Resolving(proc[p], proc[p].hosts) \in Processes
          /\ Resolved(p, Resolving(proc[p], proc[p].hosts))
      BY <2>1, <3>1, ResolvingType DEF Refreshable
    <3> QED BY <2>1, <3>2, StepOfProc DEF IInv, TypeOK
  <2>2. CASE Fails(p) BY <2>2, FailsStep DEF IInv, TypeOK
  <2> QED BY <2>1, <2>2 DEF TakeLock
<1> QED BY <1>1 DEF TakeLock, files, IInv, TypeOK, SetsComplete

LEMMA LookupStep ==
  ASSUME IInv, NEW p \in Commands, NEW h \in Hosts, NEW f \in Families, Lookup(p, h, f)
  PROVE  IInv'
<1> DEFINE r == proc[p]
           answer == Heard(dns[h][f])
           found == [r.found EXCEPT ![h][f] = answer]
           todo == r.todo \ {<<h, f>>}
           rec == [r EXCEPT !.found = found, !.todo = todo,
                            !.pc = IF todo = {} THEN "replace" ELSE "resolve"]
<1>1. r \in Processes /\ Resolved(p, r) BY DEF IInv, TypeOK, ProcsResolved
<1>2. proc' \in [Commands -> Processes] /\ ProcsResolved'
  <2>1. CASE answer # Failing /\ (f = "v6" => Usable(found[h])) /\ Step(p, rec)
    <3>1. answer \in Answers[h][f] \ {Failing}
      BY <2>1, DNSType DEF Heard, IInv, TypeOK
    <3>2. r.found \in Found /\ r.todo \in SUBSET (Hosts \X Families) /\ r.hosts \in SUBSET Hosts
      BY <1>1 DEF Processes
    <3>3. answer \in SUBSET Addrs BY <3>1
    <3>4. /\ found \in Found /\ found[h][f] = answer
          /\ \A g \in Hosts, e \in Families : <<g, e>> # <<h, f>> => found[g][e] = r.found[g][e]
          /\ \A g \in Hosts : g # h => found[g] = r.found[g]
      BY <3>2, <3>3 DEF Found
    <3> HIDE DEF answer, found
    <3>5. todo \in SUBSET (Hosts \X Families) BY <3>2
    <3>6. /\ rec \in Processes /\ rec.found = found /\ rec.todo = todo /\ rec.hosts = r.hosts
          /\ rec.pc = IF todo = {} THEN "replace" ELSE "resolve"
      BY <1>1, <3>4, <3>5 DEF Processes
    <3>7. r.pc = "resolve" /\ <<h, f>> \in r.todo /\ (f = "v6" => <<h, "v4">> \notin r.todo)
      BY DEF Lookup
    <3>8. ASSUME NEW g \in r.hosts PROVE HostResolved(rec, g)
      <4>1. HostResolved(r, g) /\ g \in Hosts BY <1>1, <3>2, <3>7 DEF Resolved
      <4>2. ASSUME NEW e \in Families, Done(rec, g, e)
            PROVE  rec.found[g][e] \in Answers[g][e] \ {Failing}
        <5>1. CASE <<g, e>> = <<h, f>> BY <5>1, <3>1, <3>4, <3>6
        <5>2. CASE <<g, e>> # <<h, f>>
          <6>1. Done(r, g, e) BY <4>2, <5>2, <3>6 DEF Done
          <6> QED BY <6>1, <4>1, <5>2, <3>4, <3>6 DEF HostResolved
        <5> QED BY <5>1, <5>2
      <4>3. ASSUME Done(rec, g, "v6") PROVE Done(rec, g, "v4") /\ Usable(rec.found[g])
        <5>1. CASE g = h /\ f = "v6" BY <5>1, <2>1, <3>6, <3>7 DEF Done
        <5>2. CASE ~(g = h /\ f = "v6")
          <6>1. Done(r, g, "v6") BY <4>3, <5>2, <3>6 DEF Done
          <6>2. Done(r, g, "v4") /\ Usable(r.found[g]) BY <6>1, <4>1 DEF HostResolved
          <6>3. g # h BY <5>2, <6>2, <3>7 DEF Done
          <6> QED BY <6>2, <6>3, <4>1, <3>4, <3>6 DEF Done
        <5> QED BY <5>1, <5>2
      <4> QED BY <4>2, <4>3 DEF HostResolved
    <3>9. Resolved(p, rec) BY <3>6, <3>7, <3>8, <1>1 DEF Resolved
    <3> HIDE DEF rec
    <3> QED BY <2>1, <3>6, <3>9, StepOfProc DEF IInv, TypeOK
  <2>2. CASE Stops(p) BY <2>2, StopsStep DEF Stops, IInv, TypeOK
  <2>3. CASE Fails(p) BY <2>3, FailsStep DEF IInv, TypeOK
  <2> QED BY <2>1, <2>2, <2>3 DEF Lookup
<1>3. UNCHANGED <<dns, files, live>> BY DEF Lookup
<1> QED BY <1>2, <1>3 DEF files, IInv, TypeOK, SetsComplete

\* A process that has all its answers has a complete result.
LEMMA ReplaceComplete ==
  ASSUME IInv, NEW p \in Commands, proc[p].pc = "replace"
  PROVE  /\ proc[p].found \in Found /\ proc[p].hosts \in SUBSET Hosts
         /\ ResultOf(proc[p].found) \in Sets
         /\ Complete(ResultOf(proc[p].found), proc[p].hosts)
         /\ p \in Refreshers => \E f \in Families : ResultOf(proc[p].found)[f] # {}
<1> DEFINE r == proc[p]
<1>1. r \in Processes /\ Resolved(p, r) BY DEF IInv, TypeOK, ProcsResolved
<1>2. r.found \in Found /\ r.hosts \in SUBSET Hosts BY <1>1 DEF Processes
<1>3. \A h \in r.hosts : /\ Usable(r.found[h])
                        /\ \A f \in Families : r.found[h][f] \in Answers[h][f] \ {Failing}
  BY <1>1 DEF Resolved, HostResolved, Done
<1>4. p \in Refreshers => r.hosts # {} BY <1>1 DEF Resolved
<1> HIDE DEF r
<1>5. ResultOf(r.found) \in Sets BY <1>2, ResultType
<1>6. /\ Complete(ResultOf(r.found), r.hosts)
      /\ r.hosts # {} => \E f \in Families : ResultOf(r.found)[f] # {}
  BY <1>2, <1>3, ResultComplete
<1> QED BY <1>2, <1>4, <1>5, <1>6 DEF r

LEMMA ReplaceStep ==
  ASSUME IInv, NEW p \in Commands, Replace(p)
  PROVE  IInv'
<1>1. CASE /\ live' = Timed(ResultOf(proc[p].found), proc[p].hosts, 0, "refresh")
           /\ Step(p, [proc[p] EXCEPT !.pc = "record"])
  <2>1. proc[p].pc = "replace" BY DEF Replace
  <2>2. /\ proc[p].hosts \in SUBSET Hosts /\ ResultOf(proc[p].found) \in Sets
        /\ Complete(ResultOf(proc[p].found), proc[p].hosts)
    BY <2>1, ReplaceComplete
  <2>3. /\ live' \in LiveSets /\ Complete(live'.sets, live'.hosts)
        /\ live'.left["v4"] = live'.left["v6"]
    BY <1>1, <2>2, TimedType
  <2>4. [proc[p] EXCEPT !.pc = "record"] \in Processes
        /\ Resolved(p, [proc[p] EXCEPT !.pc = "record"])
    BY DEF IInv, TypeOK, Processes, Resolved
  <2>5. proc' \in [Commands -> Processes] /\ ProcsResolved'
    BY <1>1, <2>4, StepOfProc DEF IInv, TypeOK
  <2> QED BY <2>3, <2>5 DEF Replace, files, IInv, TypeOK, SetsComplete
<1>2. CASE Fails(p) /\ UNCHANGED live
  <2>1. proc' \in [Commands -> Processes] /\ ProcsResolved'
    BY <1>2, FailsStep DEF IInv, TypeOK
  <2> QED BY <1>2, <2>1 DEF Replace, files, IInv, TypeOK, SetsComplete
<1> QED BY <1>1, <1>2 DEF Replace

LEMMA RecordStep ==
  ASSUME IInv, NEW p \in Commands, Record(p)
  PROVE  IInv'
<1>1. proc[p] \in Processes BY DEF IInv, TypeOK
<1>2. ResultOf(proc[p].found) \in Sets BY <1>1, ResultType DEF Processes
<1>3. meta' \in Metadata BY <1>1, <1>2, AttemptType DEF Record, Processes
<1>4. proc' \in [Commands -> Processes] /\ ProcsResolved'
  BY StopsStep DEF Record, IInv, TypeOK
<1> QED BY <1>3, <1>4 DEF Record, IInv, TypeOK, SetsComplete

LEMMA ApplyStartStep ==
  ASSUME IInv, ApplyStart
  PROVE  IInv'
<1>1. Applier \in Commands BY DEF Commands
<1>2. Stopped \in Processes /\ desired \in SUBSET Hosts BY StoppedType DEF IInv, TypeOK
<1>3. Resolving(Stopped, desired) \in Processes /\ Resolved(Applier, Resolving(Stopped, desired))
  BY <1>1, <1>2, ResolvingType
<1>4. Step(Applier, Resolving(Stopped, desired)) BY DEF ApplyStart
<1>5. proc' \in [Commands -> Processes] /\ ProcsResolved'
  BY <1>1, <1>3, <1>4, StepOfProc DEF IInv, TypeOK
<1> QED BY <1>5 DEF ApplyStart, files, IInv, TypeOK, SetsComplete

LEMMA ApplyLoadStep ==
  ASSUME IInv, ApplyLoad
  PROVE  IInv'
<1> DEFINE g == Generation(ResultOf(proc[Applier].found), proc[Applier].hosts)
<1>1. Applier \in Commands /\ proc[Applier].pc = "replace" BY DEF Commands, ApplyLoad
<1>2. g \in Generations /\ Complete(g.sets, g.hosts)
  BY <1>1, ReplaceComplete DEF Generation, Generations
<1>3. proc' \in [Commands -> Processes] /\ ProcsResolved'
  BY <1>1, StopsStep DEF ApplyLoad, IInv, TypeOK
<1>4. CASE current' = g /\ previous' = current /\ live' = Loaded(g)
  <2> HIDE DEF g
  <2>1. live' \in LiveSets /\ Complete(live'.sets, live'.hosts)
        /\ live'.left["v4"] = live'.left["v6"]
    BY <1>2, <1>4, LoadedType
  <2> QED BY <1>2, <1>3, <1>4, <2>1 DEF ApplyLoad, IInv, TypeOK, SetsComplete
<1>5. CASE UNCHANGED <<current, previous, live>>
  BY <1>3, <1>5 DEF ApplyLoad, IInv, TypeOK, SetsComplete
<1> QED BY <1>4, <1>5 DEF ApplyLoad

LEMMA RollBackStep ==
  ASSUME IInv, RollBack
  PROVE  IInv'
<1>1. previous \in Generations /\ Complete(previous.sets, previous.hosts)
  BY DEF RollBack, IInv, TypeOK, SetsComplete
<1>2. live' \in LiveSets /\ Complete(live'.sets, live'.hosts)
      /\ live'.left["v4"] = live'.left["v6"]
  BY <1>1, LoadedType DEF RollBack
<1> QED BY <1>1, <1>2 DEF RollBack, IInv, TypeOK, SetsComplete, ProcsResolved

LEMMA RebootStep ==
  ASSUME IInv, Reboot
  PROVE  IInv'
<1>1. current' \in Generations /\ Complete(current'.sets, current'.hosts)
  BY DEF Reboot, IInv, TypeOK, SetsComplete
<1>2. live' \in LiveSets /\ Complete(live'.sets, live'.hosts)
      /\ live'.left["v4"] = live'.left["v6"]
  <2>1. live' = Loaded(current') BY DEF Reboot
  <2> QED BY <1>1, <2>1, LoadedType
<1>3. proc' \in [Commands -> Processes] /\ ProcsResolved'
  <2>1. proc' = [p \in Commands |-> Stopped] BY DEF Reboot
  <2> QED BY <2>1, StoppedType DEF ProcsResolved
<1> QED BY <1>1, <1>2, <1>3 DEF Reboot, IInv, TypeOK, SetsComplete

LEMMA TickStep ==
  ASSUME IInv, Tick
  PROVE  IInv'
<1>1. \A g \in Generations : /\ [g EXCEPT !.age = Least(@ + 1, MaxAge)] \in Generations
                             /\ [g EXCEPT !.age = Least(@ + 1, MaxAge)].sets = g.sets
                             /\ [g EXCEPT !.age = Least(@ + 1, MaxAge)].hosts = g.hosts
  BY DEF Generations, Least
<1>2. current' \in Generations /\ Complete(current'.sets, current'.hosts)
  BY <1>1 DEF Tick, AgedGeneration, IInv, TypeOK, SetsComplete
<1>3. previous' \in Generations \cup {None}
      /\ (previous' # None => Complete(previous'.sets, previous'.hosts))
  BY <1>1 DEF Tick, AgedGeneration, IInv, TypeOK, SetsComplete
<1>4. live' \in LiveSets \cup {None}
      /\ (live' # None => Complete(live'.sets, live'.hosts) /\ live'.left["v4"] = live'.left["v6"])
  <2>1. CASE live = None BY <2>1 DEF Tick, AgedSets
  <2>2. CASE live # None
    <3>1. live \in LiveSets /\ live.left \in [Families -> Nat] /\ live.age \in Nat
          /\ Complete(live.sets, live.hosts) /\ live.left["v4"] = live.left["v6"]
      BY <2>2 DEF LiveSets, IInv, TypeOK, SetsComplete
    <3> DEFINE left == [f \in Families |-> Down(live.left[f])]
               age == Least(live.age + 1, MaxAge)
    <3>2. left \in [Families -> Nat] /\ left["v4"] = left["v6"] BY <3>1 DEF Down
    <3>3. age \in Nat BY <3>1 DEF Least
    <3>4. live' = [live EXCEPT !.left = left, !.age = age] BY <2>2 DEF Tick, AgedSets
    <3> HIDE DEF left, age
    <3>5. /\ live' \in LiveSets /\ live'.sets = live.sets /\ live'.hosts = live.hosts
          /\ live'.left = left
      BY <3>1, <3>2, <3>3, <3>4 DEF LiveSets
    <3> QED BY <3>1, <3>2, <3>5
  <2> QED BY <2>1, <2>2
<1>5. \A m \in Metadata : AgedMetadata(m) \in Metadata BY DEF Metadata, AgedMetadata, Down
<1>6. proc' \in [Commands -> Processes] /\ ProcsResolved'
  <2>1. proc' = [p \in Commands |-> [proc[p] EXCEPT !.meta = AgedMetadata(@)]] BY DEF Tick
  <2>2. ASSUME NEW p \in Commands
        PROVE  proc'[p] \in Processes /\ Resolved(p, proc'[p])
    <3>1. proc[p] \in Processes /\ Resolved(p, proc[p]) BY DEF IInv, TypeOK, ProcsResolved
    <3>2. AgedMetadata(proc[p].meta) \in Metadata BY <3>1, <1>5 DEF Processes
    <3>3. proc'[p] = [proc[p] EXCEPT !.meta = AgedMetadata(proc[p].meta)] BY <2>1
    <3>4. /\ proc'[p] \in Processes /\ proc'[p].pc = proc[p].pc
          /\ proc'[p].hosts = proc[p].hosts /\ proc'[p].todo = proc[p].todo
          /\ proc'[p].found = proc[p].found
      BY <3>1, <3>2, <3>3 DEF Processes
    <3> QED BY <3>1, <3>4 DEF Resolved, HostResolved, Done
  <2> QED BY <2>1, <2>2 DEF ProcsResolved
<1>7. meta' \in Metadata BY <1>5 DEF Tick, IInv, TypeOK
<1> QED BY <1>2, <1>3, <1>4, <1>6, <1>7 DEF Tick, IInv, TypeOK, SetsComplete

LEMMA DNSChangesStep ==
  ASSUME IInv, NEW h \in Hosts, NEW f \in Families, DNSChanges(h, f)
  PROVE  IInv'
<1>1. PICK answer \in Answers[h][f] : dns' = [dns EXCEPT ![h][f] = answer] BY DEF DNSChanges
<1>2. dns \in DNSStates BY DEF IInv, TypeOK
<1>3. answer \in AnyAnswer BY DEF AnyAnswer
<1>4. dns' \in DNSStates BY <1>1, <1>2, <1>3 DEF DNSStates
<1> QED BY <1>4 DEF DNSChanges, files, IInv, TypeOK, SetsComplete, ProcsResolved

LEMMA InvStep == IInv /\ [Next]_vars => IInv'
<1> SUFFICES ASSUME IInv, [Next]_vars PROVE IInv' OBVIOUS
<1>1. ASSUME NEW p \in Commands, OperatorRefresh(p) PROVE IInv'
  BY <1>1, RefreshStartStep DEF OperatorRefresh
<1>2. CASE TimerElapses
  <2>1. Unit \in Commands BY DEF Commands, Refreshers
  <2> QED BY <1>2, <2>1, RefreshStartStep DEF TimerElapses
<1>3. ASSUME NEW p \in Commands, RefreshStep(p) PROVE IInv'
  BY <1>3, TakeLockStep, ReplaceStep, RecordStep, LookupStep DEF RefreshStep
<1>4. ASSUME NEW p \in Commands, Kill(p) PROVE IInv'
  <2>1. proc' \in [Commands -> Processes] /\ ProcsResolved'
    BY <1>4, StopsStep DEF Kill, Stops, IInv, TypeOK
  <2> QED BY <1>4, <2>1 DEF Kill, files, IInv, TypeOK, SetsComplete
<1>5. CASE Confirm BY <1>5 DEF Confirm, IInv, TypeOK, SetsComplete, ProcsResolved
<1>6. CASE Edit BY <1>6 DEF Edit, IInv, TypeOK, SetsComplete, ProcsResolved
<1>7. CASE Flush BY <1>7 DEF Flush, files, IInv, TypeOK, SetsComplete, ProcsResolved
<1>8. CASE UNCHANGED vars BY <1>8 DEF vars, files, IInv, TypeOK, SetsComplete, ProcsResolved
<1> QED BY <1>1, <1>2, <1>3, <1>4, <1>5, <1>6, <1>7, <1>8, TickStep, ApplyStartStep,
           ApplyLoadStep, RollBackStep, DNSChangesStep, RebootStep DEF Next

THEOREM Invariance == Spec => []IInv
BY InitInv, InvStep, PTL DEF Spec

-----------------------------------------------------------------------------
(* Whatever the live sets hold came from a resolution that answered every host,  *)
(* for any hosts and answers: a failed lookup, a kill between two lookups, an     *)
(* expiry or a failed batch never leaves part of an answer (ddns.go:168).         *)
THEOREM NoHostIsMissing == Spec => []NoPartialAnswer
<1>1. IInv => NoPartialAnswer
  <2> SUFFICES ASSUME IInv, Admitting, NEW h \in live.hosts
               PROVE  /\ \E f \in Families : Elements(f) \cap Possible(h, f) # {}
                      /\ \A f \in Families : {} \notin Answers[h][f] =>
                           Elements(f) \cap Possible(h, f) # {}
    BY DEF NoPartialAnswer
  <2>1. PICK f \in Families : live # None /\ live.left[f] > 0 BY DEF Admitting, Elements
  <2>2. live.left["v4"] = live.left["v6"] BY <2>1 DEF IInv, SetsComplete
  <2>3. \A g \in Families : Elements(g) = live.sets[g] BY <2>1, <2>2 DEF Elements
  <2>4. Answered(live.sets, h) BY <2>1 DEF IInv, SetsComplete, Complete
  <2> QED BY <2>3, <2>4 DEF Answered
<1> QED BY <1>1, Invariance, PTL

(* A refresh, whatever lookups and nft answer it, leaves somebody admitted where  *)
(* somebody was: it never replaces the sets by empty ones (runner.go:137).        *)
THEOREM RefreshKeepsSomebody == Spec => RefreshNeverEmpties
<1>1. IInv /\ [Next]_vars =>
        [ \A p \in Refreshers :
            proc[p].pc = "replace" /\ proc'[p].pc = "record" /\ Admitting => Admitting' ]_vars
  <2> SUFFICES ASSUME IInv, [Next]_vars, NEW p \in Refreshers,
                      proc[p].pc = "replace", proc'[p].pc = "record", Admitting
               PROVE  Admitting'
    OBVIOUS
  <2>1. p \in Commands BY DEF Commands
  <2>2. Stopped.pc = "idle" BY DEF Stopped
  <2>3. ASSUME NEW q \in Commands, NEW rec, Step(q, rec)
        PROVE  q = p /\ rec = proc'[p]
    BY <2>1, <2>3 DEF Step, IInv, TypeOK
  <2>4. ASSUME NEW q \in Commands, Replace(q) PROVE Admitting'
    <3>1. CASE /\ live' = Timed(ResultOf(proc[q].found), proc[q].hosts, 0, "refresh")
               /\ Step(q, [proc[q] EXCEPT !.pc = "record"])
      <4>1. q = p BY <3>1, <2>3
      <4>2. PICK f \in Families : ResultOf(proc[p].found)[f] # {}
        BY <2>1, ReplaceComplete
      <4>3. ResultOf(proc[p].found) \in Sets /\ proc[p].hosts \in SUBSET Hosts
        BY <2>1, ReplaceComplete
      <4>4. live' # None /\ live'.left[f] > 0 /\ live'.sets[f] # {}
        BY <3>1, <4>1, <4>2, <4>3, TimedType
      <4> QED BY <4>4 DEF Admitting, Elements
    <3>2. CASE UNCHANGED live BY <3>2 DEF Admitting, Elements
    <3> QED BY <2>4, <3>1, <3>2 DEF Replace
  <2>5. ASSUME NEW q \in Commands, TakeLock(q) PROVE FALSE
    <3>1. proc'[p] # proc[p] OBVIOUS
    <3>2. q = p BY <2>5, <2>3, <3>1 DEF TakeLock, Fails
    <3> QED BY <2>5, <3>2 DEF TakeLock
  <2>6. ASSUME NEW q \in Commands, NEW h \in Hosts, NEW f \in Families, Lookup(q, h, f)
        PROVE  FALSE
    <3>1. q = p BY <2>6, <2>3 DEF Lookup, Fails, Stops
    <3> QED BY <2>6, <3>1 DEF Lookup
  <2>7. ASSUME NEW q \in Commands, Record(q) \/ Kill(q) \/ RefreshStart(q) PROVE FALSE
    <3>1. CASE Record(q) \/ Kill(q) BY <3>1, <2>2, <2>3 DEF Record, Kill, Stops
    <3>2. CASE RefreshStart(q)
      <4>1. q = p BY <3>2, <2>3 DEF RefreshStart
      <4> QED BY <3>2, <4>1 DEF RefreshStart
    <3> QED BY <2>7, <3>1, <3>2
  <2>8. CASE ApplyStart \/ ApplyLoad
    <3>1. Applier \in Commands /\ Applier # p BY NamesAssumption DEF Commands
    <3> QED BY <2>8, <2>3, <3>1 DEF ApplyStart, ApplyLoad
  <2>9. CASE Tick
    <3>1. proc'[p].pc = proc[p].pc BY <2>1, <2>9 DEF Tick, IInv, TypeOK, Processes
    <3> QED BY <3>1
  <2>10. CASE Reboot
    <3>1. proc'[p].pc = "idle" BY <2>1, <2>2, <2>10 DEF Reboot
    <3> QED BY <3>1
  <2>11. proc' # proc OBVIOUS
  <2>12. Unit \in Commands BY DEF Commands, Refreshers
  <2> QED BY <2>4, <2>5, <2>6, <2>7, <2>8, <2>9, <2>10, <2>11, <2>12
          DEF Next, RefreshStep, OperatorRefresh, TimerElapses, Confirm, RollBack,
              DNSChanges, Edit, Flush, vars
<1> QED BY <1>1, Invariance, PTL DEF Spec, RefreshNeverEmpties
=============================================================================
