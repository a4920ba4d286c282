---------------------------- MODULE StatusReport ----------------------------
(***************************************************************************)
(* `cnftctl status` (and doctor, its alias) and `cnftctl plan` beside the   *)
(* activation system.  Neither takes the lock: status reads the selector,   *)
(* the ownership file, the desired configuration, systemd, the kernel and   *)
(* the journal one after another while commands, timers and reboots go on.  *)
(*                                                                         *)
(*   desired     generation config.yaml renders to (None: no such file);    *)
(*               with a DDNS whitelist, the one whose sets are empty         *)
(*   at          the next thing the inspection reads; "done": reported      *)
(*   seen        states of the checks made so far                           *)
(*   inspected   the selector, then the pending transactions, it has read   *)
(*   planned     state of the last plan, "none" once anything has changed   *)
(* History:                                                                *)
(*   calm        nothing has changed since the inspection began             *)
(*   wasHealthy  some moment since it began was healthy                     *)
(*   trials      transactions that have been pending ever since it began    *)
(*                                                                         *)
(* Platform, manifest bytes and the DDNS sets are inspected too; the first  *)
(* two are taken as sound, the sets as anything.                            *)
(***************************************************************************)
EXTENDS Activation

CONSTANT IntentOf   \* generation -> it with the elements of its DDNS sets cut

VARIABLES desired, at, seen, inspected, planned,
          calm, wasHealthy, trials

inspector == <<at, seen, inspected>>
history == <<calm, wasHealthy, trials>>
NoHistory == calm' = FALSE /\ wasHealthy' = FALSE /\ trials' = {}
statusVars == <<vars, desired, inspector, planned, history>>

ASSUME IntentAssumption ==
  /\ \A g \in Gens : IntentOf[g] # None /\ (~DDNSOf[g] => IntentOf[g] = g)
  /\ \A g, h \in Gens : IntentOf[g] = IntentOf[h] => DDNSOf[g] = DDNSOf[h]

Intents == {IntentOf[g] : g \in Gens}
\* Generations an apply of this configuration may produce: embedDDNSCandidate
\* puts the addresses its names resolve to into the sets.
Candidates(intent) == {g \in Gens : IntentOf[g] = intent}
WantsDDNS(intent) == \E g \in Candidates(intent) : DDNSOf[g]

-----------------------------------------------------------------------------
(* Reports.                                                                   *)

\* Mutation: a pending transaction does not count against the host.
RankPendingHealthy ==
  [ok |-> 0, not_applicable |-> 0, absent |-> 2, pending |-> 0,
   degraded |-> 4, unknown |-> 6, failed |-> 7]
\* overallState's order of severity.
Rank ==
  [ok |-> 0, not_applicable |-> 0, absent |-> 2, pending |-> 3,
   degraded |-> 4, unknown |-> 6, failed |-> 7]

OverallState(states) ==
  IF \A s \in states : Rank[s] = 0 THEN "ok"
  ELSE CHOOSE s \in states : \A r \in states : Rank[r] <= Rank[s]

\* finishReport: anything else is a HealthError, exit status 1.
ExitsZero(states) == OverallState(states) = "ok"

OkIf(condition, otherwise) == IF condition THEN "ok" ELSE otherwise

-----------------------------------------------------------------------------
(* What each check says of what it reads.                                     *)

\* Mutation: any selected generation counts as the desired one.
DriftStateOfAny == OkIf(active # None, "degraded")
\* renderedInSync: the elements of a DDNS whitelist's sets are not compared,
\* and the active manifest must then ask for its timer.
DriftState ==
  CASE active = None -> "degraded"
    [] active # None /\ WantsDDNS(desired) ->
         IF DDNSOf[active] THEN OkIf(IntentOf[active] = desired, "degraded")
         ELSE "unknown"
    [] OTHER -> OkIf(active = desired, "degraded")

DDNSTimerState == OkIf(ddnsTimer = WantsDDNS(desired), "failed")

\* What ddns.StatusOf finds: names, sets and metadata are other modules'.
DDNSStates == IF WantsDDNS(desired) THEN {"ok", "unknown", "failed"}
              ELSE {"not_applicable"}

\* The marker is looked for, whichever generation follows it.
LiveState == CASE live = None -> "unknown"
               [] live = Foreign -> "failed"
               [] OTHER -> "ok"

\* transactions.pending, and one check per transaction's rollback timer.
PendingStates(listed) ==
  IF listed = {} THEN {"ok"}
  ELSE {"pending"} \cup
       {IF timers[i] = "armed" THEN "pending" ELSE "failed" : i \in listed}

-----------------------------------------------------------------------------
(* `cnftctl status`, one action per thing it reads.                           *)

Record(states, next) == seen' = seen \cup states /\ at' = next

StatusStart ==
  /\ at = "off" /\ host = "up"
  /\ at' = "selector" /\ seen' = {} /\ inspected' = None

ReadSelector ==
  /\ at = "selector" /\ inspected' = active
  /\ IF active = None
     THEN Record({"absent", "not_applicable"}, "config")
     ELSE Record({"ok"}, "ownership")

ReadOwnership ==
  /\ at = "ownership" /\ inspected' = None
  /\ Record({OkIf(ownership = inspected, "failed")}, "config")

ReadConfig ==
  /\ at = "config" /\ UNCHANGED inspected
  /\ IF desired = None THEN Record({"absent", "unknown"}, "live")
     ELSE Record({"ok"}, "drift")

ReadDrift ==
  /\ at = "drift" /\ Record({DriftState}, "ddns") /\ UNCHANGED inspected

ReadDDNS ==
  /\ at = "ddns" /\ UNCHANGED inspected
  /\ \E s \in DDNSStates : Record({s, DDNSTimerState}, "live")

ReadLive ==
  /\ at = "live" /\ Record({LiveState}, "pending") /\ UNCHANGED inspected

ReadPending ==
  /\ at = "pending" /\ at' = "timers" /\ inspected' = Pending
  /\ UNCHANGED seen

ReadTimers ==
  /\ at = "timers" /\ Record(PendingStates(inspected), "done")
  /\ inspected' = None

StatusEnd ==
  /\ at = "done" /\ at' = "off" /\ seen' = {} /\ inspected' = None

InspectionStep ==
  \/ ReadSelector \/ ReadOwnership \/ ReadConfig \/ ReadDrift \/ ReadDDNS
  \/ ReadLive \/ ReadPending \/ ReadTimers

-----------------------------------------------------------------------------
(* `cnftctl plan` compares the rendered files with the directory of the       *)
(* generation they make, which is not the one an apply with a DDNS whitelist   *)
(* writes unless its names have no address.                                   *)

Plan ==
  /\ at = "off" /\ host = "up" /\ desired # None
  /\ planned' = IF desired \in generations THEN "ok" ELSE "pending"

-----------------------------------------------------------------------------

\* The desired policy is in force, alone, and nothing is undecided.
Healthy ==
  /\ active \in Candidates(desired) /\ ownership = active /\ live = active
  /\ ddnsTimer = WantsDDNS(desired) /\ Pending = {}

\* Apply renders the configuration file as it is.
OperatorUsesDesired ==
  \/ \E g \in Candidates(desired) :
       ApplyAlreadyActive(g) \/ (\E i \in TxIds : ApplyStart(g, i))
  \/ \E i \in TxIds : ConfirmStart(i) \/ OperatorRollback(i)
  \/ ReconcileStart("reconcile") \/ PassStart

HostStep ==
  \/ CommandStep \/ OperatorUsesDesired \/ SystemdStep
  \/ Kill \/ Reboot \/ ExternalDelete \/ ForeignAppears

\* The report is read once: a reboot ends the inspection with everything else.
HostMoves ==
  /\ HostStep /\ UNCHANGED desired /\ planned' = "none"
  /\ IF host' = "booting" /\ host = "up"
     THEN /\ at' = "off" /\ seen' = {} /\ inspected' = None
          /\ NoHistory
     ELSE /\ UNCHANGED inspector /\ calm' = FALSE
          /\ wasHealthy' = (at # "off" /\ (wasHealthy \/ Healthy'))
          /\ trials' = trials \cap Pending'

\* Not while the operator waits for a report.
EditDesired(intent) ==
  /\ at = "off" /\ host = "up" /\ intent # desired
  /\ desired' = intent /\ planned' = "none"
  /\ UNCHANGED <<vars, inspector, history>>

Inspects ==
  /\ UNCHANGED <<vars, desired>> /\ planned' = "none"
  /\ \/ /\ StatusStart
        /\ calm' = TRUE /\ wasHealthy' = Healthy /\ trials' = Pending
     \/ InspectionStep /\ UNCHANGED history
     \/ StatusEnd /\ NoHistory

Plans == Plan /\ UNCHANGED <<vars, desired, inspector, history>>

StatusInit ==
  /\ Init /\ desired = None /\ at = "off" /\ seen = {} /\ inspected = None
  /\ planned = "none" /\ calm = FALSE /\ wasHealthy = FALSE
  /\ trials = {}

StatusNext ==
  \/ HostMoves \/ (\E d \in Intents : EditDesired(d)) \/ Inspects \/ Plans

StatusSpec == StatusInit /\ [][StatusNext]_statusVars
=============================================================================
