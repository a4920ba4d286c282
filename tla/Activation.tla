----------------------------- MODULE Activation -----------------------------
(***************************************************************************)
(* The activation system: apply, confirm, rollback, reconcile and other     *)
(* commands competing for one non-blocking lock, the dead-man timer, the    *)
(* boot sequence of the systemd units, and an environment that may kill     *)
(* commands, reboot the host and change the kernel table.                   *)
(***************************************************************************)
EXTENDS ApplyCommand

-----------------------------------------------------------------------------
(* Commands that start when the lock is free.  One that finds it taken        *)
(* returns an error and changes nothing, so it has no action.                 *)

MayConfirm(t) == t.phase = "activated" /\ VerifyActivated(t)

\* Confirm up to its durable write.  Confirming again only stops the timer.
ConfirmStart(i) ==
  /\ Idle /\ host = "up"
  /\ \/ MayConfirm(journal[i]) /\ pc' = "cf-write"
     \/ journal[i].phase = "confirmed" /\ pc' = "cancel"
  /\ caller' = "confirm" /\ cur' = i /\ tx' = journal[i] /\ TakesLock
  /\ UNCHANGED <<todo, failed, errs>>
  /\ UNCHANGED <<durable, runtime, faults, approved>>

ConfirmWrite ==
  LET t == [tx EXCEPT !.phase = "confirmed"]
  IN /\ pc = "cf-write"
     /\ \/ Written(t) /\ Goto("cancel") /\ NoFault
        \/ Fault("write") /\ MaybeWritten(t) /\ Exit
     /\ approved' = IF journal'[cur] = t THEN tx.gen ELSE approved
     /\ UNCHANGED <<active, ownership, generations, fwEnabled, ddnsTimer>>
     /\ UNCHANGED runtime

\* `cnftctl rollback ID` typed by the operator.
OperatorRollback(i) ==
  /\ Idle /\ host = "up" /\ i \in Pending
  /\ EnterRollback(i, "restore", {})
  /\ UNCHANGED <<durable, runtime, faults, approved>>

\* Reconcile takes the lock and lists the pending transactions; run as the
\* reconcile unit (at boot, or pulled in later) or typed by the operator.
ReconcileStart(c) ==
  /\ Idle
  /\ \/ c = "unit" /\ ~reconciled /\ host \in {"booting", "up"}
     \/ c = "reconcile" /\ host = "up" /\ Pending # {}
  /\ pc' = "rc-next" /\ caller' = c /\ todo' = Pending /\ TakesLock
  /\ UNCHANGED <<cur, tx, failed, errs>>
  /\ UNCHANGED <<durable, runtime, faults, approved>>

ReconcileNext(i) ==
  /\ pc = "rc-next" /\ i \in todo
  /\ EnterRollback(i, caller, todo \ {i})
  /\ UNCHANGED <<durable, runtime, faults, approved>>

\* A oneshot unit becomes active only if its command succeeded.
UnitSucceeds == ~errs

\* The boot sequence goes on whether or not the reconcile unit succeeded.
AfterReconcileUnit(ok) ==
  IF caller = "unit"
  THEN /\ reconciled' = ok
       /\ host' = IF host = "booting" THEN "starting" ELSE host
  ELSE UNCHANGED <<reconciled, host>>

ReconcileEnd ==
  /\ pc = "rc-next" /\ todo = {}
  /\ AfterReconcileUnit(UnitSucceeds)
  /\ Exit
  /\ UNCHANGED <<durable, live, timers, faults, approved>>

(* A command that holds the lock and changes nothing here: `cnftctl ddns        *)
(* refresh`, which resolves names and replaces elements of sets in the live     *)
(* table, and every apply, confirm, rollback or reconcile that is refused, or   *)
(* has nothing to do, once it has the lock.                                     *)
PassStart ==
  /\ Idle /\ host = "up"
  /\ pc' = "pass" /\ caller' = "other" /\ TakesLock
  /\ UNCHANGED <<cur, tx, todo, failed, errs>>
  /\ UNCHANGED <<durable, runtime, faults, approved>>

PassEnd ==
  /\ pc = "pass" /\ Exit
  /\ UNCHANGED <<durable, runtime, faults, approved>>

-----------------------------------------------------------------------------
(* systemd *)

\* Mutation: the timer elapses without starting the rollback service.
TimerStartsNothing(i) == UNCHANGED process
\* cnftctl-rollback@ID.service: `cnftctl rollback ID`.
TimerStarts(i) == EnterRollback(i, "restore", {})

\* The timer elapses, and its service gets the lock.
TimerElapses(i) ==
  /\ timers[i] = "armed" /\ Idle /\ HasState(i)
  /\ timers' = [timers EXCEPT ![i] = "elapsed"]
  /\ TimerStarts(i)
  /\ UNCHANGED <<durable, live, reconciled, host, faults, approved>>

(* OnActiveSec is one-shot and the service a oneshot without Restart: when it   *)
(* finds the lock taken, by whatever command, it fails and nothing starts it     *)
(* again.  The apply that armed the timer is still running two minutes later     *)
(* only with "slow".                                                             *)
DeadlineMissed(i) ==
  /\ timers[i] = "armed" /\ ~Idle
  /\ caller = "apply" /\ cur = i => "slow" \in Env
  /\ timers' = [timers EXCEPT ![i] = "missed"]
  /\ UNCHANGED <<durable, live, reconciled, host, process, faults, approved>>

\* Mutation: the firewall unit does not require the reconcile unit.
FirewallUnitRunsUnreconciled == fwEnabled /\ active # None
\* WantedBy, Requires=cnftctl-reconcile.service and ConditionPathExists.
FirewallUnitRuns == fwEnabled /\ reconciled /\ active # None

BootFirewall ==
  /\ host = "starting" /\ Idle
  /\ host' = "up"
  /\ \/ FirewallUnitRuns /\ live' = active /\ NoFault
     \/ ~FirewallUnitRuns /\ UNCHANGED live /\ NoFault
     \/ FirewallUnitRuns /\ Fault("command") /\ UNCHANGED live
  /\ UNCHANGED <<durable, timers, reconciled, process, approved>>

-----------------------------------------------------------------------------
(* The environment.  Every event takes from the fault budget.                 *)

\* The process dies (a lost session, a signal, TimeoutStartSec) and its lock
\* with it.
Kill ==
  /\ ~Idle /\ Fault("kill") /\ Exit
  /\ AfterReconcileUnit(FALSE)
  /\ UNCHANGED <<durable, live, timers, approved>>

Reboot ==
  /\ Fault("reboot") /\ Exit
  /\ live' = None /\ timers' = [i \in TxIds |-> "off"]
  /\ reconciled' = FALSE /\ host' = "booting"
  /\ UNCHANGED <<durable, approved>>

\* Another tool removes the table (nft flush ruleset).
ExternalDelete ==
  /\ live # None /\ Fault("delete") /\ live' = None /\ met' = FALSE
  /\ UNCHANGED <<durable, timers, reconciled, host, running, approved>>

\* Another tool creates its own table inet hostfw, at any moment.
ForeignAppears ==
  /\ live = None /\ Fault("foreign") /\ live' = Foreign
  /\ UNCHANGED <<durable, timers, reconciled, host, process, approved>>

-----------------------------------------------------------------------------

\* A freshly installed package: the reconcile unit has run, nothing else.
Init ==
  /\ journal = [i \in TxIds |-> NoTx]
  /\ active = None /\ ownership = None /\ generations = {}
  /\ fwEnabled = FALSE /\ ddnsTimer = FALSE
  /\ live = None
  /\ timers = [i \in TxIds |-> "off"]
  /\ reconciled = TRUE /\ host = "up"
  /\ pc = "idle" /\ caller = "none" /\ cur = None /\ tx = NoTx
  /\ todo = {} /\ failed = FALSE /\ errs = FALSE /\ met = FALSE
  /\ faults = 0 /\ approved = None

CommandStep ==
  \/ ApplyStep \/ RollbackStep \/ ConfirmWrite \/ PassEnd
  \/ (\E i \in TxIds : ReconcileNext(i)) \/ ReconcileEnd

OperatorStep ==
  \/ \E g \in Gens, i \in TxIds : ApplyStart(g, i)
  \/ \E g \in Gens : ApplyAlreadyActive(g)
  \/ \E i \in TxIds : ConfirmStart(i) \/ OperatorRollback(i)
  \/ ReconcileStart("reconcile") \/ PassStart

SystemdStep ==
  \/ \E i \in TxIds : TimerElapses(i) \/ DeadlineMissed(i)
  \/ ReconcileStart("unit") \/ BootFirewall

Next ==
  \/ CommandStep \/ OperatorStep \/ SystemdStep
  \/ Kill \/ Reboot \/ ExternalDelete \/ ForeignAppears

Spec == Init /\ [][Next]_vars

(* A started command runs to its end, systemd runs its boot jobs, and a timer   *)
(* that is armed elapses, whether or not its service then gets the lock.  The   *)
(* operator owes nothing.                                                       *)
FairSpec ==
  /\ Spec
  /\ WF_vars(CommandStep)
  /\ \A i \in TxIds : WF_vars(TimerElapses(i) \/ DeadlineMissed(i))
  /\ WF_vars(ReconcileStart("unit") /\ host = "booting") /\ WF_vars(BootFirewall)
=============================================================================
