--------------------------- MODULE RollbackCommand ---------------------------
(***************************************************************************)
(* rollbackWithManager of src/internal/apply/apply.go, run by four callers  *)
(* that hold the lock: a failed apply, `cnftctl rollback ID` (from the      *)
(* operator or the dead-man timer), `cnftctl reconcile`, and the reconcile  *)
(* unit.  One action per durable or runtime effect, so that a crash can     *)
(* fall between any two of them.                                           *)
(*                                                                         *)
(* An operator commented "Mutation" is a faulty variant of the definition   *)
(* after it; no action uses it.                                            *)
(***************************************************************************)
EXTENDS FirewallState

\* What the caller does once a rollback returned, in error or not.
RollbackReturns(ok) ==
  CASE caller = "apply" /\ ok -> Goto("cancel")
    [] caller \in {"reconcile", "unit"} ->
         /\ pc' = "rc-next" /\ errs' = (errs \/ ~ok)
         /\ cur' = None /\ tx' = NoTx /\ failed' = FALSE
         /\ UNCHANGED <<caller, todo, met>>
    [] OTHER -> Exit

\* Mutation: an update whose activation may have begun is not undone.
FirstStepSkippingUpdate(t) ==
  IF FreshInstall(t) /\ MutationsPossible(t) THEN "rb-table"
  ELSE IF FreshInstall(t) THEN "rb-finish" ELSE "rb-enable"
\* The branch rollbackWithManager takes on the transaction it has read.
FirstStep(t) ==
  IF FreshInstall(t)
  THEN IF MutationsPossible(t) THEN "rb-table" ELSE "rb-finish"
  ELSE IF MutationsPossible(t) THEN "rb-stage" ELSE "rb-enable"

\* A terminal transaction is left alone.
AlreadySettled(t) == t.phase \in TerminalPhases

(* rollbackWithManager of transaction i up to its first effect, called by c    *)
(* with rest still to be rolled back.  A terminal transaction returns at once. *)
EnterRollback(i, c, rest) ==
  LET t == journal[i]
      settled == IF c \in {"reconcile", "unit"} THEN "rc-next" ELSE "idle"
  IN /\ pc' = IF AlreadySettled(t) THEN settled ELSE FirstStep(t)
     /\ IF AlreadySettled(t) /\ settled = "idle"
        THEN caller' = "none" ELSE caller' = c
     /\ IF AlreadySettled(t)
        THEN cur' = None /\ tx' = NoTx ELSE cur' = i /\ tx' = t
     /\ todo' = rest /\ failed' = FALSE /\ errs' = errs
     /\ met' = (~AlreadySettled(t) /\ live = Foreign)

-----------------------------------------------------------------------------
(* Fresh install: every effect is attempted, errors are collected.           *)

\* The effect failed, was refused, or is in place; collect the error and go on.
Collect(ok, next) ==
  /\ pc' = next /\ failed' = (failed \/ ~ok)
  /\ UNCHANGED <<caller, cur, tx, todo, errs, met>>

\* Mutation: an absent table, as after a reboot, counts as not owned.
TableMayGoIfPresent == live = tx.gen
\* Only a table carrying the transaction's generation marker may be deleted.
TableMayGo == live \in {None, tx.gen}

InspectTable ==
  /\ pc = "rb-table"
  /\ \/ /\ TableMayGo /\ NoFault
        /\ Collect(TRUE, IF TableAbsent THEN "rb-unselect" ELSE "rb-delete")
     \/ ~TableMayGo /\ Collect(FALSE, "rb-unselect") /\ NoFault
     \/ Fault("command") /\ Collect(FALSE, "rb-unselect")
  /\ UNCHANGED <<durable, runtime, approved>>

\* nft deletes whatever table has the name by then, and fails without one.
DeleteTable ==
  /\ pc = "rb-delete"
  /\ \/ ~TableAbsent /\ live' = None /\ Collect(TRUE, "rb-unselect") /\ NoFault
     \/ TableAbsent /\ UNCHANGED live /\ Collect(FALSE, "rb-unselect") /\ NoFault
     \/ Fault("command") /\ UNCHANGED live /\ Collect(FALSE, "rb-unselect")
  /\ UNCHANGED <<durable, timers, reconciled, host, approved>>

\* Mutation: the selector is left in place.
SelectorAfterRemovalKept == active
\* os.Remove of the selector.
SelectorAfterRemoval == None

RemoveSelector ==
  /\ pc = "rb-unselect"
  /\ \/ /\ active \in {tx.gen, None}
        /\ active' = SelectorAfterRemoval
        /\ Collect(TRUE, "rb-disown") /\ NoFault
     \/ /\ active \notin {tx.gen, None}
        /\ Collect(FALSE, "rb-disown") /\ NoFault /\ UNCHANGED active
     \/ /\ Fault("write")
        /\ Collect(FALSE, "rb-disown") /\ UNCHANGED active
  /\ UNCHANGED <<journal, ownership, generations, fwEnabled, ddnsTimer,
                 runtime, approved>>

RemoveOwnership ==
  /\ pc = "rb-disown"
  /\ \/ /\ ownership \in {tx.gen, None}
        /\ ownership' = None /\ Collect(TRUE, "rb-enable") /\ NoFault
     \/ /\ ownership \notin {tx.gen, None}
        /\ Collect(FALSE, "rb-enable") /\ NoFault /\ UNCHANGED ownership
     \/ /\ Fault("write")
        /\ Collect(FALSE, "rb-enable") /\ UNCHANGED ownership
  /\ UNCHANGED <<journal, active, generations, fwEnabled, ddnsTimer,
                 runtime, approved>>

-----------------------------------------------------------------------------
(* Update: resume at the stage the observed state shows; the first error     *)
(* ends the rollback and leaves the transaction pending.                     *)

AfterStage(s) == <<"rb-select", "rb-load", "rb-own", "rb-check">>[s + 1]

FindStage ==
  /\ pc = "rb-stage"
  /\ \/ /\ \E s \in UpdateRollbackStage(tx) : Goto(AfterStage(s))
        /\ NoFault
     \/ /\ UpdateRollbackStage(tx) = {}
        /\ RollbackReturns(FALSE) /\ NoFault
     \/ /\ Fault("command")
        /\ RollbackReturns(FALSE)
  /\ UNCHANGED <<durable, runtime, approved>>

SelectPrevious ==
  /\ pc = "rb-select"
  /\ \/ active' = tx.prev /\ Goto("rb-load") /\ NoFault
     \/ /\ Fault("write")
        /\ active' \in {active, tx.prev} /\ RollbackReturns(FALSE)
  /\ UNCHANGED <<journal, ownership, generations, fwEnabled, ddnsTimer,
                 runtime, approved>>

LoadPrevious ==
  /\ pc = "rb-load"
  /\ \/ live' = tx.prev /\ Goto("rb-own") /\ NoFault
     \/ Fault("command") /\ RollbackReturns(FALSE) /\ UNCHANGED live
  /\ UNCHANGED <<durable, timers, reconciled, host, approved>>

OwnPrevious ==
  /\ pc = "rb-own"
  /\ \/ ownership' = tx.prev /\ Goto("rb-check") /\ NoFault
     \/ /\ Fault("write")
        /\ ownership' \in {ownership, tx.prev} /\ RollbackReturns(FALSE)
  /\ UNCHANGED <<journal, active, generations, fwEnabled, ddnsTimer,
                 runtime, approved>>

CheckRestored ==
  /\ pc = "rb-check"
  /\ \/ 3 \in UpdateRollbackStage(tx) /\ Goto("rb-enable") /\ NoFault
     \/ 3 \notin UpdateRollbackStage(tx) /\ RollbackReturns(FALSE) /\ NoFault
     \/ Fault("command") /\ RollbackReturns(FALSE)
  /\ UNCHANGED <<durable, runtime, approved>>

-----------------------------------------------------------------------------
(* Both kinds: enablement, DDNS timer, terminal phase.                       *)

\* Mutation: the firewall unit is disabled whatever it was before.
EnablementBeforeAlwaysOff == FALSE
EnablementBefore == tx.wasEnabled

RestoreEnablement ==
  /\ pc = "rb-enable"
  /\ \/ /\ fwEnabled' = EnablementBefore
        /\ Collect(TRUE, "rb-ddns") /\ NoFault
     \/ /\ Fault("command")
        /\ fwEnabled' \in {fwEnabled, EnablementBefore}
        /\ Collect(FALSE, "rb-ddns")
  /\ UNCHANGED <<journal, active, ownership, generations, ddnsTimer,
                 runtime, approved>>

\* The DDNS intent to return to: the previous generation's, off without one.
DDNSBefore == IF FreshInstall(tx) THEN FALSE ELSE DDNSOf[tx.prev]

RestoreDDNSTimer ==
  /\ pc = "rb-ddns"
  /\ \/ ddnsTimer' = DDNSBefore /\ Collect(TRUE, "rb-finish") /\ NoFault
     \/ /\ Fault("command")
        /\ ddnsTimer' \in {ddnsTimer, DDNSBefore}
        /\ Collect(FALSE, "rb-finish")
  /\ UNCHANGED <<journal, active, ownership, generations, fwEnabled,
                 runtime, approved>>

\* Mutation: collected errors do not keep the transaction pending.
MayFinishRegardless == TRUE
\* The terminal phase is written only when every effect succeeded.
MayFinish == ~failed

FinishRollback ==
  LET t == [tx EXCEPT !.phase = "rolled-back"]
  IN /\ pc = "rb-finish"
     /\ \/ MayFinish /\ Written(t) /\ RollbackReturns(TRUE) /\ NoFault
        \/ ~MayFinish /\ RollbackReturns(FALSE) /\ NoFault /\ UNCHANGED journal
        \/ /\ MayFinish /\ Fault("write")
           /\ MaybeWritten(t) /\ RollbackReturns(FALSE)
     /\ UNCHANGED <<active, ownership, generations, fwEnabled, ddnsTimer,
                    runtime, approved>>

RollbackStep ==
  \/ InspectTable \/ DeleteTable \/ RemoveSelector \/ RemoveOwnership
  \/ FindStage \/ SelectPrevious \/ LoadPrevious \/ OwnPrevious \/ CheckRestored
  \/ RestoreEnablement \/ RestoreDDNSTimer \/ FinishRollback
=============================================================================
