---------------------------- MODULE ApplyCommand ----------------------------
(***************************************************************************)
(* Apply of src/internal/apply/apply.go from the moment it holds the lock,  *)
(* with recoverApply.  One action per durable or runtime effect; an error   *)
(* after the transaction is prepared leads to recoverApply.                 *)
(***************************************************************************)
EXTENDS RollbackCommand

NothingPending == Pending = {}

(* The generation the transaction will record as previous, as a set that is   *)
(* empty when Apply refuses.  Re-applying the active generation is only a      *)
(* transaction when its table is gone, and then counts as a fresh install.     *)
Base(g) ==
  IF active = g
  THEN {b \in {None} : ownership = g /\ live = None}
  ELSE {b \in {active} : CheckOwnership(active)}

\* Mutation: the generation directory is not written.
WithGenerationForgotten(g) == generations
\* writeGeneration renames the complete directory into place, or verifies it.
WithGeneration(g) == generations \cup {g}

NewTransaction(g, b) ==
  [phase |-> "prepared", gen |-> g, prev |-> b, wasEnabled |-> fwEnabled]

(* Lock, checks, writeGeneration and FirewallState, up to a new transaction in *)
(* memory.  Nothing before writeTransaction records that an apply is running.  *)
ApplyStart(g, i) ==
  /\ Idle /\ host = "up" /\ NothingPending
  /\ journal[i].phase = "none"
  /\ generations' = WithGeneration(g)
  /\ \E b \in Base(g) : tx' = NewTransaction(g, b)
  /\ pc' = "mkdir" /\ caller' = "apply" /\ cur' = i /\ TakesLock
  /\ UNCHANGED <<todo, failed, errs>>
  /\ UNCHANGED <<journal, active, ownership, fwEnabled, ddnsTimer>>
  /\ UNCHANGED <<runtime, faults, approved>>

\* Apply of the active, loaded generation: no transaction, only the DDNS timer
\* is brought to the generation's intent.
ApplyAlreadyActive(g) ==
  /\ Idle /\ host = "up" /\ NothingPending
  /\ active = g /\ ownership = g /\ live = g
  /\ ddnsTimer # DDNSOf[g]
  /\ ddnsTimer' = DDNSOf[g]
  /\ UNCHANGED <<journal, active, ownership, generations, fwEnabled>>
  /\ UNCHANGED <<runtime, process, faults, approved>>

\* writeTransaction creates the transaction directory before state.json.
MakeTransactionDir ==
  /\ pc = "mkdir"
  /\ \/ Written([NoTx EXCEPT !.phase = "dir"]) /\ Goto("prepare") /\ NoFault
     \/ Fault("write") /\ MaybeWritten([NoTx EXCEPT !.phase = "dir"]) /\ Exit
  /\ UNCHANGED <<active, ownership, generations, fwEnabled, ddnsTimer>>
  /\ UNCHANGED <<runtime, approved>>

\* The only transaction write whose failure is not recovered.
WritePrepared ==
  /\ pc = "prepare"
  /\ \/ Written(tx) /\ Goto("arm") /\ NoFault
     \/ Fault("write") /\ MaybeWritten(tx) /\ Exit
  /\ UNCHANGED <<active, ownership, generations, fwEnabled, ddnsTimer>>
  /\ UNCHANGED <<runtime, approved>>

\* Mutation: the timer is never started.
TimersAfterArmForgotten == timers
TimersAfterArm == [timers EXCEPT ![cur] = "armed"]

ArmRollback ==
  /\ pc = "arm"
  /\ \/ timers' = TimersAfterArm /\ Goto("mark-armed") /\ NoFault
     \/ /\ Fault("command")
        /\ timers' \in {timers, TimersAfterArm} /\ Goto("recover")
  /\ UNCHANGED <<durable, live, reconciled, host, approved>>

\* tx.Phase = phase; writeTransaction; on error recoverApply.
Mark(label, phase, next) ==
  LET t == [tx EXCEPT !.phase = phase]
  IN /\ pc = label
     /\ tx' = t
     /\ \/ Written(t) /\ pc' = next /\ NoFault
        \/ Fault("write") /\ MaybeWritten(t) /\ pc' = "recover"
     /\ UNCHANGED <<caller, cur, todo, failed, errs, met>>
     /\ UNCHANGED <<active, ownership, generations, fwEnabled, ddnsTimer>>
     /\ UNCHANGED <<runtime, approved>>

MarkArmed == Mark("mark-armed", "armed", "mark-activating")

\* Mutation: the phase is not recorded before the selector changes.
PhaseBeforeSelectUnmarked == "armed"
\* Mutation: the recorded phase is not one that readers know.
PhaseBeforeSelectMisspelt == "activation"
\* The phase recorded before the first policy mutation.
PhaseBeforeSelect == "activating"
MarkActivating == Mark("mark-activating", PhaseBeforeSelect, "select")
MarkActivated == Mark("mark-activated", "activated", "ddns")

SelectCandidate ==
  /\ pc = "select"
  /\ \/ active' = tx.gen /\ Goto("own") /\ NoFault
     \/ /\ Fault("write")
        /\ active' \in {active, tx.gen} /\ Goto("recover")
  /\ UNCHANGED <<journal, ownership, generations, fwEnabled, ddnsTimer>>
  /\ UNCHANGED <<runtime, approved>>

OwnCandidate ==
  /\ pc = "own"
  /\ \/ ownership' = tx.gen /\ Goto("activate") /\ NoFault
     \/ /\ Fault("write")
        /\ ownership' \in {ownership, tx.gen} /\ Goto("recover")
  /\ UNCHANGED <<journal, active, generations, fwEnabled, ddnsTimer>>
  /\ UNCHANGED <<runtime, approved>>

(* systemctl restart cnftctl-firewall.service.  The unit requires              *)
(* cnftctl-reconcile.service: when that is not active the job starts it, it     *)
(* cannot take the lock this apply holds, and the restart fails.                *)
ActivateCandidate ==
  /\ pc = "activate"
  /\ \/ reconciled /\ live' = tx.gen /\ Goto("mark-activated") /\ NoFault
     \/ ~reconciled /\ Goto("recover") /\ NoFault /\ UNCHANGED live
     \/ /\ Fault("command")
        /\ live' \in {live, tx.gen} /\ Goto("recover")
  /\ UNCHANGED <<durable, timers, reconciled, host, approved>>

ReconcileDDNSTimer ==
  /\ pc = "ddns"
  /\ \/ ddnsTimer' = DDNSOf[tx.gen] /\ Goto("enable") /\ NoFault
     \/ /\ Fault("command")
        /\ ddnsTimer' \in {ddnsTimer, DDNSOf[tx.gen]} /\ Goto("recover")
  /\ UNCHANGED <<journal, active, ownership, generations, fwEnabled>>
  /\ UNCHANGED <<runtime, approved>>

\* Mutation: the unit is left as it was.
EnablementAfterApplyKept == fwEnabled
EnablementAfterApply == TRUE

EnableFirewall ==
  /\ pc = "enable"
  /\ \/ fwEnabled' = EnablementAfterApply /\ Exit /\ NoFault
     \/ /\ Fault("command")
        /\ fwEnabled' \in {fwEnabled, EnablementAfterApply} /\ Goto("recover")
  /\ UNCHANGED <<journal, active, ownership, generations, ddnsTimer>>
  /\ UNCHANGED <<runtime, approved>>

\* recoverApply: write the transaction as it is in memory, then roll it back.
RecoverApply ==
  /\ pc = "recover"
  /\ \/ Written(tx) /\ Goto(FirstStep(tx)) /\ NoFault
     \/ Fault("write") /\ MaybeWritten(tx) /\ Exit
  /\ UNCHANGED <<active, ownership, generations, fwEnabled, ddnsTimer>>
  /\ UNCHANGED <<runtime, approved>>

\* CancelRollback, the last step of a recovered apply and of confirm.
CancelRollback ==
  /\ pc = "cancel"
  /\ \/ timers' = [timers EXCEPT ![cur] = "off"] /\ NoFault
     \/ /\ Fault("command")
        /\ timers' \in {timers, [timers EXCEPT ![cur] = "off"]}
  /\ Exit
  /\ UNCHANGED <<durable, live, reconciled, host, approved>>

ApplyStep ==
  \/ MakeTransactionDir \/ WritePrepared \/ ArmRollback
  \/ MarkArmed \/ MarkActivating \/ SelectCandidate \/ OwnCandidate
  \/ ActivateCandidate \/ MarkActivated \/ ReconcileDDNSTimer
  \/ EnableFirewall \/ RecoverApply \/ CancelRollback
=============================================================================
