--------------------------- MODULE ActivationProof ---------------------------
(***************************************************************************)
(* The safety of the activation system for any set of generations and       *)
(* transaction IDs, any environment and any number of faults: first what     *)
(* follows from IInv (ActivationProperties), then from HostInv, and last, for *)
(* a single fault, from OneFaultInv.                                         *)
(***************************************************************************)
EXTENDS ActivationProperties, TLAPS

LEMMA NoTxType == NoTx \in Transaction /\ NoTx.phase = "none"
  BY DEF NoTx, Transaction, Phases

\* The labels with a condition attached are not "idle": when a command exits,
\* only what holds of the durable state has to be shown.
LEMMA ExitInv ==
  ASSUME HostType', AtMostOnePending', PendingInv', SettledInv', Exit
  PROVE  IInv'
<1>1. ProcessType'
  BY NoTxType DEF Exit, ProcessType
<1>2. StartInv' /\ ForwardInv' /\ RollbackInv' /\ ConfirmInv' /\ TodoInv'
  BY DEF Exit, StartInv, ForwardInv, RollbackInv, ConfirmInv, TodoInv,
         BeforeActivating, SinceActivating, RollbackLabels, FreshLabels,
         UpdateLabels, LastLabels
<1>3. QED
  BY <1>1, <1>2 DEF IInv, TypeOK

LEMMA InitInv == Init => IInv
<1> SUFFICES ASSUME Init PROVE IInv
  OBVIOUS
<1> USE SentinelAssumption, DDNSAssumption, FaultAssumption DEF Init
<1>1. NoTx \in Transaction
  BY DEF NoTx, Transaction, Phases
<1>2. TypeOK
  BY <1>1 DEF TypeOK, HostType, ProcessType
<1>3. Pending = {}
  BY DEF Pending, PendingPhases, NoTx
<1>4. AtMostOnePending /\ PendingInv /\ SettledInv /\ TodoInv
  BY <1>3 DEF AtMostOnePending, PendingInv, SettledInv, TodoInv
<1>5. StartInv /\ ForwardInv /\ RollbackInv /\ ConfirmInv
  BY DEF StartInv, ForwardInv, RollbackInv, ConfirmInv, BeforeActivating,
         SinceActivating, RollbackLabels, FreshLabels, UpdateLabels, LastLabels
<1>6. QED
  BY <1>2, <1>4, <1>5 DEF IInv

-----------------------------------------------------------------------------
(* Steps of apply.  First the types, then the rest of the invariant.         *)

LEMMA ApplyType == IInv /\ ApplyStep => HostType' /\ (Exit \/ ProcessType')
<1> SUFFICES ASSUME IInv, ApplyStep PROVE HostType' /\ (Exit \/ ProcessType')
  OBVIOUS
<1>t. HostType /\ ProcessType
  BY DEF IInv, TypeOK
<1> USE <1>t, FaultAssumption, DDNSAssumption
    DEF HostType, ProcessType, Fault, NoFault, Goto, Written, MaybeWritten,
        runtime, durable
<1>m. ASSUME NEW label, NEW phase \in Phases, Mark(label, phase, pc'),
             pc' \in {"mark-activating", "select", "ddns", "recover"}
      PROVE  HostType' /\ ProcessType'
  <2>1. [tx EXCEPT !.phase = phase] \in Transaction
    BY <1>m DEF Transaction
  <2>2. QED
    BY <1>m, <2>1 DEF Mark
<1>1. CASE MakeTransactionDir
  <2>1. [NoTx EXCEPT !.phase = "dir"] \in Transaction
    BY NoTxType DEF Transaction, Phases
  <2>2. QED
    BY <1>1, <2>1 DEF MakeTransactionDir
<1>2. CASE WritePrepared
  BY <1>2 DEF WritePrepared
<1>3. CASE ArmRollback
  BY <1>3 DEF ArmRollback, TimersAfterArm
<1>4. CASE MarkArmed \/ MarkActivating \/ MarkActivated
  <2>1. {"armed", "activating", "activated"} \subseteq Phases
    BY DEF Phases, PendingPhases
  <2>2. pc' \in {"mark-activating", "select", "ddns", "recover"}
    BY <1>4 DEF MarkArmed, MarkActivating, MarkActivated, Mark
  <2>3. \E label, phase \in {"mark-armed", "mark-activating", "mark-activated",
                            "armed", "activating", "activated"} :
          phase \in Phases /\ Mark(label, phase, pc')
    BY <1>4, <2>1, <2>2
    DEF MarkArmed, MarkActivating, MarkActivated, Mark, PhaseBeforeSelect
  <2>4. QED
    BY <2>2, <2>3, <1>m
<1>5. tx.gen \in Gens \cup {None}
  BY DEF Transaction
<1>6. CASE SelectCandidate
  BY <1>5, <1>6 DEF SelectCandidate
<1>7. CASE OwnCandidate
  BY <1>5, <1>7 DEF OwnCandidate
<1>8. CASE ActivateCandidate
  BY <1>5, <1>8 DEF ActivateCandidate
<1>9. CASE ReconcileDDNSTimer
  <2>1. tx.gen \in Gens
    BY <1>9 DEF ReconcileDDNSTimer, IInv, ForwardInv, PendingInv, SoundTx,
                SinceActivating, Pending
  <2>2. QED
    BY <1>9, <2>1 DEF ReconcileDDNSTimer
<1>10. CASE EnableFirewall
  <2>1. fwEnabled' \in BOOLEAN
    BY <1>10, Zenon DEF EnableFirewall, EnablementAfterApply
  <2>2. Exit \/ Goto("recover")
    BY <1>10, Zenon DEF EnableFirewall
  <2>3. HostType'
    BY <1>10, <2>1 DEF EnableFirewall
  <2>4. QED
    BY <2>2, <2>3
<1>11. CASE RecoverApply
  BY <1>11 DEF RecoverApply, FirstStep
<1>12. CASE CancelRollback
  BY <1>12 DEF CancelRollback
<1>13. QED
  BY <1>1, <1>2, <1>3, <1>4, <1>6, <1>7, <1>8, <1>9, <1>10, <1>11, <1>12
  DEF ApplyStep

LEMMA ApplyPreserves == IInv /\ ApplyStep => IInv'
<1> SUFFICES ASSUME IInv, ApplyStep PROVE IInv'
  OBVIOUS
<1>t. HostType /\ ProcessType /\ HostType' /\ (Exit \/ ProcessType')
  BY ApplyType DEF IInv, TypeOK
<1>e. ASSUME Exit, AtMostOnePending', PendingInv', SettledInv' PROVE IInv'
  BY <1>t, <1>e, ExitInv
<1>p. ASSUME ~Exit, AtMostOnePending', PendingInv', SettledInv', StartInv',
             ForwardInv', RollbackInv', ConfirmInv', TodoInv'
      PROVE  IInv'
  BY <1>t, <1>p DEF IInv, TypeOK
<1> USE SentinelAssumption
    DEF IInv, AtMostOnePending, PendingInv, SettledInv, StartInv,
        ForwardInv, RollbackInv, ConfirmInv, TodoInv, SoundTx, UntouchedBase,
        BeforeActivating, SinceActivating, RollbackLabels, FreshLabels,
        UpdateLabels, LastLabels, Pending, PendingPhases, TerminalPhases,
        Transaction, HasState, FreshInstall, MutationsPossible,
        Goto, Written, MaybeWritten
<1>h. /\ journal \in [TxIds -> Transaction] /\ tx \in Transaction
      /\ journal' \in [TxIds -> Transaction] /\ todo \in SUBSET TxIds
  BY <1>t DEF HostType, ProcessType
<1>1. CASE MakeTransactionDir
  <2> DEFINE d == [NoTx EXCEPT !.phase = "dir"]
  <2>1. d.phase = "dir"
    BY NoTxType
  <2>2. journal' \in {journal, [journal EXCEPT ![cur] = d]}
    BY <1>1 DEF MakeTransactionDir
  <2> HIDE DEF d
  <2>3. UNCHANGED <<active, ownership, approved>> /\ pc = "mkdir"
    BY <1>1 DEF MakeTransactionDir
  <2>4. Pending' = {} /\ journal'[cur].phase \in {"none", "dir"}
    <3>1. Pending = {} /\ cur \in TxIds /\ ~HasState(cur)
      BY <2>3
    <3>2. \A i \in TxIds : journal'[i] = journal[i] \/ (i = cur /\ journal'[i] = d)
      BY <1>h, <2>2
    <3>3. Pending' = {}
      BY <2>1, <3>1, <3>2
    <3>4. QED
      BY <2>1, <3>1, <3>2, <3>3
  <2>5. AtMostOnePending' /\ PendingInv' /\ SettledInv'
    BY <2>3, <2>4
  <2>6. CASE Exit
    BY <2>5, <2>6, <1>e
  <2>7. CASE ~Exit /\ Goto("prepare")
    BY <1>h, <2>1, <2>2, <2>3, <2>4, <2>5, <2>7, <1>p
  <2>8. QED
    BY <1>1, <2>6, <2>7 DEF MakeTransactionDir
<1>2. CASE WritePrepared
  <2>1. AtMostOnePending' /\ PendingInv' /\ SettledInv'
    BY <1>h, <1>2 DEF WritePrepared
  <2>2. CASE Exit
    BY <2>1, <2>2, <1>e
  <2>3. CASE ~Exit /\ Written(tx) /\ Goto("arm")
    BY <1>h, <1>2, <2>1, <2>3, <1>p DEF WritePrepared
  <2>4. QED
    BY <1>2, <2>2, <2>3 DEF WritePrepared
<1>3. CASE ArmRollback
  BY <1>h, <1>3, <1>e, <1>p DEF ArmRollback, durable
<1>4. CASE MarkArmed
  BY <1>h, <1>4, <1>e, <1>p DEF MarkArmed, Mark
<1>5. CASE MarkActivating
  BY <1>h, <1>5, <1>e, <1>p DEF MarkActivating, Mark, PhaseBeforeSelect
<1>6. CASE SelectCandidate
  BY <1>h, <1>6, <1>e, <1>p DEF SelectCandidate
<1>7. CASE OwnCandidate
  BY <1>h, <1>7, <1>e, <1>p DEF OwnCandidate
<1>8. CASE ActivateCandidate
  BY <1>h, <1>8, <1>e, <1>p DEF ActivateCandidate, durable
<1>9. CASE MarkActivated
  BY <1>h, <1>9, <1>e, <1>p DEF MarkActivated, Mark
<1>10. CASE ReconcileDDNSTimer
  BY <1>h, <1>10, <1>e, <1>p DEF ReconcileDDNSTimer
<1>11. CASE EnableFirewall
  <2>1. AtMostOnePending' /\ PendingInv' /\ SettledInv'
    BY <1>11 DEF EnableFirewall
  <2>2. CASE Exit
    BY <2>1, <2>2, <1>e
  <2>3. CASE ~Exit /\ Goto("recover")
    BY <1>11, <1>h, <2>1, <2>3, <1>p DEF EnableFirewall
  <2>4. QED
    BY <1>11, <2>2, <2>3 DEF EnableFirewall
<1>12. CASE RecoverApply
  <2>1. AtMostOnePending' /\ PendingInv' /\ SettledInv'
    BY <1>h, <1>12 DEF RecoverApply
  <2>2. CASE Exit
    BY <2>1, <2>2, <1>e
  <2>3. CASE ~Exit /\ Written(tx) /\ Goto(FirstStep(tx))
    BY <1>h, <1>12, <2>1, <2>3, <1>p DEF RecoverApply, FirstStep
  <2>4. QED
    BY <1>12, <2>2, <2>3 DEF RecoverApply
<1>13. CASE CancelRollback
  <2>1. AtMostOnePending' /\ PendingInv' /\ SettledInv' /\ Exit
    BY <1>13 DEF CancelRollback, durable
  <2>2. QED
    BY <2>1, <1>e
<1>14. QED
  BY <1>1, <1>2, <1>3, <1>4, <1>5, <1>6, <1>7, <1>8, <1>9, <1>10, <1>11,
     <1>12, <1>13 DEF ApplyStep

-----------------------------------------------------------------------------
(* Steps of rollback *)

\* A rollback returns by exiting, or to a label of its caller.
LEMMA ReturnLabel ==
  ASSUME ProcessType, NEW ok \in BOOLEAN, RollbackReturns(ok)
  PROVE  \/ Exit
         \/ /\ ProcessType' /\ pc' \in {"cancel", "rc-next"}
            /\ todo' = todo /\ (pc' = "cancel" => cur' = cur)
<1>1. CASE caller = "apply" /\ ok
  BY <1>1 DEF RollbackReturns, Goto, ProcessType
<1>2. CASE caller \in {"reconcile", "unit"}
  <2>1. (errs \/ ~ok) \in BOOLEAN
    OBVIOUS
  <2>2. /\ pc' = "rc-next" /\ errs' = (errs \/ ~ok) /\ cur' = None
        /\ tx' = NoTx /\ failed' = FALSE /\ caller' = caller /\ todo' = todo
        /\ met' = met
    BY <1>2 DEF RollbackReturns
  <2>3. QED
    BY <2>1, <2>2, NoTxType DEF ProcessType
<1>3. CASE ~(caller = "apply" /\ ok) /\ caller \notin {"reconcile", "unit"}
  BY <1>3 DEF RollbackReturns
<1>4. QED
  BY <1>1, <1>2, <1>3

LEMMA StageRange ==
  /\ UpdateRollbackStage(tx) \subseteq 0..3
  /\ \A s \in 0..3 : AfterStage(s) \in {"rb-select", "rb-load", "rb-own", "rb-check"}
<1>1. UpdateRollbackStage(tx) \subseteq 0..3
  BY DEF UpdateRollbackStage, StageWithoutTable, StageWithTable
<1>2. \A s \in 0..3 : s = 0 \/ s = 1 \/ s = 2 \/ s = 3
  OBVIOUS
<1>3. QED
  BY <1>1, <1>2 DEF AfterStage

\* The check that ends an update rollback is as strong as it looks.
LEMMA StageThree ==
  3 \in UpdateRollbackStage(tx)
    => active = tx.prev /\ ownership = tx.prev /\ live = tx.prev
  BY DEF UpdateRollbackStage, StageWithoutTable, StageWithTable

\* Labels of the process after a rollback step.
LEMMA RollbackType ==
  IInv /\ RollbackStep
    => /\ HostType'
       /\ Exit \/ ProcessType'
<1> SUFFICES ASSUME IInv, RollbackStep PROVE HostType' /\ (Exit \/ ProcessType')
  OBVIOUS
<1>t. HostType /\ ProcessType /\ tx.gen \in Gens \cup {None}
      /\ tx.prev \in Gens \cup {None} /\ tx.wasEnabled \in BOOLEAN
  BY DEF IInv, TypeOK, ProcessType, Transaction
<1>r. \A ok \in BOOLEAN : RollbackReturns(ok) => Exit \/ ProcessType'
  BY <1>t, ReturnLabel
<1>c. ASSUME NEW ok \in BOOLEAN, NEW label \in RollbackLabels, Collect(ok, label)
      PROVE  ProcessType'
  <2>1. (failed \/ ~ok) \in BOOLEAN
    OBVIOUS
  <2>2. /\ pc' = label /\ failed' = (failed \/ ~ok)
        /\ UNCHANGED <<caller, cur, tx, todo, errs, met>>
    BY <1>c DEF Collect
  <2>3. QED
    BY <1>t, <2>1, <2>2 DEF ProcessType, RollbackLabels
<1>g. ASSUME NEW label \in RollbackLabels, Goto(label) PROVE ProcessType'
  BY <1>t, <1>g DEF Goto, ProcessType, RollbackLabels
<1>f. ASSUME NEW kind, Fault(kind) \/ NoFault PROVE faults' \in Nat
  BY <1>t, <1>f DEF Fault, NoFault, HostType
<1>0. CASE InspectTable
  <2>1. UNCHANGED <<durable, runtime, approved>> /\ (Fault("command") \/ NoFault)
    BY <1>0 DEF InspectTable
  <2>2. HostType'
    BY <2>1, <1>t, <1>f DEF HostType, durable, runtime
  <2>3. \E ok \in BOOLEAN, label \in {"rb-unselect", "rb-delete"} : Collect(ok, label)
    BY <1>0 DEF InspectTable
  <2>4. QED
    BY <2>2, <2>3, <1>c DEF RollbackLabels
<1>1. CASE DeleteTable
  <2>1. live' \in {live, None} /\ (Fault("command") \/ NoFault)
    BY <1>1 DEF DeleteTable
  <2>2. HostType'
    BY <1>1, <2>1, <1>t, <1>f DEF DeleteTable, HostType, durable
  <2>3. \E ok \in BOOLEAN : Collect(ok, "rb-unselect")
    BY <1>1 DEF DeleteTable
  <2>4. QED
    BY <2>2, <2>3, <1>c DEF RollbackLabels
<1>2. CASE RemoveSelector
  <2>1. active' \in {active, None} /\ (Fault("write") \/ NoFault)
    BY <1>2 DEF RemoveSelector, SelectorAfterRemoval
  <2>2. HostType'
    BY <1>2, <2>1, <1>t, <1>f DEF RemoveSelector, HostType, runtime
  <2>3. \E ok \in BOOLEAN : Collect(ok, "rb-disown")
    BY <1>2 DEF RemoveSelector
  <2>4. QED
    BY <2>2, <2>3, <1>c DEF RollbackLabels
<1>3. CASE RemoveOwnership
  <2>1. ownership' \in {ownership, None} /\ (Fault("write") \/ NoFault)
    BY <1>3 DEF RemoveOwnership
  <2>2. HostType'
    BY <1>3, <2>1, <1>t, <1>f DEF RemoveOwnership, HostType, runtime
  <2>3. \E ok \in BOOLEAN : Collect(ok, "rb-enable")
    BY <1>3 DEF RemoveOwnership
  <2>4. QED
    BY <2>2, <2>3, <1>c DEF RollbackLabels
<1>4. CASE FindStage
  <2>1. Fault("command") \/ NoFault
    BY <1>4 DEF FindStage
  <2>2. HostType'
    BY <1>4, <2>1, <1>t, <1>f DEF FindStage, HostType, durable, runtime
  <2>3. RollbackReturns(FALSE) \/ \E s \in 0..3 : Goto(AfterStage(s))
    BY <1>4, StageRange DEF FindStage
  <2>4. QED
    BY <2>2, <2>3, <1>r, <1>g, StageRange DEF RollbackLabels
<1>5. CASE SelectPrevious
  <2>1. active' \in {active, tx.prev} /\ (Fault("write") \/ NoFault)
    BY <1>5 DEF SelectPrevious
  <2>2. HostType'
    BY <1>5, <2>1, <1>t, <1>f DEF SelectPrevious, HostType, runtime
  <2>3. QED
    BY <1>5, <2>2, <1>r, <1>g DEF SelectPrevious, RollbackLabels
<1>6. CASE LoadPrevious
  <2>1. live' \in {live, tx.prev} /\ (Fault("command") \/ NoFault)
    BY <1>6 DEF LoadPrevious
  <2>2. HostType'
    BY <1>6, <2>1, <1>t, <1>f DEF LoadPrevious, HostType, durable
  <2>3. QED
    BY <1>6, <2>2, <1>r, <1>g DEF LoadPrevious, RollbackLabels
<1>7. CASE OwnPrevious
  <2>1. ownership' \in {ownership, tx.prev} /\ (Fault("write") \/ NoFault)
    BY <1>7 DEF OwnPrevious
  <2>2. HostType'
    BY <1>7, <2>1, <1>t, <1>f DEF OwnPrevious, HostType, runtime
  <2>3. QED
    BY <1>7, <2>2, <1>r, <1>g DEF OwnPrevious, RollbackLabels
<1>8. CASE CheckRestored
  <2>1. Fault("command") \/ NoFault
    BY <1>8 DEF CheckRestored
  <2>2. HostType'
    BY <1>8, <2>1, <1>t, <1>f DEF CheckRestored, HostType, durable, runtime
  <2>3. QED
    BY <1>8, <2>2, <1>r, <1>g DEF CheckRestored, RollbackLabels
<1>9. CASE RestoreEnablement
  <2>1. fwEnabled' \in BOOLEAN
    BY <1>9, <1>t, Zenon DEF RestoreEnablement, EnablementBefore, HostType
  <2>2. Fault("command") \/ NoFault
    BY <1>9, Zenon DEF RestoreEnablement
  <2>3. HostType'
    BY <1>9, <2>1, <2>2, <1>t, <1>f DEF RestoreEnablement, HostType, runtime
  <2>4. \E ok \in BOOLEAN : Collect(ok, "rb-ddns")
    BY <1>9, Zenon DEF RestoreEnablement
  <2>5. QED
    BY <2>3, <2>4, <1>c DEF RollbackLabels
<1>10. CASE RestoreDDNSTimer
  <2>1. DDNSBefore \in BOOLEAN
    <3>1. ~FreshInstall(tx) => tx.prev \in Gens
      BY <1>t DEF FreshInstall
    <3>2. QED
      BY <3>1, DDNSAssumption DEF DDNSBefore
  <2>2. ddnsTimer' \in BOOLEAN
    BY <1>10, <1>t, <2>1, Zenon DEF RestoreDDNSTimer, HostType
  <2>3. Fault("command") \/ NoFault
    BY <1>10, Zenon DEF RestoreDDNSTimer
  <2>4. HostType'
    BY <1>10, <2>2, <2>3, <1>t, <1>f DEF RestoreDDNSTimer, HostType, runtime
  <2>5. \E ok \in BOOLEAN : Collect(ok, "rb-finish")
    BY <1>10, Zenon DEF RestoreDDNSTimer
  <2>6. QED
    BY <2>4, <2>5, <1>c DEF RollbackLabels
<1>11. CASE FinishRollback
  <2> DEFINE t == [tx EXCEPT !.phase = "rolled-back"]
  <2>1. t \in Transaction
    BY <1>t DEF ProcessType, Transaction, Phases, TerminalPhases
  <2>2. journal' \in {journal, [journal EXCEPT ![cur] = t]}
    BY <1>11 DEF FinishRollback, Written, MaybeWritten
  <2>3. Fault("write") \/ NoFault
    BY <1>11 DEF FinishRollback
  <2>4. HostType'
    BY <1>11, <2>1, <2>2, <2>3, <1>t, <1>f DEF FinishRollback, HostType, runtime
  <2>5. \E ok \in BOOLEAN : RollbackReturns(ok)
    BY <1>11 DEF FinishRollback
  <2>6. QED
    BY <2>4, <2>5, <1>r
<1>12. QED
  BY <1>0, <1>1, <1>2, <1>3, <1>4, <1>5, <1>6, <1>7, <1>8, <1>9, <1>10, <1>11
  DEF RollbackStep

LEMMA RollbackPreserves == IInv /\ RollbackStep => IInv'
<1> SUFFICES ASSUME IInv, RollbackStep PROVE IInv'
  OBVIOUS
<1>t. HostType /\ ProcessType /\ HostType' /\ (Exit \/ ProcessType')
  BY RollbackType DEF IInv, TypeOK
<1>h. /\ journal \in [TxIds -> Transaction] /\ tx \in Transaction
      /\ journal' \in [TxIds -> Transaction] /\ todo \in SUBSET TxIds
  BY <1>t DEF HostType, ProcessType
<1>c. pc \in RollbackLabels /\ cur \in Pending /\ tx = journal[cur]
  BY DEF RollbackStep, InspectTable, DeleteTable, RemoveSelector, RemoveOwnership, FindStage,
         SelectPrevious, LoadPrevious, OwnPrevious, CheckRestored,
         RestoreEnablement, RestoreDDNSTimer, FinishRollback, RollbackLabels,
         IInv, RollbackInv
\* A step that returns to the caller.
<1>r. ASSUME AtMostOnePending', PendingInv', SettledInv', TodoInv',
             NEW ok \in BOOLEAN, RollbackReturns(ok)
      PROVE  IInv'
  <2>1. CASE Exit
    BY <1>t, <1>r, <2>1, ExitInv
  <2>2. CASE ProcessType' /\ pc' \in {"cancel", "rc-next"}
    BY <1>t, <1>r, <2>2
    DEF IInv, TypeOK, StartInv, ForwardInv, RollbackInv, ConfirmInv,
        BeforeActivating, SinceActivating, RollbackLabels, FreshLabels,
        UpdateLabels, LastLabels
  <2>3. QED
    BY <1>t, <1>r, <2>1, <2>2, ReturnLabel
\* A step that goes on with the rollback and leaves the journal alone.
<1>n. ASSUME journal' = journal, cur' = cur, tx' = tx, todo' = todo,
             approved' = approved, pc' \in RollbackLabels, RollbackInv',
             \/ MutationsPossible(tx)
             \/ active' = active /\ ownership' = ownership
      PROVE  IInv'
  <2>1. Pending' = Pending /\ AtMostOnePending' /\ SettledInv' /\ TodoInv'
    BY <1>c, <1>n
    DEF IInv, Pending, AtMostOnePending, SettledInv, TodoInv, HasState
  <2>2. PendingInv'
    BY <1>c, <1>n, <2>1
    DEF IInv, PendingInv, AtMostOnePending, SoundTx, UntouchedBase,
        MutationsPossible, FreshInstall
  <2>3. pc' # "idle"
    BY <1>n DEF RollbackLabels
  <2>4. StartInv' /\ ForwardInv' /\ ConfirmInv'
    BY <1>n DEF StartInv, ForwardInv, ConfirmInv, RollbackLabels,
                BeforeActivating, SinceActivating
  <2>5. QED
    BY <1>t, <1>n, <2>1, <2>2, <2>3, <2>4 DEF IInv, TypeOK, Exit
\* A failing step of an update rollback: the journal is unchanged.
<1>u. ASSUME UNCHANGED <<journal, approved>>, pc \in UpdateLabels,
             RollbackReturns(FALSE)
      PROVE  IInv'
  <2>1. Pending' = Pending /\ MutationsPossible(journal[cur])
    BY <1>c, <1>u DEF IInv, RollbackInv, Pending
  <2>2. AtMostOnePending' /\ SettledInv'
    BY <1>c, <2>1 DEF IInv, AtMostOnePending, SettledInv
  <2>3. PendingInv'
    BY <1>c, <1>u, <2>1
    DEF IInv, PendingInv, AtMostOnePending, SoundTx, MutationsPossible
  <2>4. todo' \in {todo, {}}
    BY <1>u, <1>t, ReturnLabel DEF Exit
  <2>5. TodoInv'
    BY <1>u, <2>4 DEF IInv, TodoInv, HasState
  <2>6. QED
    BY <1>u, <1>r, <2>2, <2>3, <2>5
<1> USE DEF RollbackInv, FreshLabels, UpdateLabels, LastLabels, RollbackLabels,
        FreshInstall, MutationsPossible, Collect, Goto, Pending
<1>i. RollbackInv
  BY DEF IInv
<1>0. CASE InspectTable
  BY <1>0, <1>c, <1>i, <1>n DEF InspectTable, durable
<1>1. CASE DeleteTable
  BY <1>1, <1>c, <1>i, <1>n DEF DeleteTable, durable
<1>2. CASE RemoveSelector
  BY <1>2, <1>c, <1>i, <1>n DEF RemoveSelector, SelectorAfterRemoval
<1>3. CASE RemoveOwnership
  BY <1>3, <1>c, <1>i, <1>n DEF RemoveOwnership
<1>4. CASE FindStage
  <2>1. CASE RollbackReturns(FALSE)
    BY <1>4, <1>u, <2>1 DEF FindStage, durable
  <2>2. CASE \E s \in 0..3 : Goto(AfterStage(s))
    BY <1>4, <1>c, <1>i, <1>n, <2>2, StageRange DEF FindStage, durable
  <2>3. QED
    BY <1>4, <2>1, <2>2, StageRange DEF FindStage
<1>5. CASE SelectPrevious
  <2>1. CASE RollbackReturns(FALSE)
    BY <1>5, <1>u, <2>1 DEF SelectPrevious
  <2>2. CASE Goto("rb-load")
    BY <1>5, <1>c, <1>i, <1>n, <2>2 DEF SelectPrevious
  <2>3. QED
    BY <1>5, <2>1, <2>2 DEF SelectPrevious
<1>6. CASE LoadPrevious
  <2>1. CASE RollbackReturns(FALSE)
    BY <1>6, <1>u, <2>1 DEF LoadPrevious, durable
  <2>2. CASE Goto("rb-own")
    BY <1>6, <1>c, <1>i, <1>n, <2>2 DEF LoadPrevious, durable
  <2>3. QED
    BY <1>6, <2>1, <2>2 DEF LoadPrevious
<1>7. CASE OwnPrevious
  <2>1. CASE RollbackReturns(FALSE)
    BY <1>7, <1>u, <2>1 DEF OwnPrevious
  <2>2. CASE Goto("rb-check")
    BY <1>7, <1>c, <1>i, <1>n, <2>2 DEF OwnPrevious
  <2>3. QED
    BY <1>7, <2>1, <2>2 DEF OwnPrevious
<1>8. CASE CheckRestored
  <2>1. CASE RollbackReturns(FALSE)
    BY <1>8, <1>u, <2>1 DEF CheckRestored, durable
  <2>2. CASE 3 \in UpdateRollbackStage(tx) /\ Goto("rb-enable")
    BY <1>8, <1>c, <1>i, <1>n, <2>2, StageThree DEF CheckRestored, durable
  <2>3. QED
    BY <1>8, <2>1, <2>2 DEF CheckRestored
<1>9. CASE RestoreEnablement
  BY <1>9, <1>c, <1>i, <1>n DEF RestoreEnablement
<1>10. CASE RestoreDDNSTimer
  BY <1>10, <1>c, <1>i, <1>n DEF RestoreDDNSTimer
<1>11. CASE FinishRollback
  <2> DEFINE t == [tx EXCEPT !.phase = "rolled-back"]
  <2>1. t.phase = "rolled-back"
    BY <1>h DEF Transaction
  <2>2. \E ok \in BOOLEAN : RollbackReturns(ok)
    BY <1>11 DEF FinishRollback
  <2>3. \/ UNCHANGED journal
        \/ ~failed /\ journal' = [journal EXCEPT ![cur] = t]
    BY <1>11 DEF FinishRollback, Written, MaybeWritten, MayFinish
  <2>4. UNCHANGED <<active, ownership, approved>>
    BY <1>11 DEF FinishRollback
  <2> HIDE DEF t
  <2>5. todo' \in {todo, {}}
    BY <2>2, <1>t, ReturnLabel DEF Exit
  <2>6. \A j \in TxIds : journal'[j] = journal[j] \/ journal'[j] = t
    BY <1>h, <2>3
  <2>7. TodoInv'
    BY <1>h, <2>1, <2>5, <2>6 DEF IInv, TodoInv, HasState
  <2>8. Pending' \subseteq Pending
    BY <2>1, <2>6 DEF Pending, PendingPhases
  <2>9. AtMostOnePending' /\ PendingInv'
    BY <2>1, <2>4, <2>6, <2>8
    DEF IInv, AtMostOnePending, PendingInv, SoundTx, UntouchedBase, Pending,
        PendingPhases
  <2>10. SettledInv'
    <3>1. CASE UNCHANGED journal
      BY <1>c, <2>4, <3>1 DEF SettledInv, Pending
    <3>2. CASE ~failed
      <4>1. SoundTx(tx) /\ (~MutationsPossible(tx) => UntouchedBase(tx))
        BY <1>c DEF IInv, PendingInv
      <4>2. ownership = active /\ active \in {None, approved}
        BY <1>11, <1>i, <3>2, <4>1 DEF FinishRollback, SoundTx, UntouchedBase
      <4>3. QED
        BY <2>4, <4>2 DEF SettledInv
    <3>3. QED
      BY <2>3, <3>1, <3>2
  <2>11. QED
    BY <1>r, <2>2, <2>7, <2>9, <2>10
<1>12. QED
  BY <1>0, <1>1, <1>2, <1>3, <1>4, <1>5, <1>6, <1>7, <1>8, <1>9, <1>10, <1>11
  DEF RollbackStep

-----------------------------------------------------------------------------
(* Confirm, reconcile, the other commands, systemd and the environment *)

\* What holds of the durable state holds while it does not change.
LEMMA CoreUnchanged ==
  ASSUME IInv, UNCHANGED <<journal, active, ownership, approved>>
  PROVE  Pending' = Pending /\ AtMostOnePending' /\ PendingInv' /\ SettledInv'
<1>1. Pending' = Pending
  BY DEF Pending
<1>2. QED
  BY <1>1 DEF IInv, AtMostOnePending, PendingInv, SettledInv, SoundTx,
              UntouchedBase, MutationsPossible, FreshInstall

\* Labels without a condition: the process may go there from anywhere.
LEMMA FreeLabel ==
  ASSUME HostType', ProcessType', AtMostOnePending', PendingInv', SettledInv',
         TodoInv', pc' \in {"idle", "cancel", "rc-next", "pass"}
  PROVE  IInv'
  BY DEF IInv, TypeOK, StartInv, ForwardInv, RollbackInv, ConfirmInv,
         BeforeActivating, SinceActivating, RollbackLabels, FreshLabels,
         UpdateLabels, LastLabels

LEMMA EnterPreserves ==
  ASSUME IInv, HostType', UNCHANGED <<journal, active, ownership, approved>>,
         NEW i \in TxIds, HasState(i),
         NEW c \in {"none", "apply", "restore", "reconcile", "unit", "confirm",
                   "other"},
         NEW rest \in SUBSET todo, EnterRollback(i, c, rest)
  PROVE  IInv'
<1> DEFINE t == journal[i]
<1>t. HostType /\ ProcessType /\ t \in Transaction
  BY DEF IInv, TypeOK, HostType
<1>1. Pending' = Pending /\ AtMostOnePending' /\ PendingInv' /\ SettledInv'
  BY CoreUnchanged
<1>2. TodoInv'
  BY DEF IInv, TodoInv, HasState, EnterRollback
<1>3. CASE AlreadySettled(t)
  <2>1. /\ pc' \in {"idle", "rc-next"} /\ caller' \in {"none", c}
        /\ cur' = None /\ tx' = NoTx /\ todo' = rest /\ failed' = FALSE
        /\ errs' = errs /\ met' = FALSE
    BY <1>3 DEF EnterRollback
  <2>2. ProcessType'
    BY <1>t, <2>1, NoTxType DEF ProcessType
  <2>3. QED
    BY <1>1, <1>2, <2>1, <2>2, FreeLabel
<1>4. CASE ~AlreadySettled(t)
  <2>1. /\ pc' = FirstStep(t) /\ caller' = c /\ cur' = i /\ tx' = t
        /\ todo' = rest /\ failed' = FALSE /\ errs' = errs
        /\ met' = (live = Foreign)
    BY <1>4 DEF EnterRollback
  <2>2. FirstStep(t) \in {"rb-table", "rb-finish", "rb-stage", "rb-enable"}
    BY DEF FirstStep
  <2>3. ProcessType'
    BY <1>t, <2>1, <2>2 DEF ProcessType
  <2>4. i \in Pending
    BY <1>t, <1>4 DEF AlreadySettled, HasState, Pending, Transaction, Phases
  <2>5. RollbackInv'
    <3>1. cur' \in Pending' /\ tx' = journal'[cur']
      BY <1>1, <2>1, <2>4
    <3>2. ~MutationsPossible(t) => pc' \in {"rb-finish", "rb-enable"}
      BY <2>1 DEF FirstStep
    <3>3. MutationsPossible(t)
            => pc' = IF FreshInstall(t) THEN "rb-table" ELSE "rb-stage"
      BY <2>1 DEF FirstStep
    <3>4. QED
      BY <2>1, <3>1, <3>2, <3>3
      DEF RollbackInv, FreshLabels, UpdateLabels, LastLabels, RollbackLabels,
          MutationsPossible, FreshInstall
  <2>6. StartInv' /\ ForwardInv' /\ ConfirmInv'
    BY <2>1, <2>2 DEF StartInv, ForwardInv, ConfirmInv, BeforeActivating,
                      SinceActivating
  <2>7. QED
    BY <1>1, <1>2, <2>3, <2>5, <2>6 DEF IInv, TypeOK
<1>5. QED
  BY <1>3, <1>4

LEMMA ApplyStartPreserves ==
  ASSUME IInv, NEW g \in Gens, NEW i \in TxIds, ApplyStart(g, i)
  PROVE  IInv'
<1>t. HostType /\ ProcessType
  BY DEF IInv, TypeOK
<1>1. PICK b \in Base(g) : tx' = NewTransaction(g, b)
  BY DEF ApplyStart
<1>2. /\ pc' = "mkdir" /\ caller' = "apply" /\ cur' = i
      /\ UNCHANGED <<todo, failed, errs>>
      /\ UNCHANGED <<journal, active, ownership, fwEnabled, ddnsTimer>>
      /\ UNCHANGED <<runtime, faults, approved>>
      /\ Pending = {} /\ journal[i].phase = "none"
      /\ generations' = generations \cup {g} /\ met' \in BOOLEAN
  BY DEF ApplyStart, NothingPending, WithGeneration, TakesLock
<1>3. active \in {None, approved} /\ ownership = active
  BY <1>2 DEF IInv, SettledInv
<1>4. /\ b \in Gens \cup {None} /\ b \in {None, approved} /\ b # g
      /\ IF b = None THEN active \in {None, g} ELSE active = b
  BY <1>3, <1>t, SentinelAssumption DEF Base, HostType
<1>5. /\ tx' \in Transaction /\ tx'.phase = "prepared" /\ tx'.gen = g
      /\ tx'.prev = b
  BY <1>1, <1>4, <1>t, Zenon
  DEF NewTransaction, Transaction, Phases, PendingPhases, HostType
<1>6. HostType'
  BY <1>2, <1>t DEF HostType, runtime
<1>7. ProcessType'
  BY <1>2, <1>5, <1>t DEF ProcessType
<1>8. Pending' = Pending /\ AtMostOnePending' /\ PendingInv' /\ SettledInv'
  BY <1>2, CoreUnchanged
<1>9. StartInv'
  BY <1>2, <1>3, <1>4, <1>5, <1>8
  DEF StartInv, HasState, SoundTx, UntouchedBase, FreshInstall
<1>10. ForwardInv' /\ RollbackInv' /\ ConfirmInv'
  BY <1>2 DEF ForwardInv, RollbackInv, ConfirmInv, BeforeActivating,
              SinceActivating, RollbackLabels, FreshLabels, UpdateLabels,
              LastLabels
<1>11. TodoInv'
  BY <1>2 DEF IInv, TodoInv, HasState
<1>12. QED
  BY <1>6, <1>7, <1>8, <1>9, <1>10, <1>11 DEF IInv, TypeOK

LEMMA ConfirmPreserves ==
  ASSUME IInv, ConfirmWrite \/ \E i \in TxIds : ConfirmStart(i)
  PROVE  IInv'
<1>t. HostType /\ ProcessType
  BY DEF IInv, TypeOK
<1>1. ASSUME NEW i \in TxIds, ConfirmStart(i) PROVE IInv'
  <2>1. /\ UNCHANGED <<durable, runtime, faults, approved>>
        /\ UNCHANGED <<todo, failed, errs>> /\ met' \in BOOLEAN
        /\ caller' = "confirm" /\ cur' = i /\ tx' = journal[i]
        /\ \/ MayConfirm(journal[i]) /\ pc' = "cf-write"
           \/ pc' = "cancel"
    BY <1>1 DEF ConfirmStart, TakesLock
  <2>2. HostType'
    BY <1>t, <2>1 DEF HostType, durable, runtime
  <2>3. ProcessType'
    BY <1>t, <2>1 DEF HostType, ProcessType
  <2>4. Pending' = Pending /\ AtMostOnePending' /\ PendingInv' /\ SettledInv'
    BY <2>1, CoreUnchanged DEF durable
  <2>5. TodoInv'
    BY <2>1 DEF IInv, TodoInv, HasState, durable
  <2>6. CASE pc' = "cancel"
    BY <2>2, <2>3, <2>4, <2>5, <2>6, FreeLabel
  <2>7. CASE MayConfirm(journal[i]) /\ pc' = "cf-write"
    <3>1. ConfirmInv'
      BY <2>1, <2>4, <2>7
      DEF ConfirmInv, MayConfirm, VerifyActivated, Pending, PendingPhases, durable
    <3>2. StartInv' /\ ForwardInv' /\ RollbackInv'
      BY <2>7 DEF StartInv, ForwardInv, RollbackInv, BeforeActivating,
                  SinceActivating, RollbackLabels, FreshLabels, UpdateLabels,
                  LastLabels
    <3>3. QED
      BY <2>2, <2>3, <2>4, <2>5, <3>1, <3>2 DEF IInv, TypeOK
  <2>8. QED
    BY <2>1, <2>6, <2>7
<1>2. CASE ConfirmWrite
  <2> DEFINE t == [tx EXCEPT !.phase = "confirmed"]
  <2>1. /\ cur \in Pending /\ tx = journal[cur] /\ SoundTx(tx)
        /\ active = tx.gen /\ ownership = tx.gen
    BY <1>2 DEF ConfirmWrite, IInv, ConfirmInv, PendingInv
  <2>2. t \in Transaction /\ t.phase = "confirmed" /\ t # tx
    BY <1>t, <2>1 DEF ProcessType, Transaction, Phases, TerminalPhases, Pending,
                      PendingPhases
  <2>3. /\ journal' \in {journal, [journal EXCEPT ![cur] = t]}
        /\ approved' = IF journal'[cur] = t THEN tx.gen ELSE approved
        /\ UNCHANGED <<active, ownership, generations, fwEnabled, ddnsTimer>>
        /\ UNCHANGED runtime
    BY <1>2 DEF ConfirmWrite, Written, MaybeWritten
  <2>4. faults' \in Nat
    BY <1>2, <1>t DEF ConfirmWrite, Fault, NoFault, HostType
  <2>5. Exit \/ Goto("cancel")
    BY <1>2 DEF ConfirmWrite
  <2> HIDE DEF t
  <2>6. HostType'
    <3>1. tx.gen \in Gens
      BY <2>1 DEF SoundTx
    <3>2. QED
      BY <1>t, <2>2, <2>3, <2>4, <3>1 DEF HostType, runtime
  <2>7. AtMostOnePending' /\ PendingInv' /\ SettledInv'
    <3>1. CASE UNCHANGED journal
      <4>1. approved' = approved
        BY <2>1, <2>2, <2>3, <3>1
      <4>2. QED
        BY <2>3, <3>1, <4>1, CoreUnchanged
    <3>2. CASE journal' = [journal EXCEPT ![cur] = t]
      <4>1. cur \in TxIds /\ journal'[cur] = t /\ approved' = tx.gen
        BY <1>t, <2>1, <2>3, <3>2 DEF HostType, Pending
      <4>2. Pending' = {}
        BY <1>t, <2>1, <2>2, <3>2, <4>1
        DEF HostType, Pending, PendingPhases, IInv, AtMostOnePending
      <4>3. QED
        BY <2>1, <2>3, <4>1, <4>2 DEF AtMostOnePending, PendingInv, SettledInv
    <3>3. QED
      BY <2>3, <3>1, <3>2
  <2>8. CASE Exit
    BY <2>6, <2>7, <2>8, ExitInv
  <2>9. CASE Goto("cancel")
    <3>1. ProcessType'
      BY <1>t, <2>9 DEF Goto, ProcessType
    <3>2. \A j \in TxIds : HasState(j) => HasState(j)'
      BY <1>t, <2>2, <2>3 DEF HasState, HostType
    <3>3. TodoInv'
      BY <1>t, <2>9, <3>2 DEF Goto, IInv, TodoInv, ProcessType
    <3>4. QED
      BY <2>6, <2>7, <2>9, <3>1, <3>3, FreeLabel DEF Goto
  <2>10. QED
    BY <2>5, <2>8, <2>9
<1>3. QED
  BY <1>1, <1>2

\* Every other step leaves journal, selector and ownership alone.
LEMMA OtherPreserves ==
  ASSUME IInv,
         \/ \E i \in TxIds :
              \/ ReconcileNext(i) \/ OperatorRollback(i)
              \/ TimerElapses(i) \/ DeadlineMissed(i)
         \/ \E g \in Gens : ApplyAlreadyActive(g)
         \/ ReconcileStart("unit") \/ ReconcileStart("reconcile")
         \/ ReconcileEnd \/ PassStart \/ PassEnd \/ BootFirewall
         \/ Kill \/ Reboot \/ ExternalDelete \/ ForeignAppears
  PROVE  IInv'
<1>t. HostType /\ ProcessType
  BY DEF IInv, TypeOK
<1>u. UNCHANGED <<journal, active, ownership, approved>>
  BY DEF ReconcileNext, OperatorRollback, TimerElapses, DeadlineMissed, ApplyAlreadyActive,
         ReconcileStart, ReconcileEnd, PassStart, PassEnd, BootFirewall,
         Kill, Reboot, ExternalDelete, ForeignAppears, durable
<1>c. Pending' = Pending /\ AtMostOnePending' /\ PendingInv' /\ SettledInv'
  BY <1>u, CoreUnchanged
<1>f. ASSUME NEW kind, Fault(kind) \/ NoFault PROVE faults' \in Nat
  BY <1>t, <1>f DEF Fault, NoFault, HostType
<1>k. ASSUME UNCHANGED running, met' \in {met, FALSE}, HostType' PROVE IInv'
  <2>1. met' \in BOOLEAN
    BY <1>t, <1>k DEF ProcessType
  <2>2. ProcessType'
    BY <1>t, <1>k, <2>1 DEF ProcessType, running
  <2>3. StartInv' /\ ForwardInv' /\ RollbackInv' /\ ConfirmInv' /\ TodoInv'
    BY <1>u, <1>c, <1>k
    DEF running, IInv, StartInv, ForwardInv, RollbackInv, ConfirmInv, TodoInv, HasState,
        SoundTx, UntouchedBase, FreshInstall, MutationsPossible
  <2>4. QED
    BY <1>c, <1>k, <2>2, <2>3 DEF IInv, TypeOK
<1>e. ASSUME Exit, HostType' PROVE IInv'
  BY <1>c, <1>e, ExitInv
<1>1. ASSUME NEW i \in TxIds, ReconcileNext(i) PROVE IInv'
  <2>1. HostType'
    BY <1>1, <1>t DEF ReconcileNext, HostType, durable, runtime
  <2>2. HasState(i)
    BY <1>1 DEF ReconcileNext, IInv, TodoInv
  <2>3. caller \in {"none", "apply", "restore", "reconcile", "unit", "confirm",
                    "other"}
    BY <1>t DEF ProcessType
  <2>4. QED
    BY <1>1, <1>u, <2>1, <2>2, <2>3, EnterPreserves DEF ReconcileNext
<1>2. ASSUME NEW i \in TxIds, OperatorRollback(i) PROVE IInv'
  <2>1. HostType'
    BY <1>2, <1>t DEF OperatorRollback, HostType, durable, runtime
  <2>2. HasState(i)
    BY <1>2 DEF OperatorRollback, HasState, Pending, PendingPhases
  <2>3. QED
    BY <1>2, <1>u, <2>1, <2>2, EnterPreserves DEF OperatorRollback
<1>3. ASSUME NEW i \in TxIds, TimerElapses(i) \/ DeadlineMissed(i) PROVE IInv'
  <2>1. HostType'
    BY <1>3, <1>t DEF TimerElapses, DeadlineMissed, HostType, durable
  <2>2. CASE DeadlineMissed(i)
    BY <1>k, <2>1, <2>2 DEF DeadlineMissed, process
  <2>3. CASE HasState(i) /\ EnterRollback(i, "restore", {})
    BY <1>u, <2>1, <2>3, EnterPreserves
  <2>4. QED
    BY <1>3, <2>2, <2>3 DEF TimerElapses, TimerStarts
<1>4. ASSUME NEW g \in Gens, ApplyAlreadyActive(g) PROVE IInv'
  <2>1. HostType'
    BY <1>4, <1>t, DDNSAssumption DEF ApplyAlreadyActive, HostType, runtime
  <2>2. QED
    BY <1>4, <1>k, <2>1 DEF ApplyAlreadyActive, process
<1>5. ASSUME NEW c \in {"unit", "reconcile"}, ReconcileStart(c) PROVE IInv'
  <2>1. HostType'
    BY <1>5, <1>t DEF ReconcileStart, HostType, durable, runtime
  <2>2. ProcessType' /\ pc' = "rc-next"
    BY <1>5, <1>t DEF ReconcileStart, ProcessType, Pending, TakesLock
  <2>3. TodoInv'
    BY <1>5, <1>u DEF ReconcileStart, TodoInv, HasState, Pending, PendingPhases
  <2>4. QED
    BY <1>c, <2>1, <2>2, <2>3, FreeLabel
<1>6. CASE ReconcileEnd
  <2>1. UnitSucceeds \in BOOLEAN
    BY <1>t DEF UnitSucceeds, ProcessType
  <2>2. reconciled' \in BOOLEAN /\ host' \in {"booting", "starting", "up"}
    BY <1>6, <1>t, <2>1 DEF ReconcileEnd, AfterReconcileUnit, HostType
  <2>3. HostType' /\ Exit
    BY <1>6, <1>t, <2>2 DEF ReconcileEnd, HostType, durable
  <2>4. QED
    BY <1>e, <2>3
<1>7. CASE PassStart
  <2>1. HostType'
    BY <1>7, <1>t DEF PassStart, HostType, durable, runtime
  <2>2. ProcessType' /\ pc' = "pass" /\ TodoInv'
    BY <1>7, <1>t, <1>u DEF PassStart, ProcessType, IInv, TodoInv, HasState, TakesLock
  <2>3. QED
    BY <1>c, <2>1, <2>2, FreeLabel
<1>8. CASE PassEnd
  BY <1>8, <1>t, <1>e DEF PassEnd, HostType, durable, runtime
<1>9. CASE BootFirewall
  <2>1. live' \in {live, active} /\ (Fault("command") \/ NoFault)
    BY <1>9 DEF BootFirewall
  <2>2. HostType'
    BY <1>9, <1>t, <1>f, <2>1 DEF BootFirewall, HostType, durable
  <2>3. QED
    BY <1>9, <1>k, <2>2 DEF BootFirewall, process
<1>10. CASE Kill
  <2>1. reconciled' \in BOOLEAN /\ host' \in {"booting", "starting", "up"}
    BY <1>10, <1>t DEF Kill, AfterReconcileUnit, HostType
  <2>2. HostType' /\ Exit
    BY <1>10, <1>t, <1>f, <2>1 DEF Kill, HostType, durable
  <2>3. QED
    BY <1>e, <2>2
<1>11. CASE Reboot
  <2>1. HostType' /\ Exit
    BY <1>11, <1>t, <1>f DEF Reboot, HostType, durable
  <2>2. QED
    BY <1>e, <2>1
<1>12. CASE ExternalDelete
  BY <1>12, <1>t, <1>f, <1>k DEF ExternalDelete, HostType, durable
<1>13. CASE ForeignAppears
  BY <1>13, <1>t, <1>f, <1>k DEF ForeignAppears, HostType, durable, process
<1>14. QED
  BY <1>1, <1>2, <1>3, <1>4, <1>5, <1>6, <1>7, <1>8, <1>9, <1>10, <1>11,
     <1>12, <1>13

-----------------------------------------------------------------------------
(* Theorems *)

LEMMA StutterPreserves == IInv /\ UNCHANGED vars => IInv'
  BY DEF vars, durable, runtime, process, running, IInv, TypeOK, HostType, ProcessType,
         AtMostOnePending, PendingInv, SettledInv, StartInv, ForwardInv,
         RollbackInv, ConfirmInv, TodoInv, HasState, SoundTx, UntouchedBase,
         FreshInstall, MutationsPossible, Pending

\* Every step of commands, operator, systemd and environment preserves the
\* inductive invariant.
LEMMA StepPreserves == IInv /\ [Next]_vars => IInv'
<1> SUFFICES ASSUME IInv, [Next]_vars PROVE IInv'
  OBVIOUS
<1>1. CASE CommandStep
  BY <1>1, ApplyPreserves, RollbackPreserves, ConfirmPreserves, OtherPreserves
  DEF CommandStep
<1>2. CASE OperatorStep
  BY <1>2, ApplyStartPreserves, ConfirmPreserves, OtherPreserves
  DEF OperatorStep
<1>3. CASE SystemdStep
  BY <1>3, OtherPreserves DEF SystemdStep
<1>4. CASE Kill \/ Reboot \/ ExternalDelete \/ ForeignAppears
  BY <1>4, OtherPreserves
<1>5. CASE UNCHANGED vars
  BY <1>5, StutterPreserves
<1>6. QED
  BY <1>1, <1>2, <1>3, <1>4, <1>5 DEF Next

\* The inductive invariant holds in every state the host can reach: the
\* journal, the selector, ownership.json and the step every command is at fit
\* together whatever is killed, fails or reboots (apply.go, all commands).
THEOREM Invariance == Spec => []IInv
<1>1. Init => IInv
  BY InitInv
<1>2. IInv /\ [Next]_vars => IInv'
  BY StepPreserves
<1>3. QED
  BY <1>1, <1>2, PTL DEF Spec

\* Type correctness of the durable, the runtime and the process state.
THEOREM TypeCorrect == Spec => []TypeOK
<1>1. IInv => TypeOK
  BY DEF IInv
<1>2. QED
  BY <1>1, Invariance, PTL

\* Never two unconfirmed transactions: Apply's refusal (apply.go, Apply) is
\* enough, for any number of transactions, crashes and failing writes.
THEOREM OnePending == Spec => []AtMostOnePending
<1>1. IInv => AtMostOnePending
  BY DEF IInv
<1>2. QED
  BY <1>1, Invariance, PTL

\* With nothing pending, ownership.json names what the selector names.
THEOREM OwnershipAgrees == Spec => []OwnershipFollowsSelector
<1>1. IInv => OwnershipFollowsSelector
  BY DEF IInv, SettledInv, OwnershipFollowsSelector
<1>2. QED
  BY <1>1, Invariance, PTL

\* With nothing pending, the selector names nothing or what the operator
\* confirmed last: no crash turns a trial into the permanent policy.
THEOREM ApprovedSettles == Spec => []OnlyApprovedSettles
<1>1. IInv => OnlyApprovedSettles
  BY DEF IInv, SettledInv, OnlyApprovedSettles
<1>2. QED
  BY <1>1, Invariance, PTL

-----------------------------------------------------------------------------
(* Which steps write journal and selector *)

\* The steps that write the journal.
LEMMA JournalWriters ==
  ASSUME [Next]_vars, journal' # journal
  PROVE  \/ MakeTransactionDir \/ WritePrepared \/ MarkArmed \/ MarkActivating
         \/ MarkActivated \/ RecoverApply \/ FinishRollback \/ ConfirmWrite
  BY DEF Next, CommandStep, OperatorStep, SystemdStep, ApplyStep, RollbackStep,
         ArmRollback, SelectCandidate, OwnCandidate, ActivateCandidate,
         ReconcileDDNSTimer, EnableFirewall, CancelRollback, InspectTable, DeleteTable,
         RemoveSelector, RemoveOwnership, FindStage, SelectPrevious,
         LoadPrevious, OwnPrevious, CheckRestored, RestoreEnablement,
         RestoreDDNSTimer, ReconcileNext, ReconcileEnd, PassStart, PassEnd,
         ApplyStart, ApplyAlreadyActive, ConfirmStart, OperatorRollback,
         ReconcileStart, TimerElapses, DeadlineMissed, BootFirewall, Kill, Reboot,
         ExternalDelete, ForeignAppears, durable, vars

\* The only journal entry a step writes is that of the transaction the lock
\* holder works on, and only while that has no terminal phase.
LEMMA JournalStep ==
  ASSUME IInv, [Next]_vars, journal' # journal
  PROVE  /\ cur \in TxIds /\ journal[cur].phase \notin TerminalPhases
         /\ \E t : journal' = [journal EXCEPT ![cur] = t]
<1>1. \/ MakeTransactionDir \/ WritePrepared \/ MarkArmed \/ MarkActivating
      \/ MarkActivated \/ RecoverApply \/ FinishRollback \/ ConfirmWrite
  BY JournalWriters
<1>2. \E t : journal' = [journal EXCEPT ![cur] = t]
  BY <1>1 DEF MakeTransactionDir, WritePrepared, MarkArmed, MarkActivating,
              MarkActivated, Mark, RecoverApply, FinishRollback, ConfirmWrite,
              Written, MaybeWritten
<1>3. \/ pc \in {"mkdir", "prepare", "recover", "cf-write", "rb-finish"}
      \/ pc \in BeforeActivating \cup SinceActivating
  BY <1>1 DEF MakeTransactionDir, WritePrepared, MarkArmed, MarkActivating,
              MarkActivated, Mark, RecoverApply, FinishRollback, ConfirmWrite,
              BeforeActivating, SinceActivating
<1>4. (cur \in TxIds /\ ~HasState(cur)) \/ cur \in Pending
  BY <1>3 DEF IInv, StartInv, ForwardInv, RollbackInv, ConfirmInv,
              RollbackLabels
<1>5. QED
  BY <1>2, <1>4 DEF Pending, HasState, PendingPhases, TerminalPhases

\* The steps that change the selector.
LEMMA SelectorSteps ==
  ASSUME [Next]_vars, active' # active
  PROVE  SelectCandidate \/ RemoveSelector \/ SelectPrevious
  BY DEF Next, CommandStep, OperatorStep, SystemdStep, ApplyStep, RollbackStep,
         MakeTransactionDir, WritePrepared, ArmRollback, MarkArmed, MarkActivating,
         MarkActivated, Mark, OwnCandidate, ActivateCandidate, ReconcileDDNSTimer,
         EnableFirewall, RecoverApply, CancelRollback, InspectTable, DeleteTable, RemoveOwnership,
         FindStage, LoadPrevious, OwnPrevious, CheckRestored, RestoreEnablement,
         RestoreDDNSTimer, FinishRollback, ConfirmWrite, ReconcileNext, ReconcileEnd,
         PassStart, PassEnd, ApplyStart, ApplyAlreadyActive, ConfirmStart,
         OperatorRollback, ReconcileStart, TimerElapses, DeadlineMissed, BootFirewall, Kill, Reboot,
         ExternalDelete, ForeignAppears, durable, vars

\* While a transaction is pending, only a step that its journal entry declares
\* as mutating changes the selector; with none pending, no step does.
LEMMA SelectorStep ==
  ASSUME IInv, [Next]_vars, active' # active
  PROVE  /\ UNCHANGED <<journal, approved>>
         /\ cur \in Pending /\ MutationsPossible(journal[cur])
<1>1. SelectCandidate \/ RemoveSelector \/ SelectPrevious
  BY SelectorSteps
<1>2. UNCHANGED <<journal, approved>>
  BY <1>1 DEF SelectCandidate, RemoveSelector, SelectPrevious
<1>3. pc \in SinceActivating \cup FreshLabels \cup UpdateLabels
  BY <1>1 DEF SelectCandidate, RemoveSelector, SelectPrevious, SinceActivating,
              FreshLabels, UpdateLabels
<1>4. QED
  BY <1>2, <1>3 DEF IInv, ForwardInv, RollbackInv, FreshLabels, UpdateLabels, RollbackLabels

\* A confirmed or rolled-back transaction never changes again, although the
\* timer, the operator and reconcile may all still ask for its rollback
\* (rollbackWithManager returns at once, Confirm only stops the timer).
THEOREM TerminalStays == Spec => TerminalIsFinal
<1>1. ASSUME IInv, [Next]_vars, NEW i \in TxIds,
             journal[i].phase \in TerminalPhases
      PROVE  journal'[i] = journal[i]
  <2>1. CASE journal' = journal
    BY <2>1
  <2>2. CASE journal' # journal
    <3>1. i # cur /\ \E t : journal' = [journal EXCEPT ![cur] = t]
      BY <1>1, <2>2, JournalStep
    <3>2. journal \in [TxIds -> Transaction]
      BY <1>1 DEF IInv, TypeOK, HostType
    <3>3. QED
      BY <3>1, <3>2
  <2>3. QED
    BY <2>1, <2>2
<1>2. IInv /\ [Next]_vars
        => [\A i \in TxIds : journal[i].phase \in TerminalPhases
              => journal'[i] = journal[i]]_vars
  BY <1>1
<1>3. QED
  BY <1>2, Invariance, PTL DEF Spec, TerminalIsFinal

-----------------------------------------------------------------------------
(* The activation system implements TrialSwitch, for any set of generations and  *)
(* transaction IDs, any environment and any number of faults: the initial state   *)
(* maps to the initial state, every step to a step or a stutter.                   *)

\* The mapping, read off the only pending transaction; before and after a step.
LEMMA NoTrial ==
  /\ Pending = {} => Policy = active /\ Trial = None
  /\ Pending' = {} => Policy' = active' /\ Trial' = None
  BY DEF Policy, Trial

LEMMA TrialOf ==
  ASSUME IInv, NEW i \in Pending
  PROVE  /\ Policy = ReturnsTo(journal[i]) /\ Trial = journal[i].gen
         /\ Trial \in Gens /\ Trial # None
<1>1. OnlyPending = i
  BY DEF OnlyPending, IInv, AtMostOnePending
<1>2. journal[i].gen \in Gens
  BY DEF IInv, PendingInv, SoundTx
<1>3. QED
  BY <1>1, <1>2, SentinelAssumption DEF Policy, Trial

LEMMA TrialOfNext ==
  ASSUME IInv', NEW i \in Pending'
  PROVE  /\ Policy' = IF MutationsPossible(journal'[i]) THEN journal'[i].prev ELSE active'
         /\ Trial' = journal'[i].gen /\ Trial' \in Gens
<1>1. OnlyPending' = i
  BY DEF OnlyPending, IInv, AtMostOnePending
<1>2. journal'[i].gen \in Gens
  BY DEF IInv, PendingInv, SoundTx
<1>3. QED
  BY <1>1, <1>2 DEF Policy, Trial, ReturnsTo, MutationsPossible

-----------------------------------------------------------------------------
(* recoverApply writes the transaction it has in memory, which may be ahead of  *)
(* the journal, over the journal.                                               *)

\* t is u at the same or a later step of apply.
Continues(t, u) ==
  /\ t.gen = u.gen /\ t.prev = u.prev
  /\ MutationsPossible(u) => MutationsPossible(t)
RecoverInv == pc = "recover" => Continues(tx, journal[cur])

\* What apply has in memory when it turns to recovery continues the journal.
LEMMA RecoverStep ==
  ASSUME IInv, RecoverInv, [Next]_vars PROVE RecoverInv'
<1> SUFFICES ASSUME pc' = "recover" PROVE Continues(tx', journal'[cur'])
  BY DEF RecoverInv, Continues, MutationsPossible
<1>h. /\ journal \in [TxIds -> Transaction] /\ tx \in Transaction
      /\ pc \in BeforeActivating \cup SinceActivating => cur \in TxIds /\ tx = journal[cur]
  BY DEF IInv, TypeOK, HostType, ProcessType, ForwardInv, Pending
<1>1. CASE pc = "recover"
  <2>1. UNCHANGED <<journal, pc, cur, tx>>
    BY <1>1 DEF Next, CommandStep, OperatorStep, SystemdStep, ApplyStep, RollbackStep,
         MakeTransactionDir, WritePrepared, ArmRollback, MarkArmed, MarkActivating,
         MarkActivated, Mark, SelectCandidate, OwnCandidate, ActivateCandidate,
         ReconcileDDNSTimer, EnableFirewall, RecoverApply, CancelRollback, InspectTable, DeleteTable,
         RemoveSelector, RemoveOwnership, FindStage, SelectPrevious, LoadPrevious,
         OwnPrevious, CheckRestored, RestoreEnablement, RestoreDDNSTimer, FinishRollback,
         ConfirmWrite, ReconcileNext, ReconcileEnd, PassStart, PassEnd,
         ApplyStart, ApplyAlreadyActive, ConfirmStart, OperatorRollback, ReconcileStart,
         TimerElapses, DeadlineMissed, TimerStarts, BootFirewall, Kill, Reboot, ExternalDelete, ForeignAppears,
         Exit, Goto, FirstStep, Idle, durable, runtime, process, running, vars
  <2>2. QED
    BY <1>1, <2>1 DEF RecoverInv
<1>2. CASE ArmRollback \/ SelectCandidate \/ OwnCandidate \/ ActivateCandidate
           \/ ReconcileDDNSTimer \/ EnableFirewall
  BY <1>h, <1>2 DEF ArmRollback, SelectCandidate, OwnCandidate, ActivateCandidate,
     ReconcileDDNSTimer, EnableFirewall, Goto, Exit, durable, Continues,
     BeforeActivating, SinceActivating
<1>3. CASE MarkArmed \/ MarkActivating \/ MarkActivated
  BY <1>h, <1>3 DEF MarkArmed, MarkActivating, MarkActivated, Mark, PhaseBeforeSelect,
     Written, MaybeWritten, Continues, MutationsPossible, IInv, ForwardInv,
     BeforeActivating, SinceActivating, Transaction
<1>4. CASE pc # "recover" /\ ~(ArmRollback \/ SelectCandidate \/ OwnCandidate
           \/ ActivateCandidate \/ ReconcileDDNSTimer \/ EnableFirewall
           \/ MarkArmed \/ MarkActivating \/ MarkActivated)
  <2>1. pc' # "recover"
    BY <1>4, StageRange
    DEF Next, CommandStep, OperatorStep, SystemdStep, ApplyStep, RollbackStep,
         MakeTransactionDir, WritePrepared, RecoverApply, CancelRollback, InspectTable, DeleteTable,
         RemoveSelector, RemoveOwnership, FindStage, SelectPrevious, LoadPrevious,
         OwnPrevious, CheckRestored, RestoreEnablement, RestoreDDNSTimer, FinishRollback,
         ConfirmWrite, ReconcileNext, ReconcileEnd, PassStart, PassEnd,
         ApplyStart, ApplyAlreadyActive, ConfirmStart, OperatorRollback, ReconcileStart,
         TimerElapses, DeadlineMissed, TimerStarts, BootFirewall, Kill, Reboot, ExternalDelete, ForeignAppears,
         EnterRollback, RollbackReturns, Collect, FirstStep, Exit, Goto, process, running, vars
  <2>2. QED
    BY <2>1
<1>5. QED
  BY <1>1, <1>2, <1>3, <1>4

-----------------------------------------------------------------------------
(* Steps *)

\* A step of apply or of its recovery that writes the journal goes on with the
\* trial; the first that declares mutations may forfeit the policy.
LEMMA ContinueStep ==
  ASSUME IInv, IInv', cur \in Pending, cur \in Pending', UNCHANGED <<active, approved>>,
         Continues(journal'[cur], journal[cur])
  PROVE  [Switch!Next]_<<Policy, Trial, approved>>
<1> DEFINE old == journal[cur]  new == journal'[cur]
<1>1. Policy = ReturnsTo(old) /\ Trial = old.gen /\ Trial # None
  BY TrialOf
<1>2. Policy' = (IF MutationsPossible(new) THEN new.prev ELSE active) /\ Trial' = new.gen
  BY TrialOfNext
<1>3. new.gen = old.gen /\ new.prev = old.prev
      /\ (MutationsPossible(old) => MutationsPossible(new))
  BY DEF Continues
<1>4. CASE MutationsPossible(new) /\ ~MutationsPossible(old) /\ active # old.prev
  <2>1. old.prev = None /\ active = old.gen
    BY <1>4 DEF IInv, PendingInv, UntouchedBase, FreshInstall
  <2>2. Switch!Forfeit
    BY <1>1, <1>2, <1>3, <1>4, <2>1 DEF Switch!Forfeit, ReturnsTo
  <2>3. QED
    BY <2>2 DEF Switch!Next
<1>5. CASE ~(MutationsPossible(new) /\ ~MutationsPossible(old) /\ active # old.prev)
  BY <1>1, <1>2, <1>3, <1>5 DEF ReturnsTo
<1>6. QED
  BY <1>4, <1>5

\* The steps that write the journal.
LEMMA JournalWrite ==
  ASSUME IInv, IInv', RecoverInv, [Next]_vars, journal' # journal
  PROVE  [Switch!Next]_<<Policy, Trial, approved>>
<1>h. /\ cur \in TxIds /\ journal \in [TxIds -> Transaction]
      /\ active' = active /\ tx \in Transaction
  BY JournalStep, SelectorStep DEF IInv, TypeOK, HostType, ProcessType
<1>1. \/ MakeTransactionDir \/ WritePrepared \/ MarkArmed \/ MarkActivating
      \/ MarkActivated \/ RecoverApply \/ FinishRollback \/ ConfirmWrite
  BY DEF Next, CommandStep, OperatorStep, SystemdStep, ApplyStep, RollbackStep,
         ArmRollback, SelectCandidate, OwnCandidate, ActivateCandidate,
         ReconcileDDNSTimer, EnableFirewall, CancelRollback, InspectTable, DeleteTable,
         RemoveSelector, RemoveOwnership, FindStage, SelectPrevious,
         LoadPrevious, OwnPrevious, CheckRestored, RestoreEnablement,
         RestoreDDNSTimer, ReconcileNext, ReconcileEnd, PassStart, PassEnd,
         ApplyStart, ApplyAlreadyActive, ConfirmStart, OperatorRollback,
         ReconcileStart, TimerElapses, DeadlineMissed, BootFirewall, Kill, Reboot,
         ExternalDelete, ForeignAppears, durable, vars
<1>a. (\/ MakeTransactionDir \/ WritePrepared \/ MarkArmed \/ MarkActivating
       \/ MarkActivated \/ RecoverApply \/ FinishRollback) => approved' = approved
  BY DEF MakeTransactionDir, WritePrepared, MarkArmed, MarkActivating, MarkActivated,
         Mark, RecoverApply, FinishRollback
<1>2. CASE MakeTransactionDir
  <2>1. Pending = {} /\ Pending' = {}
    <3>1. Pending = {}
      BY <1>2 DEF MakeTransactionDir, IInv, StartInv
    <3>2. journal' = [journal EXCEPT ![cur] = [NoTx EXCEPT !.phase = "dir"]]
      BY <1>2 DEF MakeTransactionDir, Written, MaybeWritten
    <3>3. [NoTx EXCEPT !.phase = "dir"].phase = "dir"
      BY NoTxType
    <3>4. journal'[cur].phase = "dir" /\ \A i \in TxIds \ {cur} : journal'[i] = journal[i]
      BY <1>h, <3>2, <3>3
    <3>5. QED
      BY <3>1, <3>4 DEF Pending, PendingPhases
  <2>2. QED
    BY <1>h, <1>a, <1>2, <2>1, NoTrial
<1>3. CASE WritePrepared
  <2>1. Pending = {} /\ cur \in Pending' /\ journal'[cur] = tx /\ tx.phase = "prepared"
    BY <1>h, <1>3 DEF WritePrepared, IInv, StartInv, Written, MaybeWritten, Pending,
                      PendingPhases
  <2>2. Policy' = Policy /\ Trial = None /\ Trial' \in Gens
    BY <1>h, <2>1, NoTrial, TrialOfNext DEF MutationsPossible
  <2>3. QED
    BY <1>a, <1>3, <2>2 DEF Switch!Next, Switch!Begin
<1>4. CASE MarkArmed \/ MarkActivating \/ MarkActivated
  <2>1. PICK phase \in {"armed", "activating", "activated"} :
          /\ journal'[cur] = [tx EXCEPT !.phase = phase]
          /\ pc = "mark-activated" => phase = "activated"
    BY <1>h, <1>4 DEF MarkArmed, MarkActivating, MarkActivated, Mark, PhaseBeforeSelect,
                      Written, MaybeWritten
  <2>2. cur \in Pending /\ tx = journal[cur]
        /\ (MutationsPossible(tx) => pc = "mark-activated")
    BY <1>4 DEF MarkArmed, MarkActivating, MarkActivated, Mark, IInv, ForwardInv,
                BeforeActivating, SinceActivating
  <2>3. cur \in Pending' /\ Continues(journal'[cur], journal[cur])
    BY <1>h, <2>1, <2>2 DEF Transaction, Continues, MutationsPossible, Pending, PendingPhases
  <2>4. QED
    BY <1>h, <1>a, <1>4, <2>2, <2>3, ContinueStep
<1>5. CASE RecoverApply
  <2>1. cur \in Pending /\ journal'[cur] = tx /\ tx.phase \in PendingPhases
        /\ Continues(tx, journal[cur])
    BY <1>h, <1>5 DEF RecoverApply, RecoverInv, IInv, ForwardInv, Written, MaybeWritten
  <2>2. QED
    BY <1>h, <1>a, <1>5, <2>1, ContinueStep DEF Pending
<1>6. CASE FinishRollback
  <2>1. /\ cur \in Pending /\ tx = journal[cur] /\ ~failed
        /\ journal' = [journal EXCEPT ![cur] = [tx EXCEPT !.phase = "rolled-back"]]
    BY <1>6 DEF FinishRollback, MayFinish, IInv, RollbackInv, RollbackLabels, Written,
                MaybeWritten
  <2>2. Pending' = {}
    BY <1>h, <2>1 DEF Pending, PendingPhases, IInv, AtMostOnePending, Transaction
  <2>3. MutationsPossible(journal[cur]) => active = journal[cur].prev
    BY <1>6, <2>1 DEF FinishRollback, IInv, RollbackInv, LastLabels
  <2>4. Policy' = Policy /\ Trial # None /\ Trial' = None
    BY <1>h, <2>1, <2>2, <2>3, NoTrial, TrialOf DEF ReturnsTo
  <2>5. QED
    BY <1>a, <1>6, <2>4 DEF Switch!Next, Switch!Abandon
<1>7. CASE ConfirmWrite
  <2>1. /\ cur \in Pending /\ tx = journal[cur] /\ active = tx.gen
        /\ journal' = [journal EXCEPT ![cur] = [tx EXCEPT !.phase = "confirmed"]]
        /\ approved' = tx.gen
    BY <1>h, <1>7 DEF ConfirmWrite, IInv, ConfirmInv, Written, MaybeWritten
  <2>2. Pending' = {}
    BY <1>h, <2>1 DEF Pending, PendingPhases, IInv, AtMostOnePending, Transaction
  <2>3. Policy' = Trial /\ approved' = Trial /\ Trial # None /\ Trial' = None
    BY <1>h, <2>1, <2>2, NoTrial, TrialOf
  <2>4. QED
    BY <2>3 DEF Switch!Next, Switch!Accept
<1>8. QED
  BY <1>1, <1>2, <1>3, <1>4, <1>5, <1>6, <1>7

\* Only confirm approves, and it does so with a journal entry.
LEMMA ApprovedStep ==
  ASSUME IInv, [Next]_vars, journal' = journal PROVE approved' = approved
<1>1. CASE ConfirmWrite
  <2>1. cur \in Pending /\ tx = journal[cur] /\ tx \in Transaction
    BY <1>1 DEF ConfirmWrite, IInv, ConfirmInv, TypeOK, ProcessType
  <2>2. journal[cur] # [tx EXCEPT !.phase = "confirmed"]
    BY <2>1 DEF Pending, PendingPhases, Transaction
  <2>3. QED
    BY <1>1, <2>2 DEF ConfirmWrite
<1>2. CASE ~ConfirmWrite
  BY <1>2 DEF Next, CommandStep, OperatorStep, SystemdStep, ApplyStep, RollbackStep,
         MakeTransactionDir, WritePrepared, ArmRollback, MarkArmed, MarkActivating,
         MarkActivated, Mark, SelectCandidate, OwnCandidate, ActivateCandidate,
         ReconcileDDNSTimer, EnableFirewall, RecoverApply, CancelRollback, InspectTable, DeleteTable,
         RemoveSelector, RemoveOwnership, FindStage, SelectPrevious, LoadPrevious,
         OwnPrevious, CheckRestored, RestoreEnablement, RestoreDDNSTimer, FinishRollback,
         ReconcileNext, ReconcileEnd, PassStart, PassEnd, ApplyStart,
         ApplyAlreadyActive, ConfirmStart, OperatorRollback, ReconcileStart, TimerElapses, DeadlineMissed,
         BootFirewall, Kill, Reboot, ExternalDelete, ForeignAppears, vars
<1>3. QED
  BY <1>1, <1>2

\* Every step maps to a step of TrialSwitch or to a stutter.
LEMMA SwitchStep ==
  ASSUME IInv, IInv', RecoverInv, [Next]_vars PROVE [Switch!Next]_<<Policy, Trial, approved>>
<1>1. CASE journal' = journal /\ active' = active
  <2>1. Pending' = Pending
    BY <1>1 DEF Pending
  <2>2. QED
    BY <1>1, <2>1, ApprovedStep DEF Policy, Trial, OnlyPending, ReturnsTo, MutationsPossible
<1>2. CASE active' # active
  <2>1. /\ UNCHANGED <<journal, approved>>
        /\ cur \in Pending /\ MutationsPossible(journal[cur])
    BY <1>2, SelectorStep
  <2>2. cur \in Pending'
    BY <2>1 DEF Pending
  <2>3. QED
    BY <2>1, <2>2, TrialOf, TrialOfNext DEF ReturnsTo
<1>3. CASE journal' # journal
  BY <1>3, JournalWrite
<1>4. QED
  BY <1>1, <1>2, <1>3

\* The selection changes by an accepted trial only (SPEC.md, "Activation
\* Transaction"), however its transaction is driven, killed, rebooted or resumed
\* (apply.go: Apply, Confirm, rollbackWithManager, Reconcile).
THEOREM ImplementsTrialSwitch == Spec => SelectionByTrialOnly
<1>1. Init => Switch!Init /\ RecoverInv
  BY NoTrial DEF Init, Switch!Init, RecoverInv, Pending, PendingPhases, NoTx
<1>2. IInv /\ RecoverInv /\ [Next]_vars => RecoverInv'
  BY RecoverStep
<1>3. IInv /\ IInv' /\ RecoverInv /\ [Next]_vars => [Switch!Next]_<<Policy, Trial, approved>>
  BY SwitchStep
<1>4. QED
  BY <1>1, <1>2, <1>3, Invariance, PTL DEF Spec, SelectionByTrialOnly, Switch!Spec, Switch!vars

-----------------------------------------------------------------------------
(* The host: what kernel table, units, timers and generation directories hold  *)
(* while commands are interrupted.  IInv /\ HostInv (ActivationProperties) is  *)
(* inductive; the remaining safety properties of the system follow from it.    *)

-----------------------------------------------------------------------------
(* Which steps change what *)

LEMMA LiveStep ==
  ASSUME [Next]_vars, live' # live
  PROVE  \/ ActivateCandidate \/ LoadPrevious \/ DeleteTable \/ BootFirewall
         \/ Reboot \/ ExternalDelete \/ ForeignAppears
  BY DEF Next, CommandStep, OperatorStep, SystemdStep, ApplyStep, RollbackStep,
         MakeTransactionDir, WritePrepared, ArmRollback, MarkArmed, MarkActivating,
         MarkActivated, Mark, SelectCandidate, OwnCandidate, ReconcileDDNSTimer,
         EnableFirewall, RecoverApply, CancelRollback, InspectTable, RemoveSelector,
         RemoveOwnership, FindStage, SelectPrevious, OwnPrevious, CheckRestored,
         RestoreEnablement, RestoreDDNSTimer, FinishRollback, ConfirmWrite, ReconcileNext, ReconcileEnd,
         PassStart, PassEnd, ApplyStart, ApplyAlreadyActive, ConfirmStart,
         OperatorRollback, ReconcileStart, TimerElapses, DeadlineMissed, Kill, runtime, vars

LEMMA EnablementStep ==
  ASSUME [Next]_vars, fwEnabled' # fwEnabled
  PROVE  EnableFirewall \/ RestoreEnablement
  BY DEF Next, CommandStep, OperatorStep, SystemdStep, ApplyStep, RollbackStep,
         MakeTransactionDir, WritePrepared, ArmRollback, MarkArmed, MarkActivating,
         MarkActivated, Mark, SelectCandidate, OwnCandidate, ActivateCandidate,
         ReconcileDDNSTimer, RecoverApply, CancelRollback, InspectTable, DeleteTable, RemoveSelector,
         RemoveOwnership, FindStage, SelectPrevious, LoadPrevious, OwnPrevious,
         CheckRestored, RestoreDDNSTimer, FinishRollback, ConfirmWrite, ReconcileNext,
         ReconcileEnd, PassStart, PassEnd, ApplyStart, ApplyAlreadyActive,
         ConfirmStart, OperatorRollback, ReconcileStart, TimerElapses, DeadlineMissed, BootFirewall,
         Kill, Reboot, ExternalDelete, ForeignAppears, durable, vars

\* Where the process stands does not change, or a step of its command ran.
LEMMA ProcessStep ==
  ASSUME [Next]_vars
  PROVE  \/ UNCHANGED running /\ (met' => met)
         \/ Exit
         \/ ApplyStep \/ RollbackStep \/ ConfirmWrite
         \/ \E g \in Gens, i \in TxIds : ApplyStart(g, i)
         \/ \E i \in TxIds : ConfirmStart(i)
         \/ \E c \in {"unit", "reconcile"} : ReconcileStart(c)
         \/ PassStart
         \/ /\ UNCHANGED <<durable, live, reconciled, host, faults, approved>>
            /\ \E i \in TxIds :
                 \/ HasState(i) /\ Idle /\ EnterRollback(i, "restore", {})
                 \/ /\ pc = "rc-next" /\ i \in todo /\ UNCHANGED timers
                    /\ EnterRollback(i, caller, todo \ {i})
  BY DEF Next, CommandStep, OperatorStep, SystemdStep, PassEnd, ReconcileEnd,
         ReconcileNext, ApplyAlreadyActive, OperatorRollback, TimerElapses, DeadlineMissed, TimerStarts,
         BootFirewall, Kill, Reboot, ExternalDelete, ForeignAppears, vars, runtime, process,
         HasState, Pending, PendingPhases

-----------------------------------------------------------------------------
(* One lemma per conjunct of the invariant.                                  *)

\* The host goes down only with the process.
LEMMA HostGoesDown ==
  ASSUME [Next]_vars, host = "up" PROVE host' = "up" \/ Exit
  BY DEF Next, CommandStep, OperatorStep, SystemdStep, ApplyStep, RollbackStep,
         MakeTransactionDir, WritePrepared, ArmRollback, MarkArmed, MarkActivating,
         MarkActivated, Mark, SelectCandidate, OwnCandidate, ActivateCandidate,
         ReconcileDDNSTimer, EnableFirewall, RecoverApply, CancelRollback, InspectTable, DeleteTable,
         RemoveSelector, RemoveOwnership, FindStage, SelectPrevious, LoadPrevious,
         OwnPrevious, CheckRestored, RestoreEnablement, RestoreDDNSTimer, FinishRollback,
         ConfirmWrite, ReconcileNext, ReconcileEnd, PassStart, PassEnd, ApplyStart,
         ApplyAlreadyActive, ConfirmStart, OperatorRollback, ReconcileStart, TimerElapses, DeadlineMissed,
         BootFirewall, Kill, Reboot, ExternalDelete, ForeignAppears, runtime, vars

LEMMA WhoStep == ASSUME IInv, HostInv, [Next]_vars PROVE WhoInv'
<1>w. WhoInv
  BY DEF HostInv
<1>e. CASE Exit
  BY <1>e DEF WhoInv, SinceActivating, Exit
<1>1. CASE UNCHANGED running
  BY <1>1, <1>w, <1>e, HostGoesDown DEF WhoInv, SinceActivating, running
<1>2. CASE ApplyStep
  BY <1>2, <1>w, <1>e, HostGoesDown
  DEF WhoInv, SinceActivating, ApplyStep, MakeTransactionDir, WritePrepared, ArmRollback, MarkArmed,
      MarkActivating, MarkActivated, Mark, SelectCandidate, OwnCandidate,
      ActivateCandidate, ReconcileDDNSTimer, EnableFirewall, RecoverApply,
      CancelRollback, Goto, FirstStep
<1>3. CASE RollbackStep
  BY <1>3, <1>w, <1>e, StageRange
  DEF WhoInv, SinceActivating, RollbackStep, InspectTable, DeleteTable, RemoveSelector, RemoveOwnership, FindStage,
      SelectPrevious, LoadPrevious, OwnPrevious, CheckRestored, RestoreEnablement,
      RestoreDDNSTimer, FinishRollback, Goto, Collect, RollbackReturns
<1>4. ASSUME NEW g \in Gens, NEW i \in TxIds, ApplyStart(g, i) PROVE WhoInv'
  BY <1>4, <1>w DEF ApplyStart, runtime, WhoInv, SinceActivating
<1>5. ASSUME NEW i \in TxIds, NEW c, NEW rest, EnterRollback(i, c, rest),
             pc' = "rc-next" => c \in {"reconcile", "unit"}
      PROVE  WhoInv'
  BY <1>5 DEF EnterRollback, WhoInv, SinceActivating, FirstStep
<1>6. ASSUME NEW i \in TxIds, NEW c, NEW rest, EnterRollback(i, c, rest)
      PROVE  pc' = "rc-next" => c \in {"reconcile", "unit"}
  BY <1>6 DEF EnterRollback, FirstStep
<1>7. ASSUME NEW i \in TxIds, pc = "rc-next", EnterRollback(i, caller, todo \ {i}) PROVE WhoInv'
  BY <1>5, <1>6, <1>7, <1>w DEF WhoInv
<1>8. ASSUME NEW i \in TxIds, EnterRollback(i, "restore", {}) PROVE WhoInv'
  BY <1>5, <1>6, <1>8
<1>9. CASE ConfirmWrite \/ PassStart \/ (\E i \in TxIds : ConfirmStart(i))
           \/ \E c \in {"unit", "reconcile"} : ReconcileStart(c)
  BY <1>9, <1>w, <1>e DEF ConfirmWrite, PassStart, ConfirmStart, ReconcileStart, WhoInv, SinceActivating, Goto
<1>10. QED
  BY <1>e, <1>1, <1>2, <1>3, <1>4, <1>7, <1>8, <1>9, ProcessStep

\* A transaction becomes pending only when apply records it.
LEMMA PendingGrows ==
  ASSUME IInv, [Next]_vars PROVE Pending' \subseteq Pending \/ WritePrepared
<1>h. journal \in [TxIds -> Transaction]
  BY DEF IInv, TypeOK, HostType
<1>1. CASE journal' = journal
  BY <1>1 DEF Pending
<1>2. CASE journal' # journal /\ pc = "mkdir"
  <2>1. MakeTransactionDir
    BY <1>2, JournalWriters
    DEF WritePrepared, MarkArmed, MarkActivating, MarkActivated, Mark, RecoverApply,
        FinishRollback, ConfirmWrite
  <2>2. [NoTx EXCEPT !.phase = "dir"].phase = "dir"
    BY NoTxType DEF Transaction
  <2>3. journal' \in {journal, [journal EXCEPT ![cur] = [NoTx EXCEPT !.phase = "dir"]]}
    BY <2>1 DEF MakeTransactionDir, Written, MaybeWritten
  <2>4. \A i \in TxIds : journal'[i] = journal[i] \/ journal'[i].phase = "dir"
    BY <1>h, <2>2, <2>3
  <2>5. QED
    BY <2>4 DEF Pending, PendingPhases
<1>3. CASE journal' # journal /\ pc # "mkdir" /\ ~WritePrepared
  <2>1. cur \in Pending
    BY <1>3, JournalWriters
    DEF MakeTransactionDir, MarkArmed, MarkActivating, MarkActivated, Mark, RecoverApply,
        FinishRollback, ConfirmWrite, IInv, ForwardInv, RollbackInv, ConfirmInv,
        BeforeActivating, SinceActivating, RollbackLabels
  <2>2. \E t : journal' = [journal EXCEPT ![cur] = t]
    BY <1>3, JournalStep
  <2>3. QED
    BY <1>h, <2>1, <2>2 DEF Pending
<1>4. QED
  BY <1>1, <1>2, <1>3

\* A rollback that succeeds, or a confirm that is written, ends the only trial.
LEMMA NothingLeft ==
  ASSUME IInv, cur \in Pending, NEW t, journal' = [journal EXCEPT ![cur] = t],
         t.phase \notin PendingPhases
  PROVE  Pending' = {}
  BY DEF IInv, TypeOK, HostType, AtMostOnePending, Pending

LEMMA ReconcileStep == ASSUME IInv, HostInv, [Next]_vars PROVE ReconcileInv'
<1>r. ReconcileInv
  BY DEF HostInv
<1>p. /\ cur \in TxIds \cup {None} /\ errs \in BOOLEAN /\ todo \in SUBSET TxIds
      /\ journal \in [TxIds -> Transaction] /\ tx \in Transaction
  BY DEF IInv, TypeOK, ProcessType, HostType
\* Boot: the firewall unit starts only once nothing is pending.
<1>b. host' = "starting" /\ reconciled' => Pending' = {}
  <2> SUFFICES ASSUME host' = "starting", reconciled' PROVE Pending' = {}
    OBVIOUS
  <2>1. CASE UNCHANGED <<host, reconciled>>
    <3>1. Pending' \subseteq Pending \/ host = "up"
      BY PendingGrows DEF WritePrepared, HostInv, WhoInv
    <3>2. QED
      BY <1>r, <2>1, <3>1 DEF ReconcileInv
  <2>2. CASE ~UNCHANGED <<host, reconciled>>
    <3>1. ReconcileEnd
      BY <2>2
      DEF Next, CommandStep, OperatorStep, SystemdStep, ApplyStep, RollbackStep,
         MakeTransactionDir, WritePrepared, ArmRollback, MarkArmed, MarkActivating,
         MarkActivated, Mark, SelectCandidate, OwnCandidate, ActivateCandidate,
         ReconcileDDNSTimer, EnableFirewall, RecoverApply, CancelRollback, InspectTable, DeleteTable,
         RemoveSelector, RemoveOwnership, FindStage, SelectPrevious, LoadPrevious,
         OwnPrevious, CheckRestored, RestoreEnablement, RestoreDDNSTimer, FinishRollback,
         ConfirmWrite, ReconcileNext, PassStart, PassEnd, ApplyStart,
         ApplyAlreadyActive, ConfirmStart, OperatorRollback, ReconcileStart, TimerElapses, DeadlineMissed,
         BootFirewall, Kill, AfterReconcileUnit, Reboot, ExternalDelete, ForeignAppears,
         runtime, vars
    <3>2. UNCHANGED journal /\ todo = {} /\ ~errs /\ pc = "rc-next"
      BY <2>2, <3>1 DEF ReconcileEnd, AfterReconcileUnit, UnitSucceeds, durable
    <3>3. QED
      BY <1>r, <3>2 DEF ReconcileInv, Pending
  <2>3. QED
    BY <2>1, <2>2
\* Listing and working off the list.
<1>l. pc' = "rc-next" /\ ~errs' => Pending' \subseteq todo'
  <2> SUFFICES ASSUME pc' = "rc-next", ~errs' PROVE Pending' \subseteq todo'
    OBVIOUS
  <2>1. CASE UNCHANGED running
    BY <1>r, <2>1, PendingGrows DEF process, running, ReconcileInv, WritePrepared
  <2>2. CASE RollbackStep
    <3>1. PICK ok \in BOOLEAN : RollbackReturns(ok)
                /\ (ok => FinishRollback /\ ~failed
                          /\ journal' = [journal EXCEPT ![cur] = [tx EXCEPT !.phase = "rolled-back"]])
      BY <2>2, StageRange
      DEF RollbackStep, InspectTable, DeleteTable, RemoveSelector, RemoveOwnership, FindStage,
          SelectPrevious, LoadPrevious, OwnPrevious, CheckRestored, RestoreEnablement,
          RestoreDDNSTimer, FinishRollback, Goto, Collect, Written, MayFinish
    <3>2. ok
      BY <3>1 DEF RollbackReturns, Goto, Exit
    <3>3. cur \in Pending
      BY <3>1, <3>2 DEF FinishRollback, IInv, RollbackInv, RollbackLabels
    <3>4. [tx EXCEPT !.phase = "rolled-back"].phase = "rolled-back"
      BY <1>p DEF Transaction
    <3>5. Pending' = {}
      BY <3>1, <3>2, <3>3, <3>4, NothingLeft DEF PendingPhases
    <3>6. QED
      BY <3>5
  <2>3. ASSUME NEW c \in {"unit", "reconcile"}, ReconcileStart(c) PROVE Pending' \subseteq todo'
    BY <2>3 DEF ReconcileStart, durable, Pending
  <2>4. ASSUME NEW i \in TxIds, NEW c, NEW rest, EnterRollback(i, c, rest), UNCHANGED journal
        PROVE  c \in {"reconcile", "unit"} /\ i \notin Pending' /\ todo' = rest /\ errs' = errs
    BY <2>4 DEF EnterRollback, FirstStep, AlreadySettled, Pending, PendingPhases, TerminalPhases
  <2>5. ASSUME NEW i \in todo, pc = "rc-next", UNCHANGED journal,
               EnterRollback(i, caller, todo \ {i})
        PROVE  Pending' \subseteq todo'
    BY <1>p, <1>r, <2>4, <2>5 DEF ReconcileInv, Pending
  <2>6. ~(Exit \/ ApplyStep \/ ConfirmWrite \/ PassStart)
        /\ (\A g \in Gens, i \in TxIds : ~ApplyStart(g, i))
        /\ (\A i \in TxIds : ~ConfirmStart(i))
    BY DEF Exit, ApplyStep, MakeTransactionDir, WritePrepared, ArmRollback, MarkArmed,
       MarkActivating, MarkActivated, Mark, SelectCandidate, OwnCandidate,
       ActivateCandidate, ReconcileDDNSTimer, EnableFirewall, RecoverApply,
       CancelRollback, Goto, FirstStep, ConfirmWrite, PassStart, ApplyStart, ConfirmStart
  <2>7. ASSUME NEW i \in TxIds, UNCHANGED durable,
               \/ HasState(i) /\ Idle /\ EnterRollback(i, "restore", {})
               \/ pc = "rc-next" /\ i \in todo /\ EnterRollback(i, caller, todo \ {i})
        PROVE  Pending' \subseteq todo'
    <3>1. UNCHANGED journal
      BY <2>7 DEF durable
    <3>2. CASE EnterRollback(i, "restore", {})
      BY <2>4, <3>1, <3>2
    <3>3. QED
      BY <2>5, <2>7, <3>1, <3>2
  <2>8. QED
    BY <2>1, <2>2, <2>3, <2>6, <2>7, ProcessStep
<1>1. QED
  BY <1>b, <1>l DEF ReconcileInv

\* Facts about types every lemma below needs, before and after the step.
LEMMA Types ==
  ASSUME IInv
  PROVE  /\ journal \in [TxIds -> Transaction] /\ tx \in Transaction
         /\ cur \in TxIds \cup {None} /\ active \in Gens \cup {None}
         /\ generations \in SUBSET Gens /\ timers \in [TxIds -> {"off", "armed", "elapsed", "missed"}]
         /\ live \in Gens \cup {None, Foreign}
         /\ \A i \in Pending : i \in TxIds /\ journal[i].gen \in Gens
         /\ pc \in BeforeActivating \cup SinceActivating \cup RollbackLabels
               \cup {"recover", "cf-write"} => cur \in Pending
         /\ pc \in BeforeActivating \cup SinceActivating \cup RollbackLabels
               \cup {"cf-write"} => tx = journal[cur]
         /\ pc \in SinceActivating \cup FreshLabels \cup UpdateLabels => MutationsPossible(tx)
         /\ pc \in BeforeActivating => ~MutationsPossible(tx)
  BY DEF IInv, TypeOK, HostType, ProcessType, PendingInv, SoundTx, Pending, ForwardInv,
         RollbackInv, ConfirmInv, FreshLabels, UpdateLabels, RollbackLabels

\* The trial under way is the only one.
LEMMA OnlyOne == ASSUME IInv, cur \in Pending, NEW i \in Pending PROVE i = cur
  BY DEF IInv, AtMostOnePending

\* A step that writes table or enablement works on a mutated transaction, or
\* none is pending, or leaves an absent or a foreign table, or restores.
LEMMA HostWrites ==
  ASSUME IInv, HostInv, [Next]_vars
  PROVE  /\ \/ live' \in {live, None, Foreign}
            \/ /\ cur \in Pending /\ MutationsPossible(journal[cur])
               /\ UNCHANGED journal /\ MutationsPossible(tx)
               /\ pc' \in {"mark-activated", "recover"} => tx' = tx
               /\ pc' \notin {"mkdir", "prepare"}
            \/ BootFirewall /\ Pending = {} /\ live' = active
         /\ \/ fwEnabled' = fwEnabled
            \/ /\ cur \in Pending /\ MutationsPossible(journal[cur])
               /\ UNCHANGED journal
               /\ pc' = "recover" => tx' = tx
               /\ pc' \notin {"mkdir", "prepare"}
            \/ /\ RestoreEnablement /\ cur \in Pending /\ tx = journal[cur]
               /\ fwEnabled' \in {fwEnabled, tx.wasEnabled}
<1>t. /\ pc \in SinceActivating \cup FreshLabels \cup UpdateLabels
           => /\ cur \in Pending /\ tx = journal[cur]
              /\ MutationsPossible(tx) /\ MutationsPossible(journal[cur])
      /\ pc \in RollbackLabels => cur \in Pending /\ tx = journal[cur]
  BY Types DEF RollbackLabels, FreshLabels, UpdateLabels, MutationsPossible
<1>1. ASSUME live' \notin {live, None, Foreign}
      PROVE  \/ /\ cur \in Pending /\ MutationsPossible(journal[cur])
                /\ UNCHANGED journal /\ MutationsPossible(tx)
                /\ pc' \in {"mark-activated", "recover"} => tx' = tx
                /\ pc' \notin {"mkdir", "prepare"}
             \/ BootFirewall /\ Pending = {} /\ live' = active
  <2>1. ActivateCandidate \/ LoadPrevious \/ BootFirewall
    BY <1>1, LiveStep DEF InspectTable, DeleteTable, Reboot, ExternalDelete, ForeignAppears
  <2>2. CASE ActivateCandidate
    BY <1>t, <2>2 DEF ActivateCandidate, SinceActivating, durable, Goto
  <2>3. CASE LoadPrevious
    BY <1>t, <2>3 DEF LoadPrevious, UpdateLabels, durable, Goto, RollbackReturns, Exit
  <2>4. CASE BootFirewall
    BY <1>1, <2>4 DEF BootFirewall, FirewallUnitRuns, HostInv, ReconcileInv
  <2>5. QED
    BY <2>1, <2>2, <2>3, <2>4
<1>2. ASSUME fwEnabled' # fwEnabled
      PROVE  \/ /\ cur \in Pending /\ MutationsPossible(journal[cur])
                /\ UNCHANGED journal
                /\ pc' = "recover" => tx' = tx
                /\ pc' \notin {"mkdir", "prepare"}
             \/ /\ RestoreEnablement /\ cur \in Pending /\ tx = journal[cur]
                /\ fwEnabled' \in {fwEnabled, tx.wasEnabled}
  <2>1. CASE EnableFirewall
    <3>1. pc = "enable" /\ UNCHANGED journal /\ (Exit \/ Goto("recover"))
      BY <2>1, Zenon DEF EnableFirewall
    <3>2. cur \in Pending /\ MutationsPossible(journal[cur])
      BY <1>t, <3>1 DEF SinceActivating
    <3>3. (pc' = "recover" => tx' = tx) /\ pc' \notin {"mkdir", "prepare"}
      BY <3>1 DEF Goto, Exit
    <3>4. QED
      BY <3>1, <3>2, <3>3, Zenon
  <2>2. CASE RestoreEnablement
    <3>1. pc = "rb-enable" /\ fwEnabled' \in {fwEnabled, tx.wasEnabled}
      BY <2>2, Zenon DEF RestoreEnablement, EnablementBefore
    <3>2. cur \in Pending /\ tx = journal[cur]
      BY <1>t, <3>1 DEF RollbackLabels
    <3>3. QED
      BY <2>2, <3>1, <3>2, Zenon
  <2>3. QED
    BY <1>2, <2>1, <2>2, EnablementStep
<1>3. QED
  BY <1>1, <1>2

\* What a journal entry may become, or where it comes from.
LEMMA EntryStep ==
  ASSUME IInv, [Next]_vars, NEW i \in Pending'
  PROVE  \/ /\ i \in Pending
            /\ journal'[i].gen = journal[i].gen /\ journal'[i].prev = journal[i].prev
            /\ journal'[i].wasEnabled = journal[i].wasEnabled
            /\ MutationsPossible(journal[i]) => MutationsPossible(journal'[i])
         \/ /\ i = cur /\ journal'[i] = tx /\ pc \in {"prepare", "recover"}
            /\ UNCHANGED <<live, fwEnabled, active, generations>>
<1>h. journal \in [TxIds -> Transaction] /\ i \in TxIds /\ tx \in Transaction
  BY Types DEF Pending
<1>1. CASE journal'[i] = journal[i]
  BY <1>1 DEF Pending, MutationsPossible
<1>2. CASE journal'[i] # journal[i]
  <2>1. \/ MakeTransactionDir \/ WritePrepared \/ MarkArmed \/ MarkActivating
        \/ MarkActivated \/ RecoverApply \/ FinishRollback \/ ConfirmWrite
    BY <1>2, JournalWriters
  <2>2. i = cur
    BY <1>h, <1>2, JournalStep
  <2>3. CASE WritePrepared \/ RecoverApply
    BY <1>h, <1>2, <2>2, <2>3 DEF WritePrepared, RecoverApply, Written, MaybeWritten, runtime
  <2>4. CASE MarkArmed \/ MarkActivating \/ MarkActivated
    <3>1. cur \in Pending /\ tx = journal[cur]
      BY <2>4, Types DEF MarkArmed, MarkActivating, MarkActivated, Mark, BeforeActivating,
         SinceActivating
    <3>2. PICK phase \in {"armed", "activating", "activated"} :
             /\ journal'[i] = [tx EXCEPT !.phase = phase]
             /\ phase = "armed" => MarkArmed
      BY <1>h, <1>2, <2>2, <2>4 DEF MarkArmed, MarkActivating, MarkActivated, Mark,
         PhaseBeforeSelect, Written, MaybeWritten
    <3>3. phase = "armed" => ~MutationsPossible(tx)
      BY <3>2, Types DEF MarkArmed, Mark, BeforeActivating
    <3>4. QED
      BY <1>h, <2>2, <3>1, <3>2, <3>3 DEF MutationsPossible, Transaction
  <2>5. CASE MakeTransactionDir
    <3>1. [NoTx EXCEPT !.phase = "dir"].phase = "dir"
      BY NoTxType DEF Transaction
    <3>2. journal'[i] = [NoTx EXCEPT !.phase = "dir"]
      BY <1>h, <1>2, <2>2, <2>5 DEF MakeTransactionDir, Written, MaybeWritten
    <3>3. QED
      BY <3>1, <3>2 DEF Pending, PendingPhases
  <2>6. CASE FinishRollback \/ ConfirmWrite
    <3>1. \A p : [tx EXCEPT !.phase = p].phase = p
      BY <1>h DEF Transaction
    <3>2. \E p \in TerminalPhases : journal'[i] = [tx EXCEPT !.phase = p]
      BY <1>h, <1>2, <2>2, <2>6
      DEF FinishRollback, ConfirmWrite, Written, MaybeWritten, TerminalPhases
    <3>3. QED
      BY <3>1, <3>2 DEF Pending, PendingPhases, TerminalPhases
  <2>7. QED
    BY <2>1, <2>3, <2>4, <2>5, <2>6
<1>3. QED
  BY <1>1, <1>2

\* How apply comes to its first two steps, and to its recovery.
LEMMA StartLabels ==
  ASSUME IInv, [Next]_vars, pc' \in {"mkdir", "prepare"}
  PROVE  \/ \E g \in Gens, i \in TxIds : ApplyStart(g, i)
         \/ pc \in {"mkdir", "prepare"} /\ tx' = tx
<1>1. ~(RollbackStep \/ Exit \/ ConfirmWrite \/ PassStart)
      /\ (\A i \in TxIds : ~ConfirmStart(i))
      /\ (\A c \in {"unit", "reconcile"} : ~ReconcileStart(c))
      /\ (\A i, c, rest : ~EnterRollback(i, c, rest))
  BY StageRange
  DEF RollbackStep, InspectTable, DeleteTable, RemoveSelector, RemoveOwnership, FindStage,
      SelectPrevious, LoadPrevious, OwnPrevious, CheckRestored, RestoreEnablement,
      RestoreDDNSTimer, FinishRollback, Goto, Collect, RollbackReturns, Exit, ConfirmWrite,
      PassStart, ConfirmStart, ReconcileStart, EnterRollback, FirstStep
<1>2. CASE ApplyStep
  BY <1>1, <1>2
  DEF ApplyStep, MakeTransactionDir, WritePrepared, ArmRollback, MarkArmed, MarkActivating,
      MarkActivated, Mark, SelectCandidate, OwnCandidate, ActivateCandidate,
      ReconcileDDNSTimer, EnableFirewall, RecoverApply, CancelRollback, Goto, FirstStep, Exit
<1>3. CASE UNCHANGED running
  BY <1>3 DEF process, running
<1>4. QED
  BY <1>1, <1>2, <1>3, ProcessStep

LEMMA RecoverLabel ==
  ASSUME IInv, [Next]_vars, pc' = "recover"
  PROVE  \/ pc = "recover" /\ UNCHANGED <<tx, cur>>
         \/ /\ pc \in BeforeActivating \cup SinceActivating
            /\ tx'.gen = tx.gen /\ tx'.prev = tx.prev /\ tx'.wasEnabled = tx.wasEnabled
            /\ MutationsPossible(tx) => MutationsPossible(tx')
<1>h. tx \in Transaction
  BY Types
<1>1. ~(RollbackStep \/ Exit \/ ConfirmWrite \/ PassStart)
      /\ (\A i \in TxIds : ~ConfirmStart(i))
      /\ (\A c \in {"unit", "reconcile"} : ~ReconcileStart(c))
      /\ (\A i, c, rest : ~EnterRollback(i, c, rest))
      /\ (\A g \in Gens, i \in TxIds : ~ApplyStart(g, i))
  BY StageRange
  DEF RollbackStep, InspectTable, DeleteTable, RemoveSelector, RemoveOwnership, FindStage,
      SelectPrevious, LoadPrevious, OwnPrevious, CheckRestored, RestoreEnablement,
      RestoreDDNSTimer, FinishRollback, Goto, Collect, RollbackReturns, Exit, ConfirmWrite,
      PassStart, ConfirmStart, ReconcileStart, EnterRollback, FirstStep, ApplyStart
<1>2. CASE ArmRollback \/ SelectCandidate \/ OwnCandidate \/ ActivateCandidate
           \/ ReconcileDDNSTimer \/ EnableFirewall
  BY <1>2 DEF ArmRollback, SelectCandidate, OwnCandidate, ActivateCandidate,
     ReconcileDDNSTimer, EnableFirewall, Goto, Exit, BeforeActivating, SinceActivating,
     MutationsPossible
<1>3. CASE MarkArmed \/ MarkActivating \/ MarkActivated
  <2>1. MarkArmed => ~MutationsPossible(tx)
    BY Types DEF MarkArmed, Mark, BeforeActivating
  <2>2. QED
    BY <1>h, <1>3, <2>1 DEF MarkArmed, MarkActivating, MarkActivated, Mark,
       PhaseBeforeSelect, BeforeActivating, SinceActivating, MutationsPossible, Transaction
<1>4. CASE MakeTransactionDir \/ WritePrepared \/ RecoverApply \/ CancelRollback
  BY <1>1, <1>4 DEF MakeTransactionDir, WritePrepared, RecoverApply, CancelRollback, Goto,
     FirstStep
<1>5. CASE UNCHANGED running
  BY <1>5 DEF process, running
<1>6. QED
  BY <1>1, <1>2, <1>3, <1>4, <1>5, ProcessStep DEF ApplyStep

LEMMA UntouchedStep == ASSUME IInv, HostInv, [Next]_vars PROVE UntouchedInv'
<1>u. UntouchedInv
  BY DEF HostInv
<1>1. ASSUME NEW i \in Pending', ~MutationsPossible(journal'[i])
      PROVE  live' \in {None, Foreign, journal'[i].prev} /\ fwEnabled' = journal'[i].wasEnabled
  <2>1. CASE /\ i = cur /\ journal'[i] = tx /\ pc \in {"prepare", "recover"}
             /\ UNCHANGED <<live, fwEnabled, active, generations>>
    BY <1>1, <1>u, <2>1 DEF UntouchedInv, UntouchedHost, MutationsPossible
  <2>2. CASE /\ i \in Pending /\ journal'[i].prev = journal[i].prev
             /\ journal'[i].wasEnabled = journal[i].wasEnabled
             /\ MutationsPossible(journal[i]) => MutationsPossible(journal'[i])
    <3>1. UntouchedHost(journal[i])
      BY <1>1, <1>u, <2>2 DEF UntouchedInv
    <3>2. cur \in Pending => i = cur
      BY <2>2, OnlyOne
    <3>3. live' \in {live, None, Foreign}
      BY <1>1, <2>2, <3>2, HostWrites
    <3>4. fwEnabled' \in {fwEnabled, journal[i].wasEnabled}
      BY <1>1, <2>2, <3>2, HostWrites
    <3>5. QED
      BY <2>2, <3>1, <3>3, <3>4 DEF UntouchedHost
  <2>3. QED
    BY <2>1, <2>2, EntryStep
<1>2. ASSUME pc' \in {"mkdir", "prepare"}
      PROVE  live' \in {None, Foreign, tx'.prev} /\ fwEnabled' = tx'.wasEnabled
  <2>1. ASSUME NEW g \in Gens, NEW i \in TxIds, ApplyStart(g, i)
        PROVE  live' \in {None, Foreign, tx'.prev} /\ fwEnabled' = tx'.wasEnabled
    <3>1. PICK b \in Base(g) : tx' = NewTransaction(g, b)
      BY <2>1 DEF ApplyStart
    <3>2. tx'.prev = b /\ tx'.wasEnabled = fwEnabled
      BY <3>1, Zenon DEF NewTransaction
    <3>3. live \in {None, b}
      BY DEF Base, CheckOwnership
    <3>4. QED
      BY <2>1, <3>2, <3>3 DEF ApplyStart, runtime
  <2>2. CASE pc \in {"mkdir", "prepare"} /\ tx' = tx
    <3>1. ~BootFirewall /\ ~RestoreEnablement
      <4>1. pc # "idle" /\ pc # "rb-enable"
        BY <2>2
      <4>2. QED
        BY <4>1, Zenon DEF BootFirewall, Idle, RestoreEnablement
    <3>2. live' \in {live, None, Foreign} /\ fwEnabled' = fwEnabled
      BY <1>2, <3>1, HostWrites
    <3>3. QED
      BY <1>u, <2>2, <3>2 DEF UntouchedInv, UntouchedHost
  <2>3. QED
    BY <1>2, <2>1, <2>2, StartLabels
<1>3. ASSUME pc' = "recover", ~MutationsPossible(tx')
      PROVE  live' \in {None, Foreign, tx'.prev} /\ fwEnabled' = tx'.wasEnabled
  <2>1. UntouchedHost(tx) /\ tx'.prev = tx.prev /\ tx'.wasEnabled = tx.wasEnabled
        /\ ~MutationsPossible(tx) /\ pc \in BeforeActivating \cup SinceActivating \cup {"recover"}
    <3>1. CASE pc = "recover" /\ tx' = tx
      BY <1>3, <1>u, <3>1 DEF UntouchedInv, MutationsPossible
    <3>2. CASE /\ pc \in BeforeActivating \cup SinceActivating
               /\ tx'.prev = tx.prev /\ tx'.wasEnabled = tx.wasEnabled
               /\ MutationsPossible(tx) => MutationsPossible(tx')
      <4>1. cur \in Pending /\ tx = journal[cur]
        BY <3>2, Types
      <4>2. QED
        BY <1>3, <1>u, <3>2, <4>1 DEF UntouchedInv
    <3>3. QED
      BY <1>3, <3>1, <3>2, RecoverLabel
  <2>2. cur \in Pending => ~(MutationsPossible(journal[cur]) /\ tx = journal[cur])
    BY <2>1
  <2>3. ~BootFirewall /\ ~RestoreEnablement
    <3>1. pc # "idle" /\ pc # "rb-enable"
      BY <2>1 DEF BeforeActivating, SinceActivating
    <3>2. QED
      BY <3>1, Zenon DEF BootFirewall, Idle, RestoreEnablement
  <2>4. live' \in {live, None, Foreign}
    BY <2>1, <2>3, HostWrites
  <2>5. fwEnabled' = fwEnabled
    <3>1. ~EnableFirewall
      <4>1. pc # "enable"
        BY <2>1, Types DEF SinceActivating
      <4>2. QED
        BY <4>1, Zenon DEF EnableFirewall
    <3>2. QED
      BY <2>3, <3>1, EnablementStep
  <2>6. QED
    BY <2>1, <2>4, <2>5 DEF UntouchedHost
<1>4. QED
  BY <1>1, <1>2, <1>3 DEF UntouchedInv, UntouchedHost, MutationsPossible

\* What other tools may make of the table.
Drift ==
  \/ live' = live \/ (live' = None /\ "delete" \in Env)
  \/ live = None /\ live' = Foreign /\ "foreign" \in Env

LEMMA DriftsFrom ==
  ASSUME Drift, NEW g, IsStill(live, g) PROVE IsStill(live', g)
  BY DEF Drift, IsStill

\* The table changes under a command by its own hand or by another tool's.
LEMMA LiveUnderCommand ==
  ASSUME [Next]_vars, live' # live, pc # "idle", pc' # "idle"
  PROVE  \/ ActivateCandidate \/ LoadPrevious \/ DeleteTable
         \/ Drift
  BY LiveStep DEF BootFirewall, Reboot, ExternalDelete, ForeignAppears, Exit, Idle, Fault, Drift

LEMMA ConfirmLabel ==
  ASSUME IInv, [Next]_vars, pc' = "cf-write"
  PROVE  (\E i \in TxIds : ConfirmStart(i)) \/ UNCHANGED running
<1>1. ~(ApplyStep \/ RollbackStep \/ Exit \/ ConfirmWrite \/ PassStart)
      /\ (\A g \in Gens, i \in TxIds : ~ApplyStart(g, i))
      /\ (\A c \in {"unit", "reconcile"} : ~ReconcileStart(c))
      /\ (\A i, c, rest : ~EnterRollback(i, c, rest))
  BY StageRange
  DEF ApplyStep, MakeTransactionDir, WritePrepared, ArmRollback, MarkArmed, MarkActivating,
      MarkActivated, Mark, SelectCandidate, OwnCandidate, ActivateCandidate,
      ReconcileDDNSTimer, EnableFirewall, RecoverApply, CancelRollback,
      RollbackStep, InspectTable, DeleteTable, RemoveSelector, RemoveOwnership, FindStage,
      SelectPrevious, LoadPrevious, OwnPrevious, CheckRestored, RestoreEnablement,
      RestoreDDNSTimer, FinishRollback, Goto, Collect, RollbackReturns, Exit, ConfirmWrite,
      PassStart, ApplyStart, ReconcileStart, EnterRollback, FirstStep
<1>2. QED
  BY <1>1, ProcessStep

\* Steps that leave the command of the lock holder where it is.
LEMMA Bystander ==
  ASSUME [Next]_vars, UNCHANGED running, pc # "idle"
  PROVE  /\ Drift
         /\ UNCHANGED <<journal, active, fwEnabled, ddnsTimer>>
<1>1. /\ ~(ApplyStep \/ RollbackStep \/ ConfirmWrite \/ Exit)
      /\ \A g \in Gens, i \in TxIds : ~ApplyStart(g, i)
      /\ \A g \in Gens : ~ApplyAlreadyActive(g)
  BY StageRange
  DEF ApplyStep, MakeTransactionDir, WritePrepared, ArmRollback, MarkArmed, MarkActivating,
      MarkActivated, Mark, SelectCandidate, OwnCandidate, ActivateCandidate,
      ReconcileDDNSTimer, EnableFirewall, RecoverApply, CancelRollback,
      RollbackStep, InspectTable, DeleteTable, RemoveSelector, RemoveOwnership, FindStage,
      SelectPrevious, LoadPrevious, OwnPrevious, CheckRestored, RestoreEnablement,
      RestoreDDNSTimer, FinishRollback, Goto, Collect, RollbackReturns, Exit, ConfirmWrite,
      ApplyStart, ApplyAlreadyActive, FirstStep, Idle, process, running
<1>2. Drift
  BY <1>1, LiveUnderCommand DEF ApplyStep, RollbackStep, running, Drift
<1>3. fwEnabled' = fwEnabled
  BY <1>1, EnablementStep DEF ApplyStep, RollbackStep
<1>4. UNCHANGED <<journal, active, ddnsTimer>>
  BY <1>1
  DEF Next, CommandStep, OperatorStep, SystemdStep, ReconcileNext, ReconcileEnd, PassStart,
      PassEnd, ConfirmStart, OperatorRollback, ReconcileStart, TimerElapses, DeadlineMissed, BootFirewall,
      Kill, Reboot, ExternalDelete, ForeignAppears, durable, vars
<1>5. QED
  BY <1>2, <1>3, <1>4

\* A command that began over another program's table is on no way to a load or
\* delete: apply and rollback refuse at their checks.
LEMMA MetStep ==
  ASSUME IInv, HostInv, [Next]_vars, met' PROVE live' = Foreign /\ pc' \notin BeforeLoad
<1>k. /\ met => live = Foreign /\ pc \notin BeforeLoad
      /\ tx.gen # Foreign /\ tx.prev # Foreign /\ None # Foreign
  BY Types, SentinelAssumption DEF HostInv, KernelInv, Transaction
<1>e. ~Exit
  <2>1. met' # FALSE
    OBVIOUS
  <2>2. QED
    BY <2>1, Zenon DEF Exit
<1>1. CASE UNCHANGED running /\ (met' => met)
  <2>1. live = Foreign /\ pc \notin BeforeLoad /\ pc' = pc
    BY <1>1, <1>k DEF running
  <2>2. ~ExternalDelete
    <3>1. met' # FALSE
      OBVIOUS
    <3>2. QED
      BY <3>1, Zenon DEF ExternalDelete
  <2>3. live' = live
    BY <1>e, <1>k, <2>1, <2>2, LiveStep
    DEF ActivateCandidate, LoadPrevious, DeleteTable, BootFirewall, Idle, BeforeLoad, Reboot,
        ForeignAppears
  <2>4. QED
    BY <2>1, <2>3
<1>2. CASE ApplyStep
  <2>1. met /\ ~Exit
    BY <1>e, <1>2
    DEF ApplyStep, MakeTransactionDir, WritePrepared, ArmRollback, MarkArmed,
        MarkActivating, MarkActivated, Mark, SelectCandidate, OwnCandidate,
        ActivateCandidate, ReconcileDDNSTimer, EnableFirewall, RecoverApply,
        CancelRollback, Goto
  <2>2. QED
    BY <1>2, <1>k, <2>1
    DEF ApplyStep, MakeTransactionDir, WritePrepared, ArmRollback, MarkArmed,
        MarkActivating, MarkActivated, Mark, SelectCandidate, OwnCandidate,
        ActivateCandidate, ReconcileDDNSTimer, EnableFirewall, RecoverApply,
        CancelRollback, Goto, FirstStep, BeforeLoad, runtime
<1>3. CASE RollbackStep
  <2>1. met
    BY <1>e, <1>3, StageRange
    DEF RollbackStep, InspectTable, DeleteTable, RemoveSelector, RemoveOwnership, FindStage,
        SelectPrevious, LoadPrevious, OwnPrevious, CheckRestored, RestoreEnablement,
        RestoreDDNSTimer, FinishRollback, Goto, Collect, RollbackReturns
  <2>2. live = Foreign /\ pc \notin BeforeLoad
    BY <1>k, <2>1
  <2>3. ~TableMayGo /\ UpdateRollbackStage(tx) = {}
    BY <1>k, <2>2 DEF TableMayGo, UpdateRollbackStage, TableAbsent, StageWithTable
  <2>4. QED
    BY <1>3, <1>e, <2>2, <2>3
    DEF RollbackStep, InspectTable, DeleteTable, RemoveSelector, RemoveOwnership, FindStage,
        SelectPrevious, LoadPrevious, OwnPrevious, CheckRestored, RestoreEnablement,
        RestoreDDNSTimer, FinishRollback, Goto, Collect, RollbackReturns, BeforeLoad, runtime
<1>4. CASE ConfirmWrite
  <2>1. met
    BY <1>e, <1>4 DEF ConfirmWrite, Goto
  <2>2. QED
    BY <1>e, <1>4, <1>k, <2>1 DEF ConfirmWrite, Goto, BeforeLoad, runtime
<1>5. ASSUME NEW g \in Gens, NEW i \in TxIds, ApplyStart(g, i) PROVE FALSE
  <2>1. live = Foreign
    BY <1>5, Zenon DEF ApplyStart, TakesLock
  <2>2. Base(g) # {}
    BY <1>5 DEF ApplyStart
  <2>3. QED
    BY <1>k, <2>1, <2>2, Types, SentinelAssumption DEF Base, CheckOwnership
<1>6. ASSUME live = Foreign, UNCHANGED live, pc' \in {"cf-write", "cancel", "rc-next", "pass"}
      PROVE  live' = Foreign /\ pc' \notin BeforeLoad
  BY <1>6 DEF BeforeLoad
<1>7. ASSUME NEW i \in TxIds, ConfirmStart(i) PROVE live' = Foreign /\ pc' \notin BeforeLoad
  <2>1. live = Foreign
    BY <1>7, Zenon DEF ConfirmStart, TakesLock
  <2>2. QED
    BY <1>6, <1>7, <2>1 DEF ConfirmStart, runtime
<1>8. ASSUME NEW c \in {"unit", "reconcile"}, ReconcileStart(c)
      PROVE  live' = Foreign /\ pc' \notin BeforeLoad
  <2>1. live = Foreign
    BY <1>8, Zenon DEF ReconcileStart, TakesLock
  <2>2. QED
    BY <1>6, <1>8, <2>1 DEF ReconcileStart, runtime
<1>9. CASE PassStart
  <2>1. live = Foreign
    BY <1>9, Zenon DEF PassStart, TakesLock
  <2>2. QED
    BY <1>6, <1>9, <2>1 DEF PassStart, runtime
<1>10. ASSUME NEW i \in TxIds, NEW c, NEW rest, EnterRollback(i, c, rest), UNCHANGED live
       PROVE  live' = Foreign /\ pc' \notin BeforeLoad
  <2>1. ~AlreadySettled(journal[i]) /\ live = Foreign
    BY <1>10, Zenon DEF EnterRollback
  <2>2. QED
    BY <1>10, <2>1 DEF EnterRollback, FirstStep, BeforeLoad
<1>11. QED
  BY <1>e, <1>1, <1>2, <1>3, <1>4, <1>5, <1>7, <1>8, <1>9, <1>10, ProcessStep

LEMMA KernelStep == ASSUME IInv, HostInv, [Next]_vars PROVE KernelInv'
<1>k. KernelInv
  BY DEF HostInv
<1>h. /\ journal \in [TxIds -> Transaction] /\ tx \in Transaction
      /\ cur \in TxIds \cup {None}
  BY Types
<1>1. ASSUME Pending' = {} PROVE live' \in {None, Foreign, active'}
  <2>1. CASE journal' = journal
    <3>1. Pending = {}
      BY <1>1, <2>1 DEF Pending
    <3>2. active' = active
      BY <3>1, SelectorStep
    <3>3. live' \in {live, None, Foreign, active}
      BY <3>1, HostWrites
    <3>4. QED
      BY <1>k, <3>1, <3>2, <3>3 DEF KernelInv
  <2>2. CASE journal' # journal
    <3>1. active' = active
      BY <2>2, SelectorStep
    <3>2. live' = live
      BY <2>2, LiveStep DEF ActivateCandidate, LoadPrevious, InspectTable, DeleteTable, BootFirewall, Reboot,
         ExternalDelete, ForeignAppears, durable
    <3>3. CASE MakeTransactionDir \/ WritePrepared
      <4>1. Pending = {}
        BY <3>3 DEF MakeTransactionDir, WritePrepared, IInv, StartInv
      <4>2. QED
        BY <1>k, <3>1, <3>2, <4>1 DEF KernelInv
    <3>4. CASE MarkArmed \/ MarkActivating \/ MarkActivated \/ RecoverApply
      <4>1. cur \in Pending
        BY <3>4, Types DEF MarkArmed, MarkActivating, MarkActivated, Mark, RecoverApply,
           BeforeActivating, SinceActivating
      <4>2. \A p : [tx EXCEPT !.phase = p].phase = p
        BY <1>h DEF Transaction
      <4>3. tx.phase \in PendingPhases \/ ~RecoverApply
        BY DEF RecoverApply, IInv, ForwardInv
      <4>4. CASE RecoverApply
        <5>1. journal' \in {journal, [journal EXCEPT ![cur] = tx]}
          BY <4>4 DEF RecoverApply, Written, MaybeWritten
        <5>2. QED
          BY <1>h, <1>1, <4>1, <4>3, <4>4, <5>1 DEF Pending
      <4>5. CASE MarkArmed \/ MarkActivating \/ MarkActivated
        <5>1. PICK p \in PendingPhases :
                journal' \in {journal, [journal EXCEPT ![cur] = [tx EXCEPT !.phase = p]]}
          BY <4>5 DEF MarkArmed, MarkActivating, MarkActivated, Mark, PhaseBeforeSelect,
             Written, MaybeWritten, PendingPhases
        <5>2. [tx EXCEPT !.phase = p].phase = p
          BY <4>2
        <5>3. QED
          BY <1>h, <1>1, <4>1, <5>1, <5>2 DEF Pending
      <4>6. QED
        BY <3>4, <4>4, <4>5
    <3>5. CASE ConfirmWrite
      BY <1>k, <3>1, <3>2, <3>5 DEF ConfirmWrite, KernelInv, Holds, IsStill, IInv, ConfirmInv
    <3>6. CASE FinishRollback
      <4>1. ~failed /\ pc = "rb-finish" /\ cur \in Pending /\ tx = journal[cur]
        BY <2>2, <3>6, Types DEF FinishRollback, MayFinish, RollbackLabels
      <4>2. CASE MutationsPossible(tx)
        BY <3>1, <3>2, <4>1, <4>2
        DEF IInv, RollbackInv, LastLabels, HostInv, RestoredInv, Holds, IsStill
      <4>3. CASE ~MutationsPossible(tx)
        <5>1. UntouchedHost(tx) /\ UntouchedBase(tx)
          BY <4>1, <4>3 DEF HostInv, UntouchedInv, IInv, PendingInv
        <5>2. QED
          BY <3>1, <3>2, <5>1 DEF UntouchedHost, UntouchedBase, FreshInstall
      <4>4. QED
        BY <4>2, <4>3
    <3>7. QED
      BY <2>2, <3>3, <3>4, <3>5, <3>6, JournalWriters
  <2>3. QED
    BY <2>1, <2>2
<1>2. ASSUME pc' = "cf-write" PROVE IsStill(live', tx'.gen)
  <2>1. ASSUME NEW i \in TxIds, ConfirmStart(i) PROVE IsStill(live', tx'.gen)
    BY <1>2, <2>1 DEF ConfirmStart, MayConfirm, VerifyActivated, runtime, IsStill
  <2>2. CASE UNCHANGED running
    <3>1. pc = "cf-write" /\ tx' = tx
      BY <1>2, <2>2 DEF running
    <3>2. Drift
      BY <1>2, <3>1, LiveUnderCommand DEF ActivateCandidate, LoadPrevious, DeleteTable, Drift
    <3>3. IsStill(live, tx.gen)
      BY <1>k, <3>1 DEF KernelInv, Holds
    <3>4. QED
      BY <3>1, <3>2, <3>3, DriftsFrom
  <2>3. QED
    BY <1>2, <2>1, <2>2, ConfirmLabel
<1>3. met' => live' = Foreign /\ pc' \notin BeforeLoad
  BY MetStep
<1>4. QED
  BY <1>1, <1>2, <1>3 DEF KernelInv, Holds
\* Where a rollback stands follows from where it stood, or from its entry.
LEMMA RollbackLabel ==
  ASSUME IInv, [Next]_vars, pc' \in RollbackLabels
  PROVE  \/ UNCHANGED running
         \/ RollbackStep
         \/ /\ pc = "recover" /\ tx' = tx /\ pc' = FirstStep(tx)
            /\ UNCHANGED <<live, fwEnabled>>
         \/ \E i \in Pending :
              /\ tx' = journal[i] /\ pc' = FirstStep(journal[i])
              /\ UNCHANGED <<live, fwEnabled>>
<1>h. journal \in [TxIds -> Transaction]
  BY Types
<1>1. ~(Exit \/ ConfirmWrite \/ PassStart)
      /\ (\A g \in Gens, i \in TxIds : ~ApplyStart(g, i))
      /\ (\A i \in TxIds : ~ConfirmStart(i))
      /\ (\A c \in {"unit", "reconcile"} : ~ReconcileStart(c))
  BY DEF Goto, Exit, ConfirmWrite, PassStart, ApplyStart, ConfirmStart, ReconcileStart,
      RollbackLabels
<1>2. CASE ApplyStep
  <2>1. RecoverApply
    BY <1>1, <1>2
    DEF ApplyStep, MakeTransactionDir, WritePrepared, ArmRollback, MarkArmed, MarkActivating,
      MarkActivated, Mark, SelectCandidate, OwnCandidate, ActivateCandidate,
      ReconcileDDNSTimer, EnableFirewall, CancelRollback, Goto, RollbackLabels
  <2>2. QED
    BY <1>1, <2>1 DEF RecoverApply, Goto, runtime
<1>3. ASSUME NEW i \in TxIds, NEW c, NEW rest, HasState(i), EnterRollback(i, c, rest)
      PROVE  i \in Pending /\ tx' = journal[i] /\ pc' = FirstStep(journal[i])
  <2>1. ~AlreadySettled(journal[i])
    BY <1>3 DEF EnterRollback, RollbackLabels
  <2>2. i \in Pending
    BY <1>h, <1>3, <2>1 DEF AlreadySettled, HasState, Pending, Transaction, Phases
  <2>3. QED
    BY <1>3, <2>1, <2>2 DEF EnterRollback
<1>4. ASSUME NEW i \in TxIds, UNCHANGED <<durable, live, reconciled, host, faults, approved>>,
             \/ HasState(i) /\ Idle /\ EnterRollback(i, "restore", {})
             \/ /\ pc = "rc-next" /\ i \in todo /\ UNCHANGED timers
                /\ EnterRollback(i, caller, todo \ {i})
      PROVE  \E j \in Pending :
               /\ tx' = journal[j] /\ pc' = FirstStep(journal[j])
               /\ UNCHANGED <<live, fwEnabled>>
  <2>1. HasState(i)
    BY <1>4 DEF IInv, TodoInv
  <2>2. QED
    BY <1>3, <1>4, <2>1 DEF durable
<1>5. QED
  BY <1>1, <1>2, <1>4, ProcessStep

\* Where the fresh entries of a rollback lead.
LEMMA FirstSteps ==
  ASSUME NEW t
  PROVE  /\ FirstStep(t) \in {"rb-table", "rb-finish", "rb-stage", "rb-enable"}
         /\ FirstStep(t) \in {"rb-finish", "rb-enable"} => ~MutationsPossible(t)
  BY DEF FirstStep

LEMMA RestoredStep == ASSUME IInv, HostInv, [Next]_vars PROVE RestoredInv'
<1> SUFFICES ASSUME ~failed' PROVE RestoredInv'
  BY DEF RestoredInv
<1>h. RestoredInv /\ UntouchedInv
  BY DEF HostInv
<1>l. LastLabels \subseteq RollbackLabels
      /\ {"rb-unselect", "rb-disown", "rb-ddns", "rb-finish"} \subseteq RollbackLabels
  BY DEF LastLabels, RollbackLabels
\* Entering a rollback: nothing is claimed yet, or nothing was touched.
<1>e. ASSUME pc' = FirstStep(tx'), UNCHANGED <<live, fwEnabled>>,
             ~MutationsPossible(tx') => UntouchedHost(tx')
      PROVE  RestoredInv'
  <2>1. /\ pc' \notin {"rb-unselect", "rb-disown", "rb-ddns"}
        /\ pc' \in LastLabels => ~MutationsPossible(tx')
    BY <1>e, FirstSteps DEF LastLabels
  <2>2. pc' = "rb-finish" => fwEnabled' = tx'.wasEnabled
    BY <1>e, <2>1 DEF LastLabels, UntouchedHost
  <2>3. MutationsPossible(tx)' = MutationsPossible(tx')
    BY DEF MutationsPossible
  <2>4. QED
    BY <2>1, <2>2, <2>3 DEF RestoredInv, LastLabels
<1>n. CASE pc' \notin RollbackLabels
  BY <1>l, <1>n DEF RestoredInv
<1>1. CASE UNCHANGED running
  <2>1. CASE pc \in RollbackLabels
    <3>1. UNCHANGED <<pc, tx, failed>> /\ pc # "idle"
      BY <1>1, <2>1 DEF process, running, RollbackLabels
    <3>2. Drift /\ UNCHANGED <<fwEnabled, ddnsTimer>>
      BY <1>1, <3>1, Bystander
    <3>3. (pc \in {"rb-unselect", "rb-disown"} => IsStill(live, None))
          /\ (pc \in LastLabels /\ MutationsPossible(tx) => IsStill(live, tx.prev))
      BY <1>h, <3>1 DEF RestoredInv, Holds
    <3>4. (pc' \in {"rb-unselect", "rb-disown"} => IsStill(live', None))
          /\ (pc' \in LastLabels /\ MutationsPossible(tx') => IsStill(live', tx'.prev))
      BY <3>1, <3>2, <3>3, DriftsFrom
    <3>5. (pc' \in {"rb-ddns", "rb-finish"} => fwEnabled' = tx'.wasEnabled)
      BY <1>h, <3>1, <3>2, Zenon DEF RestoredInv
    <3>6. (pc' = "rb-finish" /\ MutationsPossible(tx') => ddnsTimer' = DDNSBefore')
      BY <1>h, <3>1, <3>2, Zenon DEF RestoredInv, DDNSBefore, FreshInstall
    <3>7. QED
      BY <3>4, <3>5, <3>6, Zenon DEF RestoredInv, Holds, MutationsPossible
  <2>2. QED
    BY <1>1, <1>n, <2>1 DEF process, running
<1>2. CASE RollbackStep
  <2>1. pc \in RollbackLabels /\ tx = journal[cur] /\ cur \in Pending
    BY <1>2, Types
    DEF RollbackStep, InspectTable, DeleteTable, RemoveSelector, RemoveOwnership, FindStage,
      SelectPrevious, LoadPrevious, OwnPrevious, CheckRestored, RestoreEnablement,
      RestoreDDNSTimer, FinishRollback, RollbackLabels
  <2>2. CASE InspectTable \/ DeleteTable
    <3>1. pc' \in {"rb-unselect", "rb-delete"}
      BY <2>2, Zenon DEF InspectTable, DeleteTable, Collect
    <3>2. pc' = "rb-unselect" => live' = None
      BY <2>2 DEF InspectTable, DeleteTable, Collect, TableAbsent, runtime
    <3>3. QED
      BY <3>1, <3>2 DEF RestoredInv, LastLabels, Holds, IsStill
  <2>3. CASE RemoveSelector
    <3>1. pc = "rb-unselect" /\ pc' = "rb-disown" /\ ~failed /\ live' = live
      BY <2>3, Zenon DEF RemoveSelector, Collect, runtime
    <3>2. QED
      BY <1>h, <3>1 DEF RestoredInv, LastLabels, Holds
  <2>4. CASE RemoveOwnership
    <3>1. pc = "rb-disown" /\ pc' = "rb-enable" /\ IsStill(live', None) /\ tx' = tx
      BY <1>h, <2>4 DEF RemoveOwnership, Collect, RestoredInv, Holds, runtime
    <3>2. tx.prev = None
      BY <3>1 DEF IInv, RollbackInv, FreshLabels, FreshInstall
    <3>3. QED
      BY <3>1, <3>2 DEF RestoredInv, LastLabels, Holds
  <2>5. CASE CheckRestored
    BY <1>n, <2>5, StageThree
    DEF CheckRestored, Goto, RollbackReturns, Exit, RestoredInv, LastLabels, Holds, IsStill,
        runtime, RollbackLabels
  <2>6. CASE FindStage \/ SelectPrevious \/ LoadPrevious \/ OwnPrevious \/ FinishRollback
    <3>1. pc' \in {"rb-select", "rb-load", "rb-own", "rb-check"} \/ pc' \notin RollbackLabels
      BY <2>6, StageRange
      DEF FindStage, SelectPrevious, LoadPrevious, OwnPrevious, FinishRollback, Goto,
          RollbackReturns, Exit, RollbackLabels
    <3>2. QED
      BY <1>n, <3>1 DEF RestoredInv, LastLabels
  <2>7. CASE RestoreEnablement
    <3>1. pc = "rb-enable" /\ pc' = "rb-ddns" /\ UNCHANGED <<tx, live>>
      BY <2>7, Zenon DEF RestoreEnablement, EnablementBefore, Collect, runtime
    <3>2. fwEnabled' = tx'.wasEnabled
      BY <2>7, <3>1, Zenon DEF RestoreEnablement, EnablementBefore, Collect
    <3>3. ~failed
      BY <2>7, Zenon DEF RestoreEnablement, Collect
    <3>4. MutationsPossible(tx) => Holds(tx.prev)
      BY <1>h, <3>1, <3>3 DEF RestoredInv, LastLabels
    <3>5. MutationsPossible(tx') => Holds(tx.prev)'
      BY <3>1, <3>4 DEF Holds, MutationsPossible
    <3>6. QED
      BY <3>1, <3>2, <3>5 DEF RestoredInv, MutationsPossible
  <2>8. CASE RestoreDDNSTimer
    <3>1. /\ pc = "rb-ddns" /\ pc' = "rb-finish" /\ UNCHANGED <<tx, live, fwEnabled>> /\ ~failed
      BY <2>8, Zenon DEF RestoreDDNSTimer, Collect, runtime
    <3>2. ddnsTimer' = DDNSBefore
      BY <2>8, Zenon DEF RestoreDDNSTimer, Collect
    <3>3. DDNSBefore' = DDNSBefore
      BY <3>1 DEF DDNSBefore, FreshInstall
    <3>4. MutationsPossible(tx) => Holds(tx.prev)
      BY <1>h, <3>1 DEF RestoredInv, LastLabels
    <3>5. MutationsPossible(tx') => Holds(tx.prev)'
      BY <3>1, <3>4 DEF Holds, MutationsPossible
    <3>6. fwEnabled' = tx'.wasEnabled
      BY <1>h, <3>1, Zenon DEF RestoredInv
    <3>7. QED
      BY <3>1, <3>2, <3>3, <3>5, <3>6 DEF RestoredInv, MutationsPossible
  <2>9. QED
    BY <1>2, <2>2, <2>3, <2>4, <2>5, <2>6, <2>7, <2>8 DEF RollbackStep
<1>3. ASSUME pc = "recover", tx' = tx, pc' = FirstStep(tx), UNCHANGED <<live, fwEnabled>>
      PROVE  RestoredInv'
  BY <1>3, <1>e, <1>h DEF UntouchedInv
<1>4. ASSUME NEW i \in Pending, tx' = journal[i], pc' = FirstStep(journal[i]),
             UNCHANGED <<live, fwEnabled>>
      PROVE  RestoredInv'
  BY <1>4, <1>e, <1>h DEF UntouchedInv
<1>5. QED
  BY <1>1, <1>2, <1>3, <1>4, <1>n, RollbackLabel
UnderDeadMan == {"mark-armed", "mark-activating"} \cup SinceActivating

LEMMA DeadManStep == ASSUME IInv, HostInv, [Next]_vars PROVE DeadManInv'
<1> SUFFICES ASSUME pc' \in UnderDeadMan PROVE timers'[cur'] = "armed" \/ "slow" \in Env
  BY DEF DeadManInv, UnderDeadMan
<1>h. timers \in [TxIds -> {"off", "armed", "elapsed", "missed"}] /\ DeadManInv /\ WhoInv
  BY Types DEF HostInv
<1>1. ~(RollbackStep \/ Exit \/ ConfirmWrite \/ PassStart)
      /\ (\A i \in TxIds : ~ConfirmStart(i))
      /\ (\A c \in {"unit", "reconcile"} : ~ReconcileStart(c))
      /\ (\A i, c, rest : ~EnterRollback(i, c, rest))
      /\ (\A g \in Gens, i \in TxIds : ~ApplyStart(g, i))
  BY StageRange
  DEF RollbackStep, InspectTable, DeleteTable, RemoveSelector, RemoveOwnership, FindStage,
      SelectPrevious, LoadPrevious, OwnPrevious, CheckRestored, RestoreEnablement,
      RestoreDDNSTimer, FinishRollback, Goto, Collect, RollbackReturns, Exit, ConfirmWrite,
      PassStart, ConfirmStart, ReconcileStart, EnterRollback, FirstStep, ApplyStart,
      UnderDeadMan, SinceActivating
<1>2. CASE UNCHANGED running
  <2>1. pc \in UnderDeadMan /\ cur' = cur /\ caller = "apply"
    BY <1>2, <1>h DEF running, WhoInv, UnderDeadMan, SinceActivating
  <2>2. timers'[cur] = timers[cur] \/ "slow" \in Env
    <3>1. ASSUME NEW i \in TxIds, DeadlineMissed(i)
          PROVE  timers'[cur] = timers[cur] \/ "slow" \in Env
      <4>1. CASE cur = i
        BY <2>1, <3>1, <4>1 DEF DeadlineMissed
      <4>2. CASE cur # i
        BY <1>h, <3>1, <4>2 DEF DeadlineMissed
      <4>3. QED
        BY <4>1, <4>2
    <3>2. timers' = timers \/ \E i \in TxIds : DeadlineMissed(i)
      BY <1>1, <1>2, <2>1
      DEF Next, CommandStep, OperatorStep, SystemdStep, ApplyStep,
           MakeTransactionDir, WritePrepared, ArmRollback, MarkArmed, MarkActivating,
           MarkActivated, Mark, SelectCandidate, OwnCandidate, ActivateCandidate,
           ReconcileDDNSTimer, EnableFirewall, RecoverApply, CancelRollback,
           ReconcileNext, ReconcileEnd, PassEnd, ApplyAlreadyActive, OperatorRollback,
           TimerElapses, BootFirewall, Kill, Reboot, ExternalDelete, ForeignAppears, runtime,
           vars, UnderDeadMan, SinceActivating, Idle
    <3>3. QED
      BY <3>1, <3>2
  <2>3. QED
    BY <1>h, <2>1, <2>2 DEF DeadManInv, UnderDeadMan
<1>3. CASE ArmRollback
  <2>1. pc = "arm" /\ pc' = "mark-armed" /\ cur' = cur /\ timers' = [timers EXCEPT ![cur] = "armed"]
    BY <1>3 DEF ArmRollback, Goto, TimersAfterArm, UnderDeadMan, SinceActivating
  <2>2. cur \in TxIds
    BY <2>1, Types DEF BeforeActivating, Pending
  <2>3. QED
    BY <1>h, <2>1, <2>2
<1>4. CASE ApplyStep /\ ~ArmRollback
  <2>1. pc \in UnderDeadMan /\ cur' = cur /\ timers' = timers
    BY <1>1, <1>4
    DEF ApplyStep, MakeTransactionDir, WritePrepared, MarkArmed, MarkActivating,
      MarkActivated, Mark, SelectCandidate, OwnCandidate, ActivateCandidate,
      ReconcileDDNSTimer, EnableFirewall, RecoverApply, CancelRollback, Goto, FirstStep,
      UnderDeadMan, SinceActivating, runtime
  <2>2. QED
    BY <1>h, <2>1 DEF DeadManInv, UnderDeadMan
<1>5. QED
  BY <1>1, <1>2, <1>3, <1>4, ProcessStep

\* Generation directories are never removed.
LEMMA GenerationsGrow ==
  ASSUME [Next]_vars
  PROVE  \/ UNCHANGED generations
         \/ \E g \in Gens, i \in TxIds : ApplyStart(g, i) /\ generations' = generations \cup {g}
  BY DEF Next, CommandStep, OperatorStep, SystemdStep, ApplyStep, RollbackStep,
         MakeTransactionDir, WritePrepared, ArmRollback, MarkArmed, MarkActivating,
         MarkActivated, Mark, SelectCandidate, OwnCandidate, ActivateCandidate,
         ReconcileDDNSTimer, EnableFirewall, RecoverApply, CancelRollback, InspectTable, DeleteTable,
         RemoveSelector, RemoveOwnership, FindStage, SelectPrevious, LoadPrevious,
         OwnPrevious, CheckRestored, RestoreEnablement, RestoreDDNSTimer, FinishRollback,
         ConfirmWrite, ReconcileNext, ReconcileEnd, PassStart, PassEnd, ApplyStart,
         ApplyAlreadyActive, ConfirmStart, OperatorRollback, ReconcileStart, TimerElapses, DeadlineMissed,
         BootFirewall, Kill, Reboot, ExternalDelete, ForeignAppears, WithGeneration,
         durable, vars

LEMMA DiskStep == ASSUME IInv, HostInv, [Next]_vars PROVE DiskInv'
<1>d. DiskInv /\ generations \subseteq generations'
  BY GenerationsGrow DEF HostInv
<1>1. active' \in generations' \cup {None}
  <2>1. CASE active' = active
    BY <1>d, <2>1 DEF DiskInv
  <2>2. CASE active' # active
    <3>1. cur \in Pending /\ tx = journal[cur] /\ OnDisk(journal[cur])
      BY <1>d, <2>2, SelectorSteps, Types DEF DiskInv, SelectCandidate, RemoveSelector,
         SelectPrevious, SinceActivating, RollbackLabels
    <3>2. active' \in {active, None, tx.gen, tx.prev}
      BY <2>2, SelectorSteps DEF SelectCandidate, RemoveSelector, SelectPrevious,
         SelectorAfterRemoval
    <3>3. QED
      BY <1>d, <3>1, <3>2 DEF DiskInv, OnDisk
  <2>3. QED
    BY <2>1, <2>2
<1>2. ASSUME NEW t, NEW u, OnDisk(u), t.gen = u.gen, t.prev = u.prev
      PROVE  t.gen \in generations' /\ t.prev \in generations' \cup {None}
  BY <1>d, <1>2 DEF OnDisk
<1>3. ASSUME NEW i \in Pending'
      PROVE  journal'[i].gen \in generations' /\ journal'[i].prev \in generations' \cup {None}
  <2>1. CASE /\ i \in Pending /\ journal'[i].gen = journal[i].gen
             /\ journal'[i].prev = journal[i].prev
    BY <1>2, <1>d, <2>1 DEF DiskInv
  <2>2. CASE journal'[i] = tx /\ pc \in {"prepare", "recover"}
    BY <1>2, <1>d, <2>2 DEF DiskInv
  <2>3. QED
    BY <2>1, <2>2, EntryStep
<1>4. ASSUME pc' \in {"mkdir", "prepare"}
      PROVE  tx'.gen \in generations' /\ tx'.prev \in generations' \cup {None}
  <2>1. ASSUME NEW g \in Gens, NEW i \in TxIds, ApplyStart(g, i)
        PROVE  tx'.gen \in generations' /\ tx'.prev \in generations' \cup {None}
    <3>1. PICK b \in Base(g) : tx' = NewTransaction(g, b)
      BY <2>1 DEF ApplyStart
    <3>2. tx'.gen = g /\ tx'.prev = b
      BY <3>1, Zenon DEF NewTransaction
    <3>3. b \in {None, active} /\ g \in generations'
      BY <2>1 DEF Base, ApplyStart, WithGeneration
    <3>4. QED
      BY <1>d, <3>2, <3>3 DEF DiskInv
  <2>2. CASE pc \in {"mkdir", "prepare"} /\ tx' = tx
    BY <1>2, <1>d, <2>2 DEF DiskInv
  <2>3. QED
    BY <1>4, <2>1, <2>2, StartLabels
<1>5. ASSUME pc' = "recover"
      PROVE  tx'.gen \in generations' /\ tx'.prev \in generations' \cup {None}
  <2>1. OnDisk(tx) /\ tx'.gen = tx.gen /\ tx'.prev = tx.prev
    BY <1>5, <1>d, RecoverLabel, Types DEF DiskInv
  <2>2. QED
    BY <1>2, <2>1
<1>6. QED
  BY <1>1, <1>3, <1>4, <1>5 DEF DiskInv, OnDisk

-----------------------------------------------------------------------------
(* Theorems *)

LEMMA HostInit == Init => HostInv
<1> SUFFICES ASSUME Init PROVE HostInv
  OBVIOUS
<1>1. Pending = {}
  BY DEF Init, Pending, PendingPhases, NoTx
<1>2. QED
  BY <1>1 DEF Init, HostInv, WhoInv, ReconcileInv, UntouchedInv, KernelInv, RestoredInv,
     DeadManInv, DiskInv, LastLabels, SinceActivating, BeforeLoad

LEMMA HostStepPreserves == IInv /\ HostInv /\ [Next]_vars => HostInv'
  BY WhoStep, ReconcileStep, UntouchedStep, KernelStep, RestoredStep, DeadManStep, DiskStep
  DEF HostInv

\* Kernel table, unit enablement, timers and generation directories fit the
\* journal and the step every command is at, whatever is killed or fails.
THEOREM HostInvariance == Spec => [](IInv /\ HostInv)
<1>1. Init => IInv /\ HostInv
  BY InitInv, HostInit
<1>2. (IInv /\ HostInv) /\ [Next]_vars => (IInv /\ HostInv)'
  BY StepPreserves, HostStepPreserves
<1>3. QED
  BY <1>1, <1>2, PTL DEF Spec

\* The journal is ahead of the host: while it says that nothing was mutated,
\* selector, ownership and table are those from before the transaction.
THEOREM JournalFirst == Spec => []JournalBeforeMutation
<1>1. IInv /\ HostInv => JournalBeforeMutation
  <2> SUFFICES ASSUME IInv, HostInv, NEW i \in Pending, ~MutationsPossible(journal[i])
               PROVE  /\ ownership = active /\ live # journal[i].gen
                      /\ active \in (IF FreshInstall(journal[i]) THEN {None, journal[i].gen}
                                     ELSE {journal[i].prev})
    BY DEF JournalBeforeMutation
  <2>1. SoundTx(journal[i]) /\ UntouchedBase(journal[i]) /\ UntouchedHost(journal[i])
    BY DEF IInv, PendingInv, HostInv, UntouchedInv
  <2>2. live # journal[i].gen
    BY <2>1, SentinelAssumption DEF SoundTx, UntouchedHost
  <2>3. QED
    BY <2>1, <2>2 DEF UntouchedBase
<1>2. QED
  BY <1>1, HostInvariance, PTL

\* The policy the selector names can always be loaded, and so can the one an
\* undecided transaction would return to.
THEOREM SelectionLoadable == Spec => []SelectorResolves
<1>1. HostInv => SelectorResolves
  BY DEF HostInv, DiskInv, OnDisk, FreshInstall, SelectorResolves
<1>2. QED
  BY <1>1, HostInvariance, PTL

\* No policy that was tried and given up stays in the kernel.
THEOREM NoOrphan == Spec => []NoOrphanPolicy
<1>1. HostInv => NoOrphanPolicy
  BY DEF HostInv, KernelInv, NoOrphanPolicy
<1>2. QED
  BY <1>1, HostInvariance, PTL

\* The boot loads the policy the operator confirmed, and nothing undecided.
THEOREM BootLoads == Spec => BootLoadsApproved
<1>1. ASSUME IInv, HostInv, [Next]_vars, BootCompletes, live' # live
      PROVE  live' = approved /\ Pending = {}
  <2>1. BootFirewall
    BY <1>1, LiveStep DEF ActivateCandidate, LoadPrevious, InspectTable, DeleteTable, Reboot,
       ExternalDelete, ForeignAppears, BootCompletes
  <2>2. live' = active /\ active # None /\ Pending = {}
    BY <1>1, <2>1 DEF BootFirewall, FirewallUnitRuns, HostInv, ReconcileInv
  <2>3. QED
    BY <1>1, <2>2 DEF IInv, SettledInv
<1>2. IInv /\ HostInv /\ [Next]_vars
        => [BootCompletes /\ live' # live => live' = approved /\ Pending = {}]_vars
  BY <1>1
<1>3. QED
  BY <1>2, HostInvariance, PTL DEF Spec, BootLoadsApproved
\* Who records a decision.
LEMMA Deciders ==
  ASSUME IInv, [Next]_vars, NEW i \in TxIds, NEW phase \in TerminalPhases, Becomes(i, phase)
  PROVE  /\ i = cur /\ i \in Pending /\ tx = journal[i]
         /\ phase = "confirmed" => ConfirmWrite
         /\ phase = "rolled-back" => FinishRollback /\ ~failed
<1>h. journal \in [TxIds -> Transaction] /\ tx \in Transaction
  BY Types
<1>1. journal'[i] # journal[i] /\ journal'[i].phase = phase
  BY DEF Becomes
<1>2. i = cur
  BY <1>h, <1>1, JournalStep
<1>3. \A p : [tx EXCEPT !.phase = p].phase = p
  BY <1>h DEF Transaction
<1>4. ~(MarkArmed \/ MarkActivating \/ MarkActivated)
  <2>1. ASSUME MarkArmed \/ MarkActivating \/ MarkActivated PROVE FALSE
    <3>1. \E p \in PendingPhases : journal'[i] = [tx EXCEPT !.phase = p]
      BY <1>h, <1>1, <1>2, <2>1 DEF MarkArmed, MarkActivating, MarkActivated, Mark,
         PhaseBeforeSelect, Written, MaybeWritten, PendingPhases
    <3>2. QED
      BY <1>1, <1>3, <3>1 DEF PendingPhases, TerminalPhases
  <2>2. QED
    BY <2>1
<1>5. ~MakeTransactionDir
  <2>1. [NoTx EXCEPT !.phase = "dir"].phase = "dir"
    BY NoTxType DEF Transaction
  <2>2. QED
    BY <1>h, <1>1, <1>2, <2>1 DEF MakeTransactionDir, Written, MaybeWritten, TerminalPhases
<1>6. ~(WritePrepared \/ RecoverApply)
  <2>1. ASSUME WritePrepared \/ RecoverApply PROVE FALSE
    <3>1. journal'[i] = tx
      BY <1>h, <1>1, <1>2, <2>1 DEF WritePrepared, RecoverApply, Written, MaybeWritten
    <3>2. tx.phase \in PendingPhases
      BY <2>1 DEF WritePrepared, RecoverApply, IInv, StartInv, ForwardInv, PendingPhases
    <3>3. QED
      BY <1>1, <3>1, <3>2 DEF PendingPhases, TerminalPhases
  <2>2. QED
    BY <2>1
<1>7. ConfirmWrite \/ FinishRollback
  BY <1>1, <1>4, <1>5, <1>6, JournalWriters
<1>8. ConfirmWrite => phase = "confirmed"
  <2>1. ASSUME ConfirmWrite PROVE journal'[i] = [tx EXCEPT !.phase = "confirmed"]
    BY <1>h, <1>1, <1>2, <2>1 DEF ConfirmWrite, Written, MaybeWritten
  <2>2. QED
    BY <1>1, <1>3, <2>1
<1>9. FinishRollback => phase = "rolled-back" /\ ~failed
  <2>1. ASSUME FinishRollback PROVE journal'[i] = [tx EXCEPT !.phase = "rolled-back"] /\ ~failed
    BY <1>h, <1>1, <1>2, <2>1 DEF FinishRollback, MayFinish, Written, MaybeWritten
  <2>2. QED
    BY <1>1, <1>3, <2>1
<1>10. cur \in Pending /\ tx = journal[cur]
  BY <1>7, Types DEF ConfirmWrite, FinishRollback, RollbackLabels
<1>11. QED
  BY <1>2, <1>7, <1>8, <1>9, <1>10

\* What the operator confirms is what selector, ownership and kernel hold when
\* the decision is recorded, although they were checked before (Confirm).
THEOREM ConfirmsWhatRuns == Spec => ConfirmedIsLive
<1>1. ASSUME IInv, HostInv, [Next]_vars, NEW i \in TxIds, Becomes(i, "confirmed")
      PROVE  LET g == journal[i].gen IN active = g /\ ownership = g /\ Holds(g)
  <2>1. tx = journal[i] /\ ConfirmWrite
    BY <1>1, Deciders DEF TerminalPhases
  <2>2. QED
    BY <1>1, <2>1 DEF ConfirmWrite, IInv, ConfirmInv, HostInv, KernelInv
<1>2. IInv /\ HostInv /\ [Next]_vars
        => [\A i \in TxIds : Becomes(i, "confirmed") =>
              LET g == journal[i].gen IN active = g /\ ownership = g /\ Holds(g)]_vars
  BY <1>1
<1>3. QED
  BY <1>2, HostInvariance, PTL DEF Spec, ConfirmedIsLive

\* A rollback is recorded only when selector, ownership, table, enablement and
\* DDNS timer are what they were, resumed as often as it may have been
\* (rollbackWithManager).
THEOREM RollbackRestores == Spec => RolledBackMeansRestored
<1> DEFINE Back(t) ==
      /\ active' = ownership' /\ fwEnabled' = t.wasEnabled
      /\ MutationsPossible(t) =>
           /\ active' = t.prev
           /\ IsStill(live', t.prev)
           /\ ddnsTimer' = (~FreshInstall(t) /\ DDNSOf[t.prev])
<1>1. ASSUME IInv, HostInv, [Next]_vars, NEW i \in TxIds, Becomes(i, "rolled-back")
      PROVE  Back(journal[i])
  <2>1. tx = journal[i] /\ FinishRollback /\ ~failed /\ i \in Pending
    BY <1>1, Deciders DEF TerminalPhases
  <2>2. pc = "rb-finish" /\ UNCHANGED <<active, ownership, live>>
    BY <2>1 DEF FinishRollback, runtime
  <2>3. UNCHANGED <<fwEnabled, ddnsTimer>>
    BY <2>1 DEF FinishRollback
  <2>4. active = ownership
    <3>1. CASE MutationsPossible(tx)
      BY <1>1, <2>1, <2>2, <3>1 DEF IInv, RollbackInv, LastLabels
    <3>2. CASE ~MutationsPossible(tx)
      BY <1>1, <2>1, <3>2 DEF IInv, PendingInv, UntouchedBase
    <3>3. QED
      BY <3>1, <3>2
  <2>5. fwEnabled = tx.wasEnabled
    BY <1>1, <2>1, <2>2, Zenon DEF HostInv, RestoredInv
  <2>6. MutationsPossible(tx) => active = tx.prev /\ Holds(tx.prev)
    BY <1>1, <2>1, <2>2 DEF IInv, RollbackInv, LastLabels, HostInv, RestoredInv
  <2>7. MutationsPossible(tx) => ddnsTimer = DDNSBefore
    BY <1>1, <2>1, <2>2, Zenon DEF HostInv, RestoredInv
  <2>8. DDNSBefore = (~FreshInstall(tx) /\ DDNSOf[tx.prev])
    <3>1. CASE FreshInstall(tx)
      BY <3>1, Zenon DEF DDNSBefore
    <3>2. CASE ~FreshInstall(tx)
      <4>1. DDNSOf[tx.prev] \in BOOLEAN
        BY <1>1, <3>2, Types, DDNSAssumption DEF Transaction, FreshInstall
      <4>2. QED
        BY <3>2, <4>1, Zenon DEF DDNSBefore
    <3>3. QED
      BY <3>1, <3>2
  <2>9. QED
    BY <2>1, <2>2, <2>3, <2>4, <2>5, <2>6, <2>7, <2>8, Zenon DEF Holds
<1>2. IInv /\ HostInv /\ [Next]_vars
        => [\A i \in TxIds : Becomes(i, "rolled-back") =>
              LET t == journal[i] IN
              /\ active' = ownership' /\ fwEnabled' = t.wasEnabled
              /\ MutationsPossible(t) =>
                   /\ active' = t.prev
                   /\ IsStill(live', t.prev)
                   /\ ddnsTimer' = (~FreshInstall(t) /\ DDNSOf[t.prev])]_vars
  BY <1>1, Zenon
<1>3. QED
  BY <1>2, HostInvariance, PTL DEF Spec, RolledBackMeansRestored

\* Selector and kernel take the candidate only under an armed dead-man timer,
\* provided that no command takes as long as the timer's two minutes.
THEOREM TrialUnderTimer ==
  ASSUME "slow" \notin Env PROVE Spec => CandidateUnderDeadMan
<1>1. ASSUME IInv, HostInv, [Next]_vars, NEW i \in Pending,
             \/ active' # active /\ active' = journal[i].gen
             \/ live' # live /\ live' = journal[i].gen
      PROVE  timers[i] = "armed"
  <2>g. journal[i].gen \in Gens /\ journal[i].prev # journal[i].gen
    BY <1>1 DEF IInv, PendingInv, SoundTx
  <2>1. SelectCandidate \/ ActivateCandidate
    <3>1. CASE active' # active /\ active' = journal[i].gen
      <4>1. CASE SelectPrevious
        <5>1. cur \in Pending /\ tx = journal[cur] /\ active' \in {active, tx.prev}
          BY <1>1, <4>1, Types DEF SelectPrevious, RollbackLabels
        <5>2. i = cur
          BY <1>1, <5>1, OnlyOne
        <5>3. QED
          BY <2>g, <3>1, <5>1, <5>2
      <4>2. CASE RemoveSelector
        BY <2>g, <3>1, <4>2, SentinelAssumption DEF RemoveSelector, SelectorAfterRemoval
      <4>3. QED
        BY <1>1, <3>1, <4>1, <4>2, SelectorSteps
    <3>2. CASE live' # live /\ live' = journal[i].gen
      <4>1. CASE LoadPrevious
        <5>1. cur \in Pending /\ tx = journal[cur] /\ live' \in {live, tx.prev}
          BY <1>1, <4>1, Types DEF LoadPrevious, RollbackLabels
        <5>2. i = cur
          BY <1>1, <5>1, OnlyOne
        <5>3. QED
          BY <2>g, <3>2, <5>1, <5>2
      <4>2. CASE BootFirewall
        BY <1>1, <3>2, <4>2 DEF BootFirewall, FirewallUnitRuns, HostInv, ReconcileInv
      <4>3. CASE DeleteTable \/ Reboot \/ ExternalDelete \/ ForeignAppears
        BY <2>g, <3>2, <4>3, SentinelAssumption
        DEF InspectTable, DeleteTable, Reboot, ExternalDelete, ForeignAppears
      <4>4. QED
        BY <1>1, <3>2, <4>1, <4>2, <4>3, LiveStep
    <3>3. QED
      BY <1>1, <3>1, <3>2
  <2>2. pc \in SinceActivating /\ cur \in Pending
    BY <1>1, <2>1, Types DEF SelectCandidate, ActivateCandidate, SinceActivating
  <2>3. i = cur
    BY <1>1, <2>2, OnlyOne
  <2>4. QED
    BY <1>1, <2>2, <2>3 DEF HostInv, DeadManInv
<1>2. IInv /\ HostInv /\ [Next]_vars
        => [\A i \in Pending :
              \/ active' # active /\ active' = journal[i].gen
              \/ live' # live /\ live' = journal[i].gen
              => timers[i] = "armed"]_vars
  BY <1>1
<1>3. QED
  BY <1>2, HostInvariance, PTL DEF Spec, CandidateUnderDeadMan

\* Another program's table that apply or a rollback begins over survives it: none
\* of the steps that load or delete a table is reached (checkOwnership, the marker
\* check of rollbackWithManager, updateRollbackStage).
THEOREM ForeignKept == Spec => ForeignUntouched
<1>1. ASSUME IInv, HostInv, [Next]_vars, met
      PROVE  live' = Foreign \/ (live' = None /\ faults' > faults)
  <2>h. None # Foreign /\ faults \in Nat /\ live = Foreign /\ pc \notin BeforeLoad
    BY <1>1, SentinelAssumption DEF IInv, TypeOK, HostType, HostInv, KernelInv
  <2>1. CASE live' = live
    BY <2>h, <2>1
  <2>2. CASE live' # live
    <3>1. Reboot \/ ExternalDelete
      BY <1>1, <2>h, <2>2, LiveStep DEF BeforeLoad, ActivateCandidate, LoadPrevious,
         DeleteTable, BootFirewall, Idle, ForeignAppears
    <3>2. QED
      BY <2>h, <3>1 DEF Reboot, ExternalDelete, Fault
  <2>3. QED
    BY <2>1, <2>2
<1>2. IInv /\ HostInv /\ [Next]_vars
        => [met => live' = Foreign \/ (live' = None /\ faults' > faults)]_vars
  BY <1>1
<1>3. QED
  BY <1>2, HostInvariance, PTL DEF Spec, ForeignUntouched

-----------------------------------------------------------------------------
(* What one fault leaves.  The theorems of this part are about behaviours with   *)
(* at most one fault (MaxFaults <= 1): OneFaultInv (ActivationProperties) is      *)
(* inductive together with IInv and HostInv.                                     *)

-----------------------------------------------------------------------------
(* Faults, and the stages an update rollback recognises.                      *)

LEMMA FaultsCount ==
  ASSUME IInv, [Next]_vars
  PROVE  faults \in Nat /\ faults' \in {faults, faults + 1}
<1>1. faults \in Nat
  BY DEF IInv, TypeOK, HostType
<1>2. QED
  BY <1>1 DEF Next, CommandStep, OperatorStep, SystemdStep, ApplyStep, RollbackStep,
         MakeTransactionDir, WritePrepared, ArmRollback, MarkArmed, MarkActivating,
         MarkActivated, Mark, SelectCandidate, OwnCandidate, ActivateCandidate,
         ReconcileDDNSTimer, EnableFirewall, RecoverApply, CancelRollback, InspectTable, DeleteTable,
         RemoveSelector, RemoveOwnership, FindStage, SelectPrevious, LoadPrevious,
         OwnPrevious, CheckRestored, RestoreEnablement, RestoreDDNSTimer, FinishRollback,
         ConfirmWrite, ReconcileNext, ReconcileEnd, PassStart, PassEnd, ApplyStart,
         ApplyAlreadyActive, ConfirmStart, OperatorRollback, ReconcileStart, TimerElapses, DeadlineMissed,
         BootFirewall, Kill, Reboot, ExternalDelete, ForeignAppears, Fault, NoFault, vars

\* A fault that strikes is the first one.
LEMMA FirstFault ==
  ASSUME MaxFaults <= 1, faults \in Nat, NEW kind, Fault(kind) PROVE faults = 0 /\ faults' = 1
  BY FaultAssumption DEF Fault

\* What updateRollbackStage makes of each state a single fault can leave.
LEMMA Stages ==
  ASSUME NEW t, t.gen # t.prev, t.gen # None, t.prev # None
  PROVE  /\ active = t.gen /\ ownership = t.gen /\ live \in {None, t.gen}
              => UpdateRollbackStage(t) = {0}
         /\ active = t.prev /\ ownership = t.prev /\ live = t.prev
              => UpdateRollbackStage(t) = {3}
         /\ active = t.gen /\ live = t.prev => UpdateRollbackStage(t) = {}
         /\ active = t.gen /\ ownership = t.prev /\ live = None
              => UpdateRollbackStage(t) = {}
         /\ active = t.prev /\ ownership \in {t.gen, t.prev} /\ live = None
              => UpdateRollbackStage(t) = {1}
  BY DEF UpdateRollbackStage, StageWithTable, StageWithoutTable, TableAbsent

-----------------------------------------------------------------------------
(* Callers *)

LEMMA CallerStep == ASSUME IInv, HostInv, CallerInv, [Next]_vars PROVE CallerInv'
<1>e. CASE Exit
  BY <1>e DEF CallerInv, Exit
<1>w. WhoInv
  BY DEF HostInv
<1>1. caller' = "unit" => ~reconciled'
  <2>1. reconciled' = reconciled \/ Exit
    BY DEF Next, CommandStep, OperatorStep, SystemdStep, ApplyStep, RollbackStep,
         MakeTransactionDir, WritePrepared, ArmRollback, MarkArmed, MarkActivating,
         MarkActivated, Mark, SelectCandidate, OwnCandidate, ActivateCandidate,
         ReconcileDDNSTimer, EnableFirewall, RecoverApply, CancelRollback, InspectTable, DeleteTable,
         RemoveSelector, RemoveOwnership, FindStage, SelectPrevious, LoadPrevious,
         OwnPrevious, CheckRestored, RestoreEnablement, RestoreDDNSTimer, FinishRollback,
         ConfirmWrite, ReconcileNext, ReconcileEnd, PassStart, PassEnd, ApplyStart,
         ApplyAlreadyActive, ConfirmStart, OperatorRollback, ReconcileStart, TimerElapses, DeadlineMissed,
         BootFirewall, Kill, Reboot, ExternalDelete, ForeignAppears, runtime, vars
  <2>2. caller' = caller \/ caller' # "unit" \/ ReconcileStart("unit")
    BY DEF Next, CommandStep, OperatorStep, SystemdStep, ApplyStep, RollbackStep,
         MakeTransactionDir, WritePrepared, ArmRollback, MarkArmed, MarkActivating,
         MarkActivated, Mark, SelectCandidate, OwnCandidate, ActivateCandidate,
         ReconcileDDNSTimer, EnableFirewall, RecoverApply, CancelRollback, InspectTable, DeleteTable,
         RemoveSelector, RemoveOwnership, FindStage, SelectPrevious, LoadPrevious,
         OwnPrevious, CheckRestored, RestoreEnablement, RestoreDDNSTimer, FinishRollback,
         ConfirmWrite, ReconcileNext, ReconcileEnd, PassStart, PassEnd, ApplyStart,
         ApplyAlreadyActive, ConfirmStart, OperatorRollback, ReconcileStart, TimerElapses, DeadlineMissed,
         TimerStarts, BootFirewall, Kill, Reboot, ExternalDelete, ForeignAppears, Goto, Exit,
         Collect, RollbackReturns, EnterRollback, process, running, vars
  <2>3. QED
    BY <1>e, <2>1, <2>2 DEF CallerInv, ReconcileStart, runtime
<1>2. pc' = "cf-write" => caller' = "confirm"
  BY ConfirmLabel DEF CallerInv, ConfirmStart, process, running
<1>3. pc' = "pass" => caller' = "other"
  <2>1. pc' = "pass" => PassStart \/ UNCHANGED running
    <3>1. pc' = "pass" =>
            /\ ~(ApplyStep \/ RollbackStep \/ ConfirmWrite \/ Exit)
            /\ \A i \in TxIds : ~ConfirmStart(i)
            /\ \A g \in Gens, i \in TxIds : ~ApplyStart(g, i)
            /\ \A c \in {"unit", "reconcile"} : ~ReconcileStart(c)
            /\ \A i, c, rest : ~EnterRollback(i, c, rest)
      BY StageRange
      DEF ApplyStep, MakeTransactionDir, WritePrepared, ArmRollback, MarkArmed, MarkActivating,
        MarkActivated, Mark, SelectCandidate, OwnCandidate, ActivateCandidate,
        ReconcileDDNSTimer, EnableFirewall, RecoverApply, CancelRollback,
        RollbackStep, InspectTable, DeleteTable, RemoveSelector, RemoveOwnership, FindStage,
        SelectPrevious, LoadPrevious, OwnPrevious, CheckRestored, RestoreEnablement,
        RestoreDDNSTimer, FinishRollback, Goto, Collect, RollbackReturns, Exit, ConfirmWrite,
        ConfirmStart, ApplyStart, ReconcileStart, EnterRollback, FirstStep
    <3>2. QED
      BY <3>1, ProcessStep
  <2>2. QED
    BY <2>1 DEF CallerInv, PassStart, running
<1>4. QED
  BY <1>1, <1>2, <1>3 DEF CallerInv

-----------------------------------------------------------------------------
(* The apply that succeeds; no bound on faults.                               *)

\* How a process gets to a step after "activating" was recorded.
LEMMA TrialLabel ==
  ASSUME [Next]_vars, pc' \in SinceActivating
  PROVE  UNCHANGED running \/ ApplyStep
<1>1. ~(RollbackStep \/ Exit \/ ConfirmWrite \/ PassStart)
      /\ (\A i \in TxIds : ~ConfirmStart(i))
      /\ (\A c \in {"unit", "reconcile"} : ~ReconcileStart(c))
      /\ (\A i, c, rest : ~EnterRollback(i, c, rest))
      /\ (\A g \in Gens, i \in TxIds : ~ApplyStart(g, i))
  BY StageRange
  DEF RollbackStep, InspectTable, DeleteTable, RemoveSelector, RemoveOwnership, FindStage,
      SelectPrevious, LoadPrevious, OwnPrevious, CheckRestored, RestoreEnablement,
      RestoreDDNSTimer, FinishRollback, Goto, Collect, RollbackReturns, Exit, ConfirmWrite,
      PassStart, ConfirmStart, ReconcileStart, EnterRollback, FirstStep, ApplyStart,
      SinceActivating
<1>2. QED
  BY <1>1, ProcessStep

\* Ownership changes only in three steps.
LEMMA OwnershipSteps ==
  ASSUME [Next]_vars, ownership' # ownership
  PROVE  OwnCandidate \/ RemoveOwnership \/ OwnPrevious
  BY DEF Next, CommandStep, OperatorStep, SystemdStep, ApplyStep, RollbackStep,
         MakeTransactionDir, WritePrepared, ArmRollback, MarkArmed, MarkActivating,
         MarkActivated, Mark, SelectCandidate, ActivateCandidate,
         ReconcileDDNSTimer, EnableFirewall, RecoverApply, CancelRollback, InspectTable, DeleteTable,
         RemoveSelector, FindStage, SelectPrevious, LoadPrevious,
         CheckRestored, RestoreEnablement, RestoreDDNSTimer, FinishRollback,
         ConfirmWrite, ReconcileNext, ReconcileEnd, PassStart, PassEnd, ApplyStart,
         ApplyAlreadyActive, ConfirmStart, OperatorRollback, ReconcileStart, TimerElapses, DeadlineMissed,
         BootFirewall, Kill, Reboot, ExternalDelete, ForeignAppears, durable, vars

LEMMA TrialStep == ASSUME IInv, TrialInv, [Next]_vars PROVE TrialInv'
<1>t. tx \in Transaction
  BY Types
<1>n. CASE pc' \notin SinceActivating
  BY <1>n DEF TrialInv, SinceActivating
<1>1. CASE UNCHANGED running /\ pc' \in SinceActivating
  <2>1. UNCHANGED <<pc, tx>> /\ pc \in SinceActivating /\ pc # "idle"
    BY <1>1 DEF process, running, SinceActivating
  <2>2. Drift /\ UNCHANGED <<active, ddnsTimer>>
    BY <1>1, <2>1, Bystander
  <2>3. ownership' = ownership
    BY <2>1, <1>1, OwnershipSteps
    DEF OwnCandidate, RemoveOwnership, OwnPrevious, SinceActivating, Goto, process, running, Collect,
        RollbackReturns, Exit
  <2>4. pc \in {"mark-activated", "ddns", "enable"} => IsStill(live', tx.gen)
    BY <2>2, DriftsFrom DEF TrialInv, Holds
  <2>5. QED
    BY <2>1, <2>2, <2>3, <2>4 DEF TrialInv, Holds
<1>2. CASE pc' \in SinceActivating /\ (MarkActivating \/ MarkActivated)
  BY <1>2, <1>t
  DEF MarkActivating, MarkActivated, Mark, TrialInv, Holds, runtime, PhaseBeforeSelect,
      Transaction, SinceActivating
<1>3. CASE pc' \in SinceActivating
           /\ (SelectCandidate \/ OwnCandidate \/ ActivateCandidate \/ ReconcileDDNSTimer)
  BY <1>3
  DEF SelectCandidate, OwnCandidate, ActivateCandidate, ReconcileDDNSTimer, Goto, TrialInv,
      Holds, IsStill, runtime, durable, SinceActivating
<1>4. ASSUME pc' \in SinceActivating, ApplyStep
      PROVE  \/ MarkActivating \/ MarkActivated \/ SelectCandidate \/ OwnCandidate
             \/ ActivateCandidate \/ ReconcileDDNSTimer
  BY <1>4
  DEF ApplyStep, MakeTransactionDir, WritePrepared, ArmRollback, MarkArmed, Mark,
      EnableFirewall, RecoverApply, CancelRollback, Goto, Exit, FirstStep, SinceActivating
<1>5. QED
  BY <1>n, <1>1, <1>2, <1>3, <1>4, TrialLabel

-----------------------------------------------------------------------------
(* No fault yet                                                               *)

\* What the label claims of a pending transaction that met no fault.
OnCourse(t) ==
  /\ ReturnsToApproved(t) /\ Switching(t)
  /\ pc \in RestingLabels => fwEnabled
  /\ pc \in RestingLabels \cup RollbackLabels => t.phase = "activated"

\* What holds before a step of the faultless behaviour, and of the lock holder.
LEMMA Faultless ==
  ASSUME IInv, HostInv, OneFaultInv, faults = 0
  PROVE  /\ reconciled /\ host = "up" /\ ~failed /\ ~errs /\ pc # "recover"
         /\ caller # "unit"
         /\ Pending = {} => Approved /\ ownership = approved /\ live = approved
         /\ pc \in {"mkdir", "prepare"} => ReturnsToApproved(tx) /\ Pending = {}
         /\ \A i \in Pending : OnCourse(journal[i])
         /\ pc \in BeforeActivating \cup SinceActivating \cup RollbackLabels \cup {"cf-write"}
              => OnCourse(tx) /\ tx = journal[cur] /\ cur \in Pending
                 /\ tx.gen # tx.prev /\ tx.gen \in Gens /\ tx.gen # None
<1>1. \A i \in Pending : OnCourse(journal[i])
  BY DEF OneFaultInv, FaultlessInv, OnCourse
<1>2. \A i \in Pending : SoundTx(journal[i])
  BY DEF IInv, PendingInv
<1>3. pc \in BeforeActivating \cup SinceActivating \cup RollbackLabels \cup {"cf-write"}
        => tx = journal[cur] /\ cur \in Pending
  BY Types
<1>4. QED
  BY <1>1, <1>2, <1>3, SentinelAssumption
  DEF OneFaultInv, FaultlessInv, CallerInv, SoundTx, IInv, StartInv

LEMMA FaultlessStep ==
  ASSUME MaxFaults <= 1, IInv, HostInv, OneFaultInv, [Next]_vars PROVE FaultlessInv'
<1> SUFFICES ASSUME faults' = 0 PROVE FaultlessInv'
  BY DEF FaultlessInv
<1>z. faults = 0 /\ (\A kind : ~Fault(kind))
  BY FaultsCount DEF Fault
<1>f. /\ reconciled /\ host = "up" /\ ~failed /\ ~errs /\ pc # "recover"
      /\ caller # "unit"
      /\ Pending = {} => Approved /\ ownership = approved /\ live = approved
      /\ pc \in {"mkdir", "prepare"} => ReturnsToApproved(tx) /\ Pending = {}
      /\ \A i \in Pending : OnCourse(journal[i])
      /\ pc \in BeforeActivating \cup SinceActivating \cup RollbackLabels \cup {"cf-write"}
           => OnCourse(tx) /\ tx = journal[cur] /\ cur \in Pending
              /\ tx.gen # tx.prev /\ tx.gen \in Gens /\ tx.gen # None
  BY <1>z, Faultless
<1>t. journal \in [TxIds -> Transaction] /\ tx \in Transaction
  BY Types
<1>b. ~failed /\ ~errs
  BY <1>f
\* The invariant after a step, from its parts.
<1>g. ASSUME reconciled', host' = "up", ~failed', ~errs', pc' # "recover",
             Pending' = {} => Approved' /\ ownership' = approved' /\ live' = approved',
             pc' \in {"mkdir", "prepare"} => ReturnsToApproved(tx)',
             \A i \in Pending' : OnCourse(journal[i])'
      PROVE  FaultlessInv'
  BY <1>g DEF FaultlessInv, OnCourse
\* Steps that leave all of it alone.
<1>r. ASSUME UNCHANGED <<journal, active, ownership, live, fwEnabled, approved, reconciled, host>>,
             ~failed', ~errs',
             (pc' = pc /\ tx' = tx) \/ (pc \in RestingLabels /\ pc' \in RestingLabels)
      PROVE  FaultlessInv'
  <2>1. Pending' = Pending
    BY <1>r DEF Pending
  <2>2. Pending' = {} => Approved' /\ ownership' = approved' /\ live' = approved'
    BY <1>f, <1>r, <2>1 DEF Approved
  <2>3. pc' # "recover" /\ (pc' \in {"mkdir", "prepare"} => ReturnsToApproved(tx)')
    BY <1>f, <1>r DEF ReturnsToApproved, RestingLabels
  <2>4. ASSUME NEW i \in Pending' PROVE OnCourse(journal[i])'
    <3>1. OnCourse(journal[i])
      BY <1>f, <2>1
    <3>2. ReturnsToApproved(journal[i])' /\ (pc' \in RestingLabels => fwEnabled')
      BY <3>1, <1>r DEF OnCourse, ReturnsToApproved
    <3>3. Switching(journal[i])'
      BY <3>1, <1>r DEF OnCourse, Switching, RestingLabels, TriedLabels, SelectedLabels,
         OwnedLabels, LoadedLabels
    <3>4. pc' \in RestingLabels \cup RollbackLabels => journal'[i].phase = "activated"
      BY <3>1, <1>r DEF OnCourse
    <3>5. QED
      BY <3>2, <3>3, <3>4 DEF OnCourse
  <2>5. QED
    BY <1>f, <1>g, <1>r, <2>2, <2>3, <2>4
\* A rollback begins.
<1>e. ASSUME NEW i \in TxIds, NEW c, NEW rest, HasState(i), EnterRollback(i, c, rest),
             pc \in RestingLabels,
             UNCHANGED <<journal, active, ownership, live, fwEnabled, approved, reconciled, host>>
      PROVE  FaultlessInv'
  <2>0. ~failed' /\ ~errs'
    BY <1>e, <1>f DEF EnterRollback
  <2>1. CASE AlreadySettled(journal[i])
    <3>1. pc' \in RestingLabels
      BY <1>e, <2>1 DEF EnterRollback, RestingLabels
    <3>2. QED
      BY <1>e, <1>r, <2>0, <3>1
  <2>2. CASE ~AlreadySettled(journal[i])
    <3>1. i \in Pending
      BY <1>e, <1>t, <2>2 DEF AlreadySettled, HasState, Pending, Transaction, Phases
    <3>2. OnCourse(journal[i]) /\ MutationsPossible(journal[i])
      BY <1>e, <1>f, <3>1 DEF OnCourse, MutationsPossible
    <3>3. pc' \in {"rb-table", "rb-stage"}
      BY <1>e, <2>2, <3>2 DEF EnterRollback, FirstStep
    <3>4. Pending' = Pending /\ (\A j \in Pending : j = i)
      BY <1>e, <3>1 DEF Pending, IInv, AtMostOnePending
    <3>5. OnCourse(journal[i])'
      <4>1. ReturnsToApproved(journal[i])' /\ journal'[i].phase = "activated"
        BY <1>e, <3>2 DEF OnCourse, ReturnsToApproved
      <4>2. Switching(journal[i])'
        BY <1>e, <3>2, <3>3 DEF OnCourse, Switching, RestingLabels, TriedLabels, SelectedLabels,
           OwnedLabels, LoadedLabels
      <4>3. QED
        BY <3>3, <4>1, <4>2 DEF OnCourse, RestingLabels
    <3>6. QED
      BY <1>e, <1>f, <1>g, <2>0, <3>1, <3>3, <3>4, <3>5
  <2>3. QED
    BY <2>1, <2>2
\* The lock holder's step leaves the transaction pending.
<1>c. ASSUME cur \in Pending, Pending' = {cur}, UNCHANGED <<cur, approved, reconciled, host>>,
             ~failed', ~errs', pc' \notin {"recover", "mkdir", "prepare"}, OnCourse(journal[cur])'
      PROVE  FaultlessInv'
  <2>1. \A i \in Pending' : OnCourse(journal[i])'
    BY <1>c
  <2>2. QED
    BY <1>c, <1>f, <1>g, <2>1
\* The lock holder's step ends the transaction.
<1>d. ASSUME Pending' = {}, UNCHANGED <<reconciled, host>>, ~failed', ~errs', pc' \in RestingLabels,
             Approved', ownership' = approved', live' = approved'
      PROVE  FaultlessInv'
  BY <1>d, <1>f, <1>g DEF RestingLabels
<1>0. CASE UNCHANGED vars
  <2>1. /\ UNCHANGED <<journal, active, ownership, live, fwEnabled, approved, reconciled, host>>
        /\ pc' = pc /\ tx' = tx /\ failed' = failed /\ errs' = errs
    BY <1>0 DEF vars, durable, runtime, process, running
  <2>2. ~failed' /\ ~errs'
    BY <1>b, <2>1, Zenon
  <2>3. QED
    BY <1>r, <2>1, <2>2
<1>1. CASE ApplyStep
  <2>1. CASE MakeTransactionDir
    <3>1. /\ pc = "mkdir" /\ pc' = "prepare" /\ UNCHANGED <<tx, failed, errs, reconciled, host>>
          /\ UNCHANGED <<active, ownership, live, fwEnabled, approved>>
          /\ Written([NoTx EXCEPT !.phase = "dir"])
      BY <1>z, <2>1 DEF MakeTransactionDir, Goto, runtime
    <3>2. Pending = {} /\ ReturnsToApproved(tx)
      BY <1>f, <3>1
    <3>3. Pending' = {}
      BY <1>t, <3>1, <3>2 DEF Written, Pending, PendingPhases, NoTx
    <3>4. QED
      BY <1>f, <1>g, <3>1, <3>2, <3>3 DEF Approved, ReturnsToApproved
  <2>2. CASE WritePrepared
    <3>1. /\ pc = "prepare" /\ pc' = "arm" /\ UNCHANGED <<tx, cur, failed, errs, reconciled, host>>
          /\ UNCHANGED <<active, ownership, live, fwEnabled, approved>>
          /\ Written(tx)
      BY <1>z, <2>2 DEF WritePrepared, Goto, runtime
    <3>2. Pending = {} /\ ReturnsToApproved(tx) /\ cur \in TxIds
      BY <1>f, <3>1 DEF IInv, StartInv
    <3>3. journal' = [journal EXCEPT ![cur] = tx] /\ \A i \in Pending' : i = cur
      BY <3>1, <3>2 DEF Written, Pending
    <3>4. journal'[cur] = tx
      BY <1>t, <3>2, <3>3
    <3>5. active = tx.prev /\ ownership = tx.prev /\ live = tx.prev
      BY <1>f, <3>2 DEF Approved, ReturnsToApproved
    <3>6. Switching(journal[cur])'
      BY <3>1, <3>4, <3>5, <3>2 DEF Switching, SelectedLabels, OwnedLabels, LoadedLabels, TriedLabels,
         RestingLabels
    <3>7. OnCourse(journal[cur])'
      BY <3>1, <3>2, <3>4, <3>6 DEF OnCourse, ReturnsToApproved, RestingLabels, RollbackLabels
    <3>8. Pending' # {}
      BY <3>1, <3>2, <3>4 DEF Pending, IInv, StartInv, PendingPhases
    <3>9. QED
      BY <1>f, <1>g, <3>1, <3>3, <3>7, <3>8
  <2>3. CASE ArmRollback
    <3>1. /\ pc = "arm" /\ pc' = "mark-armed" /\ UNCHANGED <<tx, cur, failed, errs, reconciled, host>>
          /\ UNCHANGED <<journal, active, ownership, live, fwEnabled, approved>>
      BY <1>z, <2>3 DEF ArmRollback, Goto, durable
    <3>2. OnCourse(tx) /\ tx = journal[cur] /\ cur \in Pending
      BY <1>f, <3>1 DEF BeforeActivating
    <3>3. QED
      BY <1>c, <1>f, <3>1, <3>2
      DEF OnCourse, ReturnsToApproved, Switching, SelectedLabels, OwnedLabels, LoadedLabels,
          TriedLabels, RestingLabels, RollbackLabels, Pending, IInv, AtMostOnePending
  <2>4. ASSUME NEW label, NEW phase, NEW next, Mark(label, phase, next),
               <<label, phase, next>> \in {<<"mark-armed", "armed", "mark-activating">>,
                                          <<"mark-activating", "activating", "select">>,
                                          <<"mark-activated", "activated", "ddns">>}
        PROVE  FaultlessInv'
    <3>1. /\ pc = label /\ pc' = next /\ UNCHANGED <<cur, failed, errs, reconciled, host>>
          /\ UNCHANGED <<active, ownership, live, fwEnabled, approved>>
          /\ journal' = [journal EXCEPT ![cur] = [tx EXCEPT !.phase = phase]]
      BY <1>z, <2>4 DEF Mark, Written, runtime
    <3>2. OnCourse(tx) /\ tx = journal[cur] /\ cur \in Pending
      BY <1>f, <2>4, <3>1 DEF BeforeActivating, SinceActivating
    <3>3. journal'[cur] = [tx EXCEPT !.phase = phase] /\ cur \in TxIds
      BY <1>t, <3>1, <3>2 DEF Pending
    <3>4. journal'[cur].gen = tx.gen /\ journal'[cur].prev = tx.prev
          /\ journal'[cur].wasEnabled = tx.wasEnabled /\ journal'[cur].phase = phase
      BY <1>t, <3>3 DEF Transaction
    <3>5. Pending' = {cur}
      BY <2>4, <3>1, <3>2, <3>3, <3>4 DEF Pending, PendingPhases, IInv, AtMostOnePending
    <3>6. OnCourse(journal[cur])'
      BY <2>4, <3>1, <3>2, <3>4
      DEF OnCourse, ReturnsToApproved, Switching, SelectedLabels, OwnedLabels, LoadedLabels,
          TriedLabels, RestingLabels, RollbackLabels
    <3>7. QED
      BY <1>c, <1>f, <2>4, <3>1, <3>2, <3>5, <3>6
  <2>5. CASE MarkArmed \/ MarkActivating \/ MarkActivated
    BY <2>4, <2>5 DEF MarkArmed, MarkActivating, MarkActivated, PhaseBeforeSelect
  <2>6. CASE SelectCandidate \/ OwnCandidate \/ ActivateCandidate \/ ReconcileDDNSTimer
             \/ EnableFirewall
    <3>1. /\ pc \in SinceActivating /\ UNCHANGED <<journal, reconciled, host, approved>>
          /\ pc' \notin {"recover", "mkdir", "prepare"}
      BY <1>f, <1>z, <2>6
      DEF SelectCandidate, OwnCandidate, ActivateCandidate, ReconcileDDNSTimer, EnableFirewall,
          SinceActivating, Goto, Exit, durable, runtime
    <3>0. ~failed' /\ ~errs'
      <4>1. (failed' = failed /\ errs' = errs) \/ (failed' = FALSE /\ errs' = FALSE)
        BY <2>6
        DEF SelectCandidate, OwnCandidate, ActivateCandidate, ReconcileDDNSTimer, EnableFirewall,
            Goto, Exit
      <4>2. QED
        BY <1>b, <4>1
    <3>2. OnCourse(tx) /\ tx = journal[cur] /\ cur \in Pending
      BY <1>f, <3>1
    <3>3. Pending' = {cur} /\ \A i \in Pending : i = cur
      BY <3>1, <3>2 DEF Pending, IInv, AtMostOnePending
    <3>4. Switching(tx) /\ (pc = "enable" => tx.phase = "activated")
      BY <3>2 DEF OnCourse, OneFaultInv, TrialInv
    <3>5. journal' = journal /\ journal'[cur] = tx
      BY <3>1, <3>2
    <3>6. active' = (IF pc' \in SelectedLabels THEN tx.gen ELSE tx.prev)
          /\ ownership' = (IF pc' \in OwnedLabels THEN tx.gen ELSE tx.prev)
          /\ live' = (IF pc' \in LoadedLabels THEN tx.gen ELSE tx.prev)
      BY <1>f, <1>z, <2>6, <3>4
      DEF SelectCandidate, OwnCandidate, ActivateCandidate, ReconcileDDNSTimer, EnableFirewall,
          Goto, Exit, durable, runtime, Switching, SelectedLabels, OwnedLabels, LoadedLabels,
          TriedLabels, RestingLabels
    <3>7. /\ pc' \in RestingLabels => fwEnabled'
          /\ pc' \in RestingLabels \cup RollbackLabels => tx.phase = "activated"
      BY <1>f, <1>z, <2>6, <3>4
      DEF SelectCandidate, OwnCandidate, ActivateCandidate, ReconcileDDNSTimer, EnableFirewall,
          EnablementAfterApply, Goto, Exit, RestingLabels, RollbackLabels
    <3>8. \A i \in Pending' : OnCourse(journal[i])'
      BY <3>1, <3>2, <3>3, <3>5, <3>6, <3>7 DEF OnCourse, ReturnsToApproved, Switching
    <3>9. QED
      BY <1>f, <1>g, <3>0, <3>1, <3>3, <3>8
  <2>7. CASE RecoverApply
    BY <1>f, <2>7 DEF RecoverApply
  <2>8. CASE CancelRollback
    BY <1>r, <2>8 DEF CancelRollback, Exit, durable, RestingLabels
  <2>9. QED
    BY <1>1, <2>1, <2>2, <2>3, <2>5, <2>6, <2>7, <2>8 DEF ApplyStep
<1>2. CASE RollbackStep
  <2>1. /\ pc \in RollbackLabels /\ UNCHANGED <<reconciled, host, approved>>
    BY <1>2
    DEF RollbackStep, InspectTable, DeleteTable, RemoveSelector, RemoveOwnership, FindStage,
      SelectPrevious, LoadPrevious, OwnPrevious, CheckRestored, RestoreEnablement,
      RestoreDDNSTimer, FinishRollback, RollbackLabels, runtime
  <2>2. /\ Switching(tx) /\ ReturnsToApproved(tx) /\ tx.phase = "activated"
        /\ tx = journal[cur] /\ cur \in Pending /\ MutationsPossible(tx)
        /\ tx.gen # tx.prev /\ tx.gen \in Gens /\ tx.gen # None
    BY <1>f, <2>1 DEF OnCourse, MutationsPossible
  <2>3. /\ pc \in FreshLabels => tx.prev = None
        /\ pc \in UpdateLabels => tx.prev # None
    BY DEF IInv, RollbackInv, FreshInstall
  <2>4. \A i \in Pending : i = cur
    BY <2>2 DEF IInv, AtMostOnePending
\* A step within the rollback.
  <2>5. ASSUME pc' \in RollbackLabels, UNCHANGED <<cur, journal>>, ~failed', ~errs',
               active' = IF pc' \in SelectedLabels THEN tx.gen ELSE tx.prev,
               ownership' = IF pc' \in OwnedLabels THEN tx.gen ELSE tx.prev,
               live' = IF pc' \in LoadedLabels THEN tx.gen ELSE tx.prev
        PROVE  FaultlessInv'
    <3>1. Pending' = {cur} /\ pc' \notin {"recover", "mkdir", "prepare"} /\ pc' \notin RestingLabels
      BY <2>2, <2>4, <2>5 DEF Pending, RollbackLabels, RestingLabels
    <3>2. OnCourse(journal[cur])'
      BY <2>1, <2>2, <2>5, <3>1 DEF OnCourse, ReturnsToApproved, Switching
    <3>3. QED
      BY <1>c, <2>1, <2>2, <2>5, <3>1, <3>2
  <2>6. CASE InspectTable \/ DeleteTable \/ RemoveSelector \/ RemoveOwnership
    <3>0. live \in {tx.gen, None} /\ (pc \in {"rb-table", "rb-delete"} => live # None)
      BY <2>2, <2>3, <2>6
      DEF InspectTable, DeleteTable, RemoveSelector, RemoveOwnership, Switching, FreshLabels,
          LoadedLabels, TriedLabels, RestingLabels
    <3>1. /\ pc' \in RollbackLabels /\ UNCHANGED <<cur, journal>>
          /\ active' = IF pc' \in SelectedLabels THEN tx.gen ELSE tx.prev
          /\ ownership' = IF pc' \in OwnedLabels THEN tx.gen ELSE tx.prev
          /\ live' = IF pc' \in LoadedLabels THEN tx.gen ELSE tx.prev
      BY <1>z, <2>2, <2>3, <2>6, <3>0
      DEF InspectTable, DeleteTable, RemoveSelector, RemoveOwnership, Collect, TableMayGo,
          TableAbsent, SelectorAfterRemoval, Switching, FreshLabels, RollbackLabels, SelectedLabels,
          OwnedLabels, LoadedLabels, TriedLabels, RestingLabels, durable, runtime
    <3>2. (failed' = (failed \/ ~TRUE)) /\ errs' = errs
      BY <1>z, <2>2, <2>3, <2>6, <3>0
      DEF InspectTable, DeleteTable, RemoveSelector, RemoveOwnership, Collect, TableMayGo,
          TableAbsent, Switching, FreshLabels, SelectedLabels, OwnedLabels, LoadedLabels, TriedLabels,
          RestingLabels
    <3>3. ~failed' /\ ~errs'
      BY <1>b, <3>2
    <3>4. QED
      BY <2>5, <3>1, <3>3
  <2>7. CASE FindStage \/ SelectPrevious \/ LoadPrevious \/ OwnPrevious \/ CheckRestored
    <3>1. /\ pc = "rb-stage" => UpdateRollbackStage(tx) = {0}
          /\ pc = "rb-check" => UpdateRollbackStage(tx) = {3}
      BY <2>2, <2>3, Stages
      DEF Switching, UpdateLabels, SelectedLabels, OwnedLabels, LoadedLabels, TriedLabels,
          RestingLabels
    <3>2. FindStage => Goto("rb-select") /\ UNCHANGED <<journal, active, ownership, live>>
      <4>1. AfterStage(0) = "rb-select"
        BY DEF AfterStage
      <4>2. FindStage => \E s \in {0} : Goto(AfterStage(s))
        BY <1>z, <3>1 DEF FindStage
      <4>3. QED
        BY <4>1, <4>2 DEF FindStage, durable, runtime
    <3>3. CheckRestored => Goto("rb-enable") /\ UNCHANGED <<journal, active, ownership, live>>
      BY <1>z, <3>1 DEF CheckRestored, durable, runtime
    <3>4. /\ UNCHANGED <<cur, journal>> /\ failed' = failed /\ errs' = errs
          /\ pc' \in RollbackLabels
      BY <1>z, <2>7, <3>2, <3>3
      DEF SelectPrevious, LoadPrevious, OwnPrevious, Goto, RollbackLabels, durable
    <3>5. /\ active' = IF pc' \in SelectedLabels THEN tx.gen ELSE tx.prev
          /\ ownership' = IF pc' \in OwnedLabels THEN tx.gen ELSE tx.prev
          /\ live' = IF pc' \in LoadedLabels THEN tx.gen ELSE tx.prev
      BY <1>z, <2>2, <2>7, <3>2, <3>3
      DEF FindStage, SelectPrevious, LoadPrevious, OwnPrevious, CheckRestored, Goto,
          Switching, SelectedLabels, OwnedLabels, LoadedLabels, TriedLabels, RestingLabels,
          durable, runtime
    <3>6. ~failed' /\ ~errs'
      BY <1>b, <3>4
    <3>7. QED
      BY <2>5, <3>4, <3>5, <3>6
  <2>8. CASE RestoreEnablement \/ RestoreDDNSTimer
    <3>1. /\ pc' \in RollbackLabels /\ UNCHANGED <<cur, journal>>
          /\ active' = IF pc' \in SelectedLabels THEN tx.gen ELSE tx.prev
          /\ ownership' = IF pc' \in OwnedLabels THEN tx.gen ELSE tx.prev
          /\ live' = IF pc' \in LoadedLabels THEN tx.gen ELSE tx.prev
      BY <1>z, <2>2, <2>8
      DEF RestoreEnablement, RestoreDDNSTimer, Collect, Switching, RollbackLabels,
          SelectedLabels, OwnedLabels, LoadedLabels, TriedLabels, RestingLabels, runtime
    <3>2. (failed' = (failed \/ ~TRUE)) /\ errs' = errs
      BY <1>z, <2>8 DEF RestoreEnablement, RestoreDDNSTimer, Collect
    <3>3. ~failed' /\ ~errs'
      BY <1>b, <3>2
    <3>4. QED
      BY <2>5, <3>1, <3>3
  <2>9. CASE FinishRollback
    <3>1. pc = "rb-finish" /\ Written([tx EXCEPT !.phase = "rolled-back"]) /\ RollbackReturns(TRUE)
          /\ UNCHANGED <<active, ownership, live, fwEnabled>>
      BY <1>b, <1>z, <2>9 DEF FinishRollback, MayFinish, runtime
    <3>2. Pending' = {}
      BY <1>t, <2>2, <3>1, NothingLeft DEF Written, Transaction, PendingPhases
    <3>3. pc' \in RestingLabels
      BY <3>1 DEF RollbackReturns, Exit, Goto, RestingLabels
    <3>4. ~failed' /\ ~errs'
      <4>1. CASE caller = "apply"
        BY <1>b, <3>1, <4>1 DEF RollbackReturns, Goto
      <4>2. CASE caller \in {"reconcile", "unit"}
        <5>1. failed' = FALSE /\ errs' = (errs \/ ~TRUE)
          BY <3>1, <4>2 DEF RollbackReturns
        <5>2. QED
          BY <1>b, <5>1
      <4>3. CASE caller \notin {"apply", "reconcile", "unit"}
        BY <3>1, <4>3 DEF RollbackReturns, Exit
      <4>4. QED
        BY <4>1, <4>2, <4>3
    <3>5. active = tx.prev /\ ownership = tx.prev /\ live = tx.prev
      BY <2>2, <3>1 DEF Switching, SelectedLabels, OwnedLabels, LoadedLabels, TriedLabels,
         RestingLabels
    <3>6. fwEnabled = tx.wasEnabled
      BY <1>b, <3>1 DEF HostInv, RestoredInv
    <3>7. Approved' /\ ownership' = approved' /\ live' = approved'
      BY <2>1, <2>2, <3>1, <3>5, <3>6 DEF Approved, ReturnsToApproved
    <3>8. QED
      BY <1>d, <2>1, <3>2, <3>3, <3>4, <3>7
  <2>10. QED
    BY <1>2, <2>6, <2>7, <2>8, <2>9 DEF RollbackStep
<1>3. CASE ConfirmWrite
  <2>1. /\ pc = "cf-write" /\ pc' = "cancel" /\ Written([tx EXCEPT !.phase = "confirmed"])
        /\ UNCHANGED <<failed, errs, reconciled, host, active, ownership, live, fwEnabled>>
        /\ approved' = IF journal'[cur] = [tx EXCEPT !.phase = "confirmed"] THEN tx.gen ELSE approved
    BY <1>3, <1>z DEF ConfirmWrite, Goto, runtime
  <2>2. OnCourse(tx) /\ tx = journal[cur] /\ cur \in Pending
    BY <1>f, <2>1
  <2>3. Pending' = {}
    BY <1>t, <2>1, <2>2, NothingLeft DEF Written, Transaction, PendingPhases
  <2>4. approved' = tx.gen
    BY <1>t, <2>1, <2>2 DEF Written, Pending
  <2>5. active = tx.gen /\ ownership = tx.gen /\ live = tx.gen /\ fwEnabled
    BY <2>1, <2>2 DEF OnCourse, Switching, SelectedLabels, OwnedLabels, LoadedLabels,
       TriedLabels, RestingLabels
  <2>6. ~failed' /\ ~errs'
    BY <1>b, <2>1
  <2>7. QED
    BY <1>d, <2>1, <2>3, <2>4, <2>5, <2>6 DEF Approved, RestingLabels
<1>4. ASSUME NEW g \in Gens, NEW i \in TxIds, ApplyStart(g, i) PROVE FaultlessInv'
  <2>1. /\ Pending = {} /\ pc' = "mkdir" /\ UNCHANGED <<failed, errs, reconciled, host>>
        /\ UNCHANGED <<journal, active, ownership, live, fwEnabled, approved>>
        /\ \E b \in Base(g) : tx' = NewTransaction(g, b)
    BY <1>4 DEF ApplyStart, NothingPending, runtime
  <2>2. Pending' = {}
    BY <2>1 DEF Pending
  <2>3. active # g
    BY <1>f, <2>1, SentinelAssumption DEF Base, Approved
  <2>4. tx' = NewTransaction(g, approved)
    BY <1>f, <2>1, <2>3 DEF Base, Approved
  <2>5. ReturnsToApproved(tx)'
    BY <1>f, <2>1, <2>4 DEF NewTransaction, ReturnsToApproved, Approved
  <2>6. ~failed' /\ ~errs'
    BY <1>b, <2>1
  <2>7. QED
    BY <1>f, <1>g, <2>1, <2>2, <2>5, <2>6 DEF Approved
<1>5. ASSUME NEW i \in TxIds, ConfirmStart(i) \/ OperatorRollback(i) \/ TimerElapses(i)
                               \/ DeadlineMissed(i) \/ ReconcileNext(i)
      PROVE  FaultlessInv'
  <2>1. UNCHANGED <<journal, active, ownership, live, fwEnabled, approved, reconciled, host>>
    BY <1>5 DEF ConfirmStart, OperatorRollback, TimerElapses, DeadlineMissed, ReconcileNext, durable, runtime
  <2>2. CASE ConfirmStart(i)
    <3>1. UNCHANGED <<failed, errs>> /\ pc \in RestingLabels /\ pc' \in RestingLabels
      BY <2>2 DEF ConfirmStart, Idle, RestingLabels
    <3>2. QED
      BY <1>b, <1>r, <2>1, <3>1
  <2>3. CASE OperatorRollback(i)
    BY <1>e, <2>1, <2>3, <1>t DEF OperatorRollback, Pending, PendingPhases, HasState, Idle, RestingLabels
  <2>4. CASE DeadlineMissed(i)
    BY <1>b, <1>r, <2>1, <2>4 DEF DeadlineMissed, process, running
  <2>5. CASE TimerElapses(i)
    BY <1>e, <2>1, <2>5 DEF TimerElapses, TimerStarts, Idle, RestingLabels
  <2>6. CASE ReconcileNext(i)
    BY <1>e, <2>1, <2>6 DEF ReconcileNext, IInv, TodoInv, RestingLabels
  <2>7. QED
    BY <1>5, <2>2, <2>3, <2>4, <2>5, <2>6
<1>6. CASE ReconcileStart("unit") \/ ReconcileStart("reconcile") \/ ReconcileEnd \/ PassStart
           \/ PassEnd
  <2>1. UNCHANGED <<journal, active, ownership, live, fwEnabled, approved, reconciled, host>>
    BY <1>6, <1>f DEF ReconcileStart, ReconcileEnd, PassStart, PassEnd, AfterReconcileUnit,
       durable, runtime
  <2>2. pc \in RestingLabels /\ pc' \in RestingLabels
    BY <1>6 DEF ReconcileStart, ReconcileEnd, PassStart, PassEnd, Exit, Idle, RestingLabels
  <2>3. (failed' = failed /\ errs' = errs) \/ (failed' = FALSE /\ errs' = FALSE)
    BY <1>6 DEF ReconcileStart, ReconcileEnd, PassStart, PassEnd, Exit
  <2>4. ~failed' /\ ~errs'
    BY <1>b, <2>3
  <2>5. QED
    BY <1>r, <2>1, <2>2, <2>4
<1>7. CASE \E g \in Gens : ApplyAlreadyActive(g)
  <2>1. UNCHANGED <<journal, active, ownership, live, fwEnabled, approved, reconciled, host>>
    BY <1>7 DEF ApplyAlreadyActive, runtime
  <2>2. pc' = pc /\ tx' = tx /\ failed' = failed /\ errs' = errs
    BY <1>7 DEF ApplyAlreadyActive, process, running
  <2>3. ~failed' /\ ~errs'
    BY <1>b, <2>2
  <2>4. QED
    BY <1>r, <2>1, <2>2, <2>3
<1>8. ~(BootFirewall \/ Kill \/ Reboot \/ ExternalDelete \/ ForeignAppears)
  BY <1>f, <1>z DEF BootFirewall, Kill, Reboot, ExternalDelete, ForeignAppears
<1>9. QED
  BY <1>0, <1>1, <1>2, <1>3, <1>4, <1>5, <1>6, <1>7, <1>8
  DEF Next, CommandStep, OperatorStep, SystemdStep

-----------------------------------------------------------------------------
(* An apply that undoes itself                                                *)

UndoLabels == {"recover", "cancel"} \cup RollbackLabels

\* Once the fault is spent nothing disturbs a command from outside.
LEMMA Undisturbed ==
  ASSUME MaxFaults <= 1, IInv, [Next]_vars, faults > 0, UNCHANGED running, pc \in UndoLabels
  PROVE  UNCHANGED <<journal, active, ownership, live, approved, faults>>
<1>1. faults \in Nat /\ faults # 0 /\ (\A kind : ~Fault(kind)) /\ pc # "idle"
  BY FaultsCount, FirstFault DEF UndoLabels, RollbackLabels
<1>2. UNCHANGED <<journal, active>>
  BY <1>1, Bystander
<1>3. pc' = pc
  BY DEF process, running
<1>4. ownership' = ownership
  BY <1>1, <1>3, OwnershipSteps
  DEF OwnCandidate, RemoveOwnership, OwnPrevious, UndoLabels, RollbackLabels, Goto, Collect
<1>5. live' = live
  BY <1>1, <1>3, LiveStep
  DEF ActivateCandidate, LoadPrevious, InspectTable, DeleteTable, BootFirewall, Reboot, ExternalDelete,
      ForeignAppears, Idle, Goto, Collect, UndoLabels, RollbackLabels
<1>6. approved' = approved
  BY <1>2, ApprovedStep
<1>7. faults' = faults
  BY <1>1 DEF Next, CommandStep, OperatorStep, SystemdStep, ApplyStep, RollbackStep,
         MakeTransactionDir, WritePrepared, ArmRollback, MarkArmed, MarkActivating,
         MarkActivated, Mark, SelectCandidate, OwnCandidate, ActivateCandidate,
         ReconcileDDNSTimer, EnableFirewall, RecoverApply, CancelRollback, InspectTable, DeleteTable,
         RemoveSelector, RemoveOwnership, FindStage, SelectPrevious, LoadPrevious,
         OwnPrevious, CheckRestored, RestoreEnablement, RestoreDDNSTimer, FinishRollback,
         ConfirmWrite, ReconcileNext, ReconcileEnd, PassStart, PassEnd, ApplyStart,
         ApplyAlreadyActive, ConfirmStart, OperatorRollback, ReconcileStart, TimerElapses, DeadlineMissed,
         BootFirewall, Kill, Reboot, ExternalDelete, ForeignAppears, NoFault, vars
<1>8. QED
  BY <1>2, <1>4, <1>5, <1>6, <1>7

\* A failing step of apply leads to its rollback with the host as Partly says.
LEMMA FailureIsPartial ==
  ASSUME MaxFaults <= 1, IInv, HostInv, OneFaultInv, ApplyStep,
         pc \in BeforeActivating \cup SinceActivating, pc' = "recover"
  PROVE  /\ faults' > 0 /\ ~failed' /\ Partly(tx)' /\ tx'.prev = approved'
         /\ tx' \in Transaction
<1>t. tx \in Transaction
  BY Types
<1>1. faults = 0 /\ faults' = 1
  <2>1. faults \in Nat
    BY DEF IInv, TypeOK, HostType
  <2>2. reconciled
    BY DEF OneFaultInv, BootInv, BeforeActivating, SinceActivating, RollbackLabels
  <2>3. CASE Fault("write") \/ Fault("command")
    BY <2>1, <2>3, FirstFault
  <2>4. Fault("write") \/ Fault("command")
    BY <2>2
    DEF ApplyStep, MakeTransactionDir, WritePrepared, ArmRollback, MarkArmed, MarkActivating,
      MarkActivated, Mark, SelectCandidate, OwnCandidate, ActivateCandidate, ReconcileDDNSTimer,
      EnableFirewall, RecoverApply, CancelRollback, Goto, Exit, BeforeActivating, SinceActivating
  <2>5. QED
    BY <2>3, <2>4
<1>f. reconciled /\ ~failed /\ OnCourse(tx) /\ tx.gen # tx.prev
      /\ (pc \in {"ddns", "enable"} => tx.phase = "activated")
      /\ (pc \in {"select", "own", "activate", "mark-activated"} => tx.phase = "activating")
      /\ (pc \in BeforeActivating => ~MutationsPossible(tx))
  BY <1>1, Faultless, Types DEF OneFaultInv, TrialInv
<1>3. failed' = failed /\ approved' = approved
  BY DEF ApplyStep, MakeTransactionDir, WritePrepared, ArmRollback, MarkArmed,
      MarkActivating, MarkActivated, Mark, SelectCandidate, OwnCandidate, ActivateCandidate,
      ReconcileDDNSTimer, EnableFirewall, RecoverApply, CancelRollback, Goto, Exit
<1>4. CASE MarkArmed \/ MarkActivating \/ MarkActivated
  <2>1. PICK phase \in {"armed", "activating", "activated"} :
          /\ tx' = [tx EXCEPT !.phase = phase]
          /\ phase = "activated" => pc = "mark-activated"
          /\ phase = "armed" => pc = "mark-armed"
          /\ phase = "activating" => pc = "mark-activating"
          /\ UNCHANGED <<active, ownership, live>>
    BY <1>4 DEF MarkArmed, MarkActivating, MarkActivated, Mark, PhaseBeforeSelect, runtime
  <2>2. tx'.gen = tx.gen /\ tx'.prev = tx.prev /\ tx'.phase = phase /\ tx' \in Transaction
    BY <1>t, <2>1 DEF Transaction, Phases, PendingPhases
  <2>3. Partly(tx)'
    BY <1>f, <2>1, <2>2 DEF Partly, OnCourse, Switching, SelectedLabels, OwnedLabels, LoadedLabels,
       TriedLabels, RestingLabels, MutationsPossible
  <2>4. QED
    BY <1>1, <1>3, <1>f, <2>2, <2>3 DEF OnCourse, ReturnsToApproved
<1>5. CASE ArmRollback \/ SelectCandidate \/ OwnCandidate \/ ActivateCandidate
           \/ ReconcileDDNSTimer \/ EnableFirewall
  <2>1. tx' = tx
    BY <1>5 DEF ArmRollback, SelectCandidate, OwnCandidate, ActivateCandidate,
       ReconcileDDNSTimer, EnableFirewall, Goto, Exit
  <2>2. /\ active' \in {tx.gen, tx.prev} /\ ownership' \in {tx.gen, tx.prev}
        /\ live' \in {tx.gen, tx.prev}
        /\ ownership' = tx.gen => active' = tx.gen
        /\ live' = tx.gen => ownership' = tx.gen
        /\ pc \in {"ddns", "enable"} => live' = tx.gen
        /\ pc \in BeforeActivating => active' = tx.prev
    BY <1>5, <1>f
    DEF ArmRollback, SelectCandidate, OwnCandidate, ActivateCandidate, ReconcileDDNSTimer,
        EnableFirewall, OnCourse, Switching, SelectedLabels, OwnedLabels, LoadedLabels,
        TriedLabels, RestingLabels, BeforeActivating, runtime, durable
  <2>3. Partly(tx)'
    BY <1>5, <1>f, <2>1, <2>2
    DEF Partly, MutationsPossible, ArmRollback, SelectCandidate, OwnCandidate, ActivateCandidate,
        ReconcileDDNSTimer, EnableFirewall, BeforeActivating
  <2>4. QED
    BY <1>1, <1>3, <1>f, <1>t, <2>1, <2>3 DEF OnCourse, ReturnsToApproved
<1>6. QED
  BY <1>4, <1>5
  DEF ApplyStep, MakeTransactionDir, WritePrepared, RecoverApply, CancelRollback,
      BeforeActivating, SinceActivating

LEMMA UndoStep ==
  ASSUME MaxFaults <= 1, IInv, HostInv, OneFaultInv, [Next]_vars PROVE UndoInv'
<1> SUFFICES ASSUME caller' = "apply", pc' \in UndoLabels PROVE UndoInv'
  BY DEF UndoInv, UndoLabels
<1>u. UndoInv /\ CallerInv /\ WhoInv
  BY DEF OneFaultInv, HostInv
<1>t. tx \in Transaction /\ faults \in Nat
  BY Types, FaultsCount
<1>1. CASE UNCHANGED running
  <2>1. /\ pc' = pc /\ caller' = caller /\ tx' = tx /\ failed' = failed
    BY <1>1 DEF process, running
  <2>2. faults > 0 /\ (pc # "cancel" => ~failed)
    BY <1>u, <2>1 DEF UndoInv, UndoLabels
  <2>3. UNCHANGED <<journal, active, ownership, live, approved, faults>>
    BY <1>1, <2>1, <2>2, Undisturbed
  <2>4. pc' # "cancel" => ~failed'
    BY <2>1, <2>2
  <2>5. Pending' = Pending /\ Partly(tx)' = Partly(tx) /\ Switching(tx)' = Switching(tx)
    BY <2>1, <2>3 DEF Pending, Partly, Switching, MutationsPossible
  <2>6. QED
    BY <1>u, <2>1, <2>2, <2>3, <2>4, <2>5 DEF UndoInv, RollbackLabels
<1>2. CASE ApplyStep
  <2>1. CASE pc' = "recover"
    <3>1. /\ faults' > 0 /\ ~failed' /\ Partly(tx)' /\ tx'.prev = approved'
      <4>1. pc \in BeforeActivating \cup SinceActivating
        BY <1>2, <2>1
        DEF ApplyStep, MakeTransactionDir, WritePrepared, ArmRollback, MarkArmed, MarkActivating,
          MarkActivated, Mark, SelectCandidate, OwnCandidate, ActivateCandidate,
          ReconcileDDNSTimer, EnableFirewall, RecoverApply, CancelRollback, Goto, Exit, FirstStep,
          BeforeActivating, SinceActivating
      <4>2. QED
        BY <1>2, <2>1, <4>1, FailureIsPartial
    <3>2. QED
      BY <2>1, <3>1 DEF UndoInv, UpdateLabels, LastLabels, RollbackLabels
  <2>2. CASE pc' # "recover"
    <3>1. RecoverApply
      BY <1>2, <2>2
      DEF ApplyStep, MakeTransactionDir, WritePrepared, ArmRollback, MarkArmed, MarkActivating,
        MarkActivated, Mark, SelectCandidate, OwnCandidate, ActivateCandidate,
        ReconcileDDNSTimer, EnableFirewall, CancelRollback, Goto, Exit, UndoLabels,
        RollbackLabels
    <3>2. /\ pc = "recover" /\ caller = "apply" /\ pc' = FirstStep(tx) /\ tx' = tx
          /\ failed' = failed /\ UNCHANGED <<active, ownership, live, approved>>
      BY <3>1 DEF RecoverApply, Goto, Exit, runtime, UndoLabels, RollbackLabels
    <3>3. faults > 0 /\ ~failed /\ tx.prev = approved /\ Partly(tx)
      BY <1>u, <3>2 DEF UndoInv
    <3>4. faults' > 0 /\ ~failed' /\ Partly(tx)'
      BY <1>t, <3>2, <3>3, FaultsCount DEF Partly, MutationsPossible
    <3>5. pc' \in {"rb-table", "rb-stage", "rb-finish", "rb-enable"}
          /\ (pc' \in {"rb-finish", "rb-enable"} => ~MutationsPossible(tx))
      BY <3>2, FirstSteps
    <3>6. SoundTx(tx)
      BY <3>2, <3>3 DEF IInv, ForwardInv
    <3>7. pc' \in {"rb-finish", "rb-enable"} => Switching(tx)'
      BY <3>2, <3>3, <3>5, <3>6
      DEF Partly, Switching, SoundTx, SelectedLabels, OwnedLabels, LoadedLabels, TriedLabels,
          RestingLabels
    <3>8. QED
      BY <3>2, <3>3, <3>4, <3>5, <3>7 DEF UndoInv, UpdateLabels, LastLabels, RollbackLabels
  <2>3. QED
    BY <2>1, <2>2
<1>3. CASE RollbackStep
  <2>1. caller = "apply" /\ pc \in RollbackLabels /\ UNCHANGED approved
    BY <1>3
    DEF RollbackStep, InspectTable, DeleteTable, RemoveSelector, RemoveOwnership, FindStage,
      SelectPrevious, LoadPrevious, OwnPrevious, CheckRestored, RestoreEnablement,
      RestoreDDNSTimer, FinishRollback, RollbackLabels, Goto, Collect, RollbackReturns, Exit
  <2>2. faults > 0 /\ ~failed /\ tx.prev = approved /\ (\A kind : ~Fault(kind)) /\ faults' > 0
    BY <1>t, <1>u, <2>1, FirstFault, FaultsCount DEF UndoInv
  <2>3. tx = journal[cur] /\ cur \in Pending /\ SoundTx(tx)
        /\ (pc \in FreshLabels => tx.prev = None) /\ (pc \in UpdateLabels => tx.prev # None)
        /\ tx.gen \in Gens /\ tx.gen # None
    BY <2>1, SentinelAssumption
    DEF IInv, RollbackInv, FreshInstall, PendingInv, SoundTx
  <2>4. CASE InspectTable \/ DeleteTable
    <3>1. Partly(tx) /\ tx.prev = None /\ pc \in {"rb-table", "rb-delete"}
          /\ (pc = "rb-delete" => live = tx.gen)
      BY <1>u, <2>1, <2>3, <2>4 DEF UndoInv, InspectTable, DeleteTable, FreshLabels
    <3>2. TableMayGo /\ (pc = "rb-delete" => ~TableAbsent)
      BY <2>3, <3>1 DEF TableMayGo, TableAbsent, Partly
    <3>3. /\ tx' = tx /\ failed' = (failed \/ ~TRUE) /\ UNCHANGED <<active, ownership>>
          /\ \/ pc' = "rb-unselect" /\ live' = None
             \/ pc' = "rb-delete" /\ live' = live /\ live # None
      BY <2>2, <2>4, <3>2 DEF InspectTable, DeleteTable, TableAbsent, Collect, durable, runtime
    <3>4. ~failed'
      BY <2>2, <3>3
    <3>5. active \in {tx.gen, None} /\ ownership \in {tx.gen, None} /\ live \in {tx.gen, None}
      BY <3>1 DEF Partly
    <3>6. pc' = "rb-delete" => Partly(tx)' /\ live' = tx'.gen
      BY <3>1, <3>3, <3>5 DEF Partly, MutationsPossible
    <3>7. QED
      BY <2>1, <2>2, <3>3, <3>4, <3>5, <3>6 DEF UndoInv, UpdateLabels, LastLabels
  <2>5. CASE RemoveSelector
    <3>1. pc = "rb-unselect" /\ live = None /\ active \in {tx.gen, None}
          /\ ownership \in {tx.gen, None}
      BY <1>u, <2>1, <2>5 DEF UndoInv, RemoveSelector
    <3>2. /\ active' = None /\ pc' = "rb-disown" /\ tx' = tx
          /\ failed' = (failed \/ ~TRUE) /\ UNCHANGED <<live, ownership>>
      BY <2>2, <2>5, <3>1 DEF RemoveSelector, SelectorAfterRemoval, Collect, runtime
    <3>3. ~failed'
      BY <2>2, <3>2
    <3>4. QED
      BY <2>1, <2>2, <3>1, <3>2, <3>3 DEF UndoInv, UpdateLabels, LastLabels
  <2>6. CASE RemoveOwnership
    <3>1. pc = "rb-disown" /\ live = None /\ active = None /\ tx.prev = None
          /\ ownership \in {tx.gen, None}
      BY <1>u, <2>1, <2>3, <2>6 DEF UndoInv, RemoveOwnership, FreshLabels, RollbackLabels
    <3>2. /\ ownership' = None /\ pc' = "rb-enable" /\ tx' = tx
          /\ failed' = (failed \/ ~TRUE) /\ UNCHANGED <<live, active>>
      BY <2>2, <2>6, <3>1 DEF RemoveOwnership, Collect, runtime
    <3>3. ~failed'
      BY <2>2, <3>2
    <3>4. Switching(tx)'
      BY <3>1, <3>2 DEF Switching, SelectedLabels, OwnedLabels, LoadedLabels, TriedLabels,
         RestingLabels
    <3>5. QED
      BY <2>1, <2>2, <3>1, <3>2, <3>3, <3>4 DEF UndoInv, UpdateLabels, LastLabels
  <2>7. CASE FindStage
    <3>1. Partly(tx) /\ pc = "rb-stage" /\ tx.prev # None
      BY <1>u, <2>1, <2>3, <2>7 DEF UndoInv, FindStage, UpdateLabels
    <3>2. PICK s \in UpdateRollbackStage(tx) : Goto(AfterStage(s))
      BY <2>2, <2>7, <2>1 DEF FindStage, RollbackReturns, Goto, Exit, UndoLabels, RollbackLabels
    <3>3. \/ s = 0 /\ active = tx.gen /\ ownership = tx.gen /\ live = tx.gen
          \/ s = 3 /\ active = tx.prev /\ ownership = tx.prev /\ live = tx.prev
      BY <2>3, <3>1, <3>2, Stages DEF Partly, SoundTx
    <3>4. pc' = (IF s = 0 THEN "rb-select" ELSE "rb-check")
      BY <3>2, <3>3 DEF AfterStage, Goto
    <3>5. tx' = tx /\ failed' = failed /\ UNCHANGED <<active, ownership, live>>
      BY <2>7, <3>2 DEF FindStage, Goto, durable, runtime
    <3>6. Switching(tx)'
      BY <3>3, <3>4, <3>5 DEF Switching, SelectedLabels, OwnedLabels, LoadedLabels, TriedLabels,
         RestingLabels
    <3>7. ~failed'
      BY <2>2, <3>5
    <3>8. QED
      BY <2>1, <2>2, <3>4, <3>5, <3>6, <3>7 DEF UndoInv, UpdateLabels, LastLabels
  <2>8. CASE SelectPrevious \/ LoadPrevious \/ OwnPrevious \/ CheckRestored
    <3>1. Switching(tx) /\ tx.prev # None
      BY <1>u, <2>1, <2>3, <2>8
      DEF UndoInv, SelectPrevious, LoadPrevious, OwnPrevious, CheckRestored, UpdateLabels
    <3>2. pc = "rb-check" => 3 \in UpdateRollbackStage(tx)
      BY <2>3, <3>1, Stages DEF Switching, SoundTx, SelectedLabels, OwnedLabels, LoadedLabels,
         TriedLabels, RestingLabels
    <3>3. tx' = tx /\ failed' = failed /\ pc' \in (UpdateLabels \ {"rb-stage"}) \cup LastLabels
      BY <2>2, <2>8, <3>2
      DEF SelectPrevious, LoadPrevious, OwnPrevious, CheckRestored, Goto, UpdateLabels, LastLabels
    <3>4. Switching(tx)'
      BY <2>2, <2>8, <3>1, <3>2
      DEF SelectPrevious, LoadPrevious, OwnPrevious, CheckRestored, Goto, Switching,
          SelectedLabels, OwnedLabels, LoadedLabels, TriedLabels, RestingLabels, durable, runtime
    <3>5. ~failed'
      BY <2>2, <3>3
    <3>6. QED
      BY <2>1, <2>2, <3>3, <3>4, <3>5 DEF UndoInv, UpdateLabels, LastLabels
  <2>9. CASE RestoreEnablement \/ RestoreDDNSTimer
    <3>1. Switching(tx)
      BY <1>u, <2>1, <2>9 DEF UndoInv, RestoreEnablement, RestoreDDNSTimer, LastLabels
    <3>2. /\ tx' = tx /\ failed' = (failed \/ ~TRUE) /\ pc' \in {"rb-ddns", "rb-finish"}
      BY <2>2, <2>9 DEF RestoreEnablement, RestoreDDNSTimer, Collect
    <3>3. Switching(tx)'
      BY <2>2, <2>9, <3>1
      DEF RestoreEnablement, RestoreDDNSTimer, Collect, Switching, SelectedLabels, OwnedLabels,
          LoadedLabels, TriedLabels, RestingLabels, runtime
    <3>4. ~failed'
      BY <2>2, <3>2
    <3>5. QED
      BY <2>1, <2>2, <3>2, <3>3, <3>4 DEF UndoInv, UpdateLabels, LastLabels
  <2>10. CASE FinishRollback
    <3>1. /\ pc = "rb-finish" /\ Written([tx EXCEPT !.phase = "rolled-back"])
          /\ RollbackReturns(TRUE) /\ UNCHANGED <<active, ownership, live>>
      BY <2>2, <2>10 DEF FinishRollback, MayFinish, runtime
    <3>2. pc' = "cancel"
      BY <2>1, <3>1 DEF RollbackReturns, Goto
    <3>3. Pending' = {}
      BY <1>t, <2>3, <3>1, NothingLeft DEF Written, Transaction, PendingPhases
    <3>4. Switching(tx)
      BY <1>u, <2>1, <3>1 DEF UndoInv, LastLabels
    <3>5. active = approved /\ ownership = approved /\ live = approved
      BY <2>2, <3>1, <3>4 DEF Switching, SelectedLabels, OwnedLabels, LoadedLabels, TriedLabels,
         RestingLabels
    <3>6. QED
      BY <2>1, <2>2, <3>1, <3>2, <3>3, <3>5 DEF UndoInv, RollbackLabels
  <2>11. QED
    BY <1>3, <2>4, <2>5, <2>6, <2>7, <2>8, <2>9, <2>10 DEF RollbackStep
<1>4. ~(Exit \/ ConfirmWrite \/ PassStart)
      /\ (\A g \in Gens, i \in TxIds : ~ApplyStart(g, i))
      /\ (\A i \in TxIds : ~ConfirmStart(i))
      /\ (\A c \in {"unit", "reconcile"} : ~ReconcileStart(c))
  BY <1>u
  DEF Exit, ConfirmWrite, PassStart, ApplyStart, ConfirmStart, ReconcileStart, Goto, CallerInv,
      UndoLabels, RollbackLabels
<1>5. ASSUME NEW i, NEW c, NEW rest, c # "apply" PROVE ~EnterRollback(i, c, rest)
  BY <1>5 DEF EnterRollback
<1>6. pc = "rc-next" => caller # "apply"
  BY <1>u DEF WhoInv
<1>7. QED
  BY <1>1, <1>2, <1>3, <1>4, <1>5, <1>6, ProcessStep

-----------------------------------------------------------------------------
(* The boot after the fault                                                   *)

Rebooted == host # "up" \/ ~reconciled
Stuck == \E i \in Pending : HalfSwitched(i)
BootLabels == {"idle", "rc-next", "pass", "cancel"} \cup (RollbackLabels \ {"rb-delete"})
\* Labels at which a boot has done nothing yet, or nothing more.
QuietLabels == {"idle", "rc-next", "pass", "cancel"}

\* What a reboot finds of a transaction that met no other fault.
LEMMA RebootFinds ==
  ASSUME MaxFaults <= 1, IInv, HostInv, OneFaultInv, Reboot PROVE BootInv'
<1>1. faults = 0 /\ faults' = 1
  BY FirstFault DEF Reboot, IInv, TypeOK, HostType
<1>2. /\ UNCHANGED <<journal, active, ownership, fwEnabled, approved>>
      /\ pc' = "idle" /\ caller' = "none" /\ failed' = FALSE /\ errs' = FALSE /\ live' = None
      /\ reconciled' = FALSE /\ host' = "booting" /\ \A i \in TxIds : timers'[i] = "off"
  BY DEF Reboot, Exit, durable
<1>3. Pending' = Pending
  BY <1>2 DEF Pending
<1>4. Pending' = {} => Approved'
  BY <1>1, <1>2, <1>3, Faultless DEF Approved
<1>5. ASSUME NEW i \in Pending PROVE ReturnsToApproved(journal[i])' /\ Interrupted(journal[i])'
  <2>1. OnCourse(journal[i]) /\ i \in TxIds /\ journal[i].phase \in PendingPhases
        /\ journal[i].gen # journal[i].prev
    BY <1>1, <1>5, Faultless DEF Pending, IInv, PendingInv, SoundTx
  <2>2. pc \notin {"mkdir", "prepare", "recover"}
    BY <1>1, <1>5, Faultless
  <2>3. pc \in BeforeActivating \cup SinceActivating \cup RollbackLabels \cup RestingLabels
    BY <2>2 DEF IInv, TypeOK, ProcessType, BeforeActivating, SinceActivating, RollbackLabels,
       RestingLabels
  <2>4. pc \in BeforeActivating \cup SinceActivating => tx = journal[i]
    <3>1. pc \in BeforeActivating \cup SinceActivating => tx = journal[cur] /\ cur \in Pending
      BY Types
    <3>2. QED
      BY <1>5, <3>1, OnlyOne
  <2>5. ~MutationsPossible(journal[i]) => pc \in BeforeActivating
    BY <2>1, <2>3, <2>4, Types DEF OnCourse, MutationsPossible
  <2>6. pc = "own" => journal[i].phase = "activating"
    BY <2>4 DEF OneFaultInv, TrialInv, SinceActivating
  <2>7. /\ active \in {journal[i].gen, journal[i].prev}
        /\ ownership \in {journal[i].gen, journal[i].prev}
        /\ pc \in BeforeActivating => active = journal[i].prev /\ ownership = journal[i].prev
        /\ active = journal[i].gen => ownership = journal[i].gen \/ pc = "own"
    BY <2>1 DEF OnCourse, Switching, SelectedLabels, OwnedLabels, LoadedLabels, TriedLabels,
       RestingLabels, BeforeActivating
  <2>8. Interrupted(journal[i])'
    BY <1>2, <2>5, <2>6, <2>7
    DEF Interrupted, MutationsPossible, LastLabels
  <2>9. ReturnsToApproved(journal[i])'
    BY <1>2, <2>1 DEF OnCourse, ReturnsToApproved
  <2>10. QED
    BY <2>8, <2>9
<1>6. ~failed' /\ ~errs'
  BY <1>2
<1>7. QED
  BY <1>1, <1>2, <1>3, <1>4, <1>5, <1>6 DEF BootInv

\* The rollback of an interrupted transaction, step by step, at a boot.
LEMMA BootRollback ==
  ASSUME MaxFaults <= 1, IInv, HostInv, OneFaultInv, Rebooted, RollbackStep
  PROVE  /\ ~failed' /\ pc' \in BootLabels
         /\ caller' \in {caller, "none"}
         /\ UNCHANGED <<timers, reconciled, host, approved, faults>>
         /\ errs' => errs \/ Stuck'
         /\ Stuck => Stuck'
         /\ Pending' = {} => Approved'
         /\ \A i \in Pending' : ReturnsToApproved(journal[i])' /\ Interrupted(journal[i])'
<1>b. /\ faults > 0 /\ ~failed /\ caller # "apply"
      /\ \A i \in Pending : ReturnsToApproved(journal[i]) /\ Interrupted(journal[i])
  BY DEF OneFaultInv, BootInv, Rebooted
<1>z. \A kind : ~Fault(kind)
  BY <1>b, FirstFault DEF IInv, TypeOK, HostType
<1>t. journal \in [TxIds -> Transaction] /\ tx \in Transaction
  BY Types
<1>0. pc # "rb-delete" /\ ~DeleteTable
  <2>1. pc # "rb-delete"
    BY DEF OneFaultInv, BootInv, Rebooted
  <2>2. QED
    BY <2>1, Zenon DEF DeleteTable
<1>1. /\ pc \in RollbackLabels /\ UNCHANGED <<timers, reconciled, host, approved, faults>>
  BY <1>z
  DEF RollbackStep, InspectTable, DeleteTable, RemoveSelector, RemoveOwnership, FindStage,
      SelectPrevious, LoadPrevious, OwnPrevious, CheckRestored, RestoreEnablement,
      RestoreDDNSTimer, FinishRollback, RollbackLabels, runtime, NoFault
<1>2. /\ tx = journal[cur] /\ cur \in Pending /\ ReturnsToApproved(tx) /\ Interrupted(tx)
      /\ tx.gen # tx.prev /\ tx.gen # None
      /\ pc \in FreshLabels => tx.prev = None
      /\ pc \in UpdateLabels => tx.prev # None
      /\ pc \in FreshLabels \cup UpdateLabels => MutationsPossible(tx)
  BY <1>1, <1>b, SentinelAssumption
  DEF IInv, RollbackInv, FreshInstall, PendingInv, SoundTx
<1>3. \A i \in Pending : i = cur
  BY <1>2 DEF IInv, AtMostOnePending
\* A half-switched update stays at rb-stage.
<1>4. Stuck => pc = "rb-stage" /\ UpdateRollbackStage(tx) = {}
  <2>1. Stuck => tx.prev # None /\ active = tx.gen /\ ownership = tx.prev
    BY <1>2, <1>3 DEF Stuck, HalfSwitched
  <2>2. Stuck => pc \notin FreshLabels \cup LastLabels
    BY <1>2, <2>1 DEF Interrupted
  <2>3. Stuck => pc = "rb-stage" /\ live = None
    BY <1>1, <1>2, <2>1, <2>2
    DEF Interrupted, RollbackLabels, FreshLabels, LastLabels
  <2>4. QED
    BY <1>2, <2>1, <2>3, Stages
\* The step goes on with the rollback of a transaction that is not stuck.
<1>5. ASSUME UNCHANGED <<journal, cur>>, ~Stuck, pc' \in RollbackLabels, pc' # "rb-delete",
             ~failed', errs' = errs,
             caller' = caller, Interrupted(tx)', tx' = tx
      PROVE  /\ ~failed' /\ pc' \in BootLabels
             /\ caller' \in {caller, "none"}
             /\ errs' => errs \/ Stuck'
             /\ Stuck => Stuck'
             /\ Pending' = {} => Approved'
             /\ \A i \in Pending' : ReturnsToApproved(journal[i])' /\ Interrupted(journal[i])'
  <2>1. Pending' = Pending /\ journal'[cur] = tx'
    BY <1>2, <1>5 DEF Pending
  <2>2. ReturnsToApproved(tx)'
    BY <1>1, <1>2, <1>5 DEF ReturnsToApproved
  <2>3. ReturnsToApproved(journal[cur])' /\ Interrupted(journal[cur])'
    BY <1>5, <2>1, <2>2 DEF ReturnsToApproved, Interrupted, MutationsPossible
  <2>4. QED
    BY <1>2, <1>3, <1>5, <2>1, <2>3 DEF BootLabels
<1>6. CASE InspectTable \/ RemoveSelector \/ RemoveOwnership
  <2>1. pc \in FreshLabels /\ ~Stuck
    BY <1>4, <1>6 DEF InspectTable, RemoveSelector, RemoveOwnership, FreshLabels
  <2>2. /\ tx' = tx /\ failed' = (failed \/ ~TRUE) /\ UNCHANGED <<journal, cur, errs, caller>>
        /\ pc' \in {"rb-unselect", "rb-disown", "rb-enable"}
    BY <1>2, <1>6, <1>z, <2>1
    DEF InspectTable, TableAbsent, RemoveSelector, RemoveOwnership, Interrupted, TableMayGo,
        Collect, durable, FreshLabels, LastLabels
  <2>3. Interrupted(tx)'
    BY <1>2, <1>6, <1>z, <2>1, <2>2
    DEF InspectTable, RemoveSelector, RemoveOwnership, Interrupted, TableMayGo, Collect, durable,
        FreshLabels, LastLabels, SelectorAfterRemoval, MutationsPossible, runtime
  <2>4. ~failed'
    BY <1>b, <2>2
  <2>5. pc' \in RollbackLabels /\ pc' # "rb-delete"
    BY <2>2 DEF RollbackLabels
  <2>6. QED
    BY <1>1, <1>5, <2>1, <2>2, <2>3, <2>4, <2>5
<1>7. CASE SelectPrevious \/ LoadPrevious \/ OwnPrevious \/ CheckRestored
  <2>1. pc \in UpdateLabels \ {"rb-stage"} /\ ~Stuck /\ tx.prev # None
    BY <1>2, <1>4, <1>7
    DEF SelectPrevious, LoadPrevious, OwnPrevious, CheckRestored, UpdateLabels
  <2>2. pc = "rb-check" => 3 \in UpdateRollbackStage(tx)
    <3>1. pc = "rb-check" => active = tx.prev /\ ownership = tx.prev /\ live = tx.prev
      BY <1>2 DEF Interrupted, LastLabels
    <3>2. QED
      BY <1>2, <2>1, <3>1, Stages
  <2>3. /\ tx' = tx /\ failed' = failed /\ UNCHANGED <<journal, cur, errs, caller>>
        /\ pc' \in {"rb-load", "rb-own", "rb-check", "rb-enable"}
    BY <1>7, <1>z, <2>2
    DEF SelectPrevious, LoadPrevious, OwnPrevious, CheckRestored, Goto, durable
  <2>4. Interrupted(tx)'
    BY <1>2, <1>7, <1>z, <2>2, <2>3
    DEF SelectPrevious, LoadPrevious, OwnPrevious, CheckRestored, Interrupted, Goto, durable,
        LastLabels, MutationsPossible, runtime
  <2>5. ~failed'
    BY <1>b, <2>3
  <2>6. pc' \in RollbackLabels /\ pc' # "rb-delete"
    BY <2>3 DEF RollbackLabels
  <2>7. QED
    BY <1>1, <1>5, <2>1, <2>3, <2>4, <2>5, <2>6
<1>8. CASE RestoreEnablement \/ RestoreDDNSTimer
  <2>1. pc \in LastLabels /\ ~Stuck
    BY <1>4, <1>8 DEF RestoreEnablement, RestoreDDNSTimer, LastLabels
  <2>2. /\ tx' = tx /\ failed' = (failed \/ ~TRUE) /\ UNCHANGED <<journal, cur, errs, caller>>
        /\ pc' \in {"rb-ddns", "rb-finish"}
    BY <1>8, <1>z DEF RestoreEnablement, RestoreDDNSTimer, Collect
  <2>3. Interrupted(tx)'
    BY <1>2, <1>8, <2>1, <2>2
    DEF RestoreEnablement, RestoreDDNSTimer, Interrupted, LastLabels, MutationsPossible, runtime
  <2>4. ~failed'
    BY <1>b, <2>2
  <2>5. pc' \in RollbackLabels /\ pc' # "rb-delete"
    BY <2>2 DEF RollbackLabels
  <2>6. QED
    BY <1>1, <1>5, <2>1, <2>2, <2>3, <2>4, <2>5
<1>9. CASE FindStage
  <2>1. pc = "rb-stage" /\ live = None /\ UNCHANGED <<journal, active, ownership, live, fwEnabled>>
    BY <1>2, <1>9 DEF FindStage, Interrupted, durable, runtime, LastLabels
  <2>2. tx.prev # None /\ MutationsPossible(tx)
    BY <1>2, <2>1 DEF UpdateLabels
  <2>3. CASE UpdateRollbackStage(tx) # {}
    <3>1. ~Stuck
      BY <1>4, <2>3
    <3>2. PICK s \in UpdateRollbackStage(tx) : Goto(AfterStage(s))
      BY <1>9, <1>z, <2>3 DEF FindStage
    <3>3. \/ s = 0 /\ active = tx.gen /\ ownership = tx.gen
          \/ s = 1 /\ active = tx.prev
      BY <1>2, <2>1, <2>2, <3>2, Stages DEF Interrupted
    <3>4. pc' = (IF s = 0 THEN "rb-select" ELSE "rb-load") /\ pc' \in RollbackLabels
          /\ pc' # "rb-delete"
      BY <3>2, <3>3 DEF AfterStage, Goto, RollbackLabels
    <3>5. tx' = tx /\ failed' = failed /\ UNCHANGED <<cur, errs, caller>>
      BY <3>2 DEF Goto
    <3>6. Interrupted(tx)'
      BY <1>2, <2>1, <2>2, <3>3, <3>4, <3>5 DEF Interrupted, MutationsPossible, LastLabels
    <3>7. ~failed'
      BY <1>b, <3>5
    <3>8. QED
      BY <1>1, <1>5, <2>1, <3>1, <3>4, <3>5, <3>6, <3>7
  <2>4. CASE UpdateRollbackStage(tx) = {}
    <3>1. active = tx.gen /\ ownership = tx.prev
      BY <1>2, <2>1, <2>2, <2>4, Stages DEF Interrupted
    <3>2. HalfSwitched(cur)
      BY <1>2, <2>2, <3>1 DEF HalfSwitched, Interrupted, MutationsPossible
    <3>3. RollbackReturns(FALSE)
      BY <1>9, <1>z, <2>4 DEF FindStage
    <3>4. /\ pc' \in {"idle", "rc-next"} /\ failed' = FALSE /\ caller' \in {caller, "none"}
      BY <1>b, <3>3 DEF RollbackReturns, Exit
    <3>5. Pending' = Pending
      BY <2>1 DEF Pending
    <3>6. Stuck'
      BY <1>2, <2>1, <3>2, <3>5 DEF Stuck, HalfSwitched
    <3>7. ASSUME NEW i \in Pending' PROVE ReturnsToApproved(journal[i])' /\ Interrupted(journal[i])'
      <4>1. i = cur /\ journal'[i] = tx
        BY <1>2, <1>3, <2>1, <3>5
      <4>2. ReturnsToApproved(journal[i])'
        BY <1>1, <1>2, <4>1 DEF ReturnsToApproved
      <4>3. Interrupted(journal[i])'
        BY <1>2, <2>1, <3>4, <4>1 DEF Interrupted, MutationsPossible, LastLabels
      <4>4. QED
        BY <4>2, <4>3
    <3>8. pc' \in BootLabels /\ ~failed' /\ (Pending' = {} => Approved')
      BY <1>2, <3>4, <3>5 DEF BootLabels
    <3>9. QED
      BY <1>1, <3>4, <3>6, <3>7, <3>8
  <2>5. QED
    BY <2>3, <2>4
<1>10. CASE FinishRollback
  <2>1. /\ pc = "rb-finish" /\ Written([tx EXCEPT !.phase = "rolled-back"])
        /\ RollbackReturns(TRUE) /\ UNCHANGED <<active, ownership, live, fwEnabled>>
    BY <1>10, <1>b, <1>z DEF FinishRollback, MayFinish, runtime
  <2>2. ~Stuck
    BY <1>4, <2>1
  <2>3. Pending' = {}
    BY <1>t, <1>2, <2>1, NothingLeft DEF Written, Transaction, PendingPhases
  <2>4. active = approved /\ fwEnabled = tx.wasEnabled
    BY <1>2, <1>b, <2>1 DEF Interrupted, ReturnsToApproved, LastLabels, HostInv, RestoredInv
  <2>5. Approved'
    BY <1>1, <1>2, <2>1, <2>4 DEF Approved, ReturnsToApproved
  <2>6. /\ pc' \in {"idle", "rc-next"} /\ failed' = FALSE /\ caller' \in {caller, "none"}
        /\ errs' = (errs \/ ~TRUE) \/ errs' = FALSE
    BY <1>b, <2>1 DEF RollbackReturns, Exit
  <2>7. errs' => errs
    BY <2>6
  <2>8. pc' \in BootLabels /\ ~failed'
    BY <2>6 DEF BootLabels
  <2>9. QED
    BY <1>1, <2>2, <2>3, <2>5, <2>6, <2>7, <2>8
<1>11. QED
  BY <1>0, <1>6, <1>7, <1>8, <1>9, <1>10 DEF RollbackStep

\* The step that leaves the rebooted host rebooted, or reboots it.
LEMMA BootStep ==
  ASSUME MaxFaults <= 1, IInv, HostInv, OneFaultInv, [Next]_vars PROVE BootInv'
<1> SUFFICES ASSUME Rebooted' PROVE BootInv'
  BY DEF BootInv, Rebooted
<1>c. CallerInv /\ WhoInv /\ faults \in Nat
  BY DEF OneFaultInv, HostInv, IInv, TypeOK, HostType
<1>1. CASE ~Rebooted
  <2>1. Reboot
    BY <1>1, <1>c
    DEF Rebooted, CallerInv, Next, CommandStep, OperatorStep, SystemdStep, ApplyStep, RollbackStep,
         MakeTransactionDir, WritePrepared, ArmRollback, MarkArmed, MarkActivating,
         MarkActivated, Mark, SelectCandidate, OwnCandidate, ActivateCandidate,
         ReconcileDDNSTimer, EnableFirewall, RecoverApply, CancelRollback, InspectTable, DeleteTable,
         RemoveSelector, RemoveOwnership, FindStage, SelectPrevious, LoadPrevious,
         OwnPrevious, CheckRestored, RestoreEnablement, RestoreDDNSTimer, FinishRollback,
         ConfirmWrite, ReconcileNext, ReconcileEnd, PassStart, PassEnd, ApplyStart,
         ApplyAlreadyActive, ConfirmStart, OperatorRollback, ReconcileStart, TimerElapses, DeadlineMissed,
         BootFirewall, Kill, AfterReconcileUnit, ExternalDelete, ForeignAppears, runtime, vars
  <2>2. QED
    BY <2>1, RebootFinds
<1>2. CASE Rebooted
  <2>b. /\ faults > 0 /\ ~failed /\ caller # "apply"
        /\ \A i \in TxIds : timers[i] = "off"
        /\ pc \in BootLabels
        /\ host = "booting" => ~reconciled /\ caller \in {"none", "unit"}
        /\ host = "starting" => pc = "idle"
        /\ errs \/ (~reconciled /\ host # "booting") => Stuck
        /\ Pending = {} => Approved
        /\ \A i \in Pending : ReturnsToApproved(journal[i]) /\ Interrupted(journal[i])
    BY <1>2 DEF OneFaultInv, BootInv, Rebooted, Stuck, BootLabels
  <2>z. (\A kind : ~Fault(kind)) /\ faults' > 0
    BY <1>c, <2>b, FirstFault, FaultsCount
  <2>o. Stuck => Pending # {} /\ \A i \in Pending : journal[i].phase = "activating"
    <3>1. SUFFICES ASSUME NEW i \in Pending, HalfSwitched(i)
                   PROVE  \A j \in Pending : journal[j].phase = "activating"
      BY DEF Stuck
    <3>2. QED
      BY <3>1 DEF HalfSwitched, IInv, AtMostOnePending
  \* A step that only moves the process between quiet labels.
  <2>q. ASSUME UNCHANGED <<journal, active, ownership, live, fwEnabled, approved, timers>>,
               pc \in QuietLabels, pc' \in QuietLabels, ~failed', caller' # "apply",
               host' = "booting" => ~reconciled' /\ caller' \in {"none", "unit"},
               host' = "starting" => pc' = "idle",
               errs' \/ (~reconciled' /\ host' # "booting") => Stuck
        PROVE  BootInv'
    <3>1. Pending' = Pending /\ Stuck' = Stuck /\ Approved' = Approved
      BY <2>q DEF Pending, Stuck, HalfSwitched, Approved
    <3>2. ASSUME NEW i \in Pending'
          PROVE  ReturnsToApproved(journal[i])' /\ Interrupted(journal[i])'
      <4>1. ReturnsToApproved(journal[i]) /\ Interrupted(journal[i])
        BY <2>b, <3>1
      <4>2. ReturnsToApproved(journal[i])'
        BY <2>q, <4>1 DEF ReturnsToApproved
      <4>3. Interrupted(journal[i])'
        BY <2>q, <4>1 DEF Interrupted, MutationsPossible, LastLabels, QuietLabels
      <4>4. QED
        BY <4>2, <4>3
    <3>3. QED
      BY <2>b, <2>q, <2>z, <3>1, <3>2 DEF BootInv, Stuck, QuietLabels
  \* A rollback that starts.
  <2>e. ASSUME UNCHANGED <<journal, active, ownership, live, fwEnabled, approved, timers,
                           reconciled, host>>,
               pc \in {"idle", "rc-next"}, host # "starting", NEW i \in TxIds, HasState(i),
               NEW c, c # "apply", NEW rest, EnterRollback(i, c, rest),
               host = "booting" => c = "unit"
        PROVE  BootInv'
    <3>1. failed' = FALSE /\ errs' = errs /\ caller' \in {c, "none"}
      BY <2>e DEF EnterRollback
    <3>2. errs' => Stuck
      BY <2>b, <3>1
    <3>3. CASE AlreadySettled(journal[i])
      <4>1. pc' \in QuietLabels /\ pc \in QuietLabels
        BY <2>e, <3>3 DEF EnterRollback, QuietLabels
      <4>2. QED
        BY <2>b, <2>e, <2>q, <3>1, <3>2, <4>1
    <3>4. CASE ~AlreadySettled(journal[i])
      <4>1. i \in Pending /\ Pending' = Pending /\ Stuck' = Stuck
        BY <2>e, <3>4, Types DEF Pending, PendingPhases, TerminalPhases, Phases, HasState, Transaction,
           AlreadySettled, Stuck, HalfSwitched
      <4>2. /\ pc' = FirstStep(journal[i])
            /\ pc' \in {"rb-table", "rb-stage", "rb-finish", "rb-enable"}
            /\ pc' \in {"rb-finish", "rb-enable"} => ~MutationsPossible(journal[i])
        BY <2>e, <3>4, FirstSteps DEF EnterRollback
      <4>3. ReturnsToApproved(journal[i]) /\ Interrupted(journal[i])
        BY <2>b, <4>1
      <4>4. ReturnsToApproved(journal[i])'
        BY <2>e, <4>3 DEF ReturnsToApproved
      <4>5. Interrupted(journal[i])'
        BY <2>e, <4>2, <4>3 DEF Interrupted, MutationsPossible, LastLabels
      <4>6. \A j \in Pending' : j = i
        BY <4>1 DEF IInv, AtMostOnePending
      <4>7. pc' \in RollbackLabels /\ pc' # "rb-delete"
        BY <4>2 DEF RollbackLabels
      <4>8. QED
        BY <2>b, <2>e, <2>z, <3>1, <3>2, <4>1, <4>4, <4>5, <4>6, <4>7 DEF BootInv, Stuck
    <3>5. QED
      BY <3>3, <3>4
  <2>1. CASE UNCHANGED vars
    <3>1. /\ UNCHANGED <<journal, active, ownership, live, fwEnabled, approved, timers, reconciled>>
          /\ UNCHANGED <<host, pc, caller>>
          /\ failed' = failed /\ errs' = errs
      BY <2>1 DEF vars, durable, runtime, process, running
    <3>2. Pending' = Pending /\ Stuck' = Stuck /\ Approved' = Approved
      BY <3>1 DEF Pending, Stuck, HalfSwitched, Approved
    <3>3. ASSUME NEW i \in Pending'
          PROVE  ReturnsToApproved(journal[i])' /\ Interrupted(journal[i])'
      <4>1. ReturnsToApproved(journal[i]) /\ Interrupted(journal[i])
        BY <2>b, <3>2, <3>3
      <4>2. QED
        BY <3>1, <4>1 DEF ReturnsToApproved, Interrupted, MutationsPossible
    <3>4. ~failed' /\ (errs' => Stuck)
      BY <2>b, <3>1
    <3>5. QED
      BY <2>b, <2>z, <3>1, <3>2, <3>3, <3>4 DEF BootInv, Stuck, BootLabels
  <2>2. CASE ApplyStep
    <3>1. CancelRollback
      BY <2>2, <2>b
      DEF ApplyStep, MakeTransactionDir, WritePrepared, ArmRollback, MarkArmed, MarkActivating,
        MarkActivated, Mark, SelectCandidate, OwnCandidate, ActivateCandidate,
        ReconcileDDNSTimer, EnableFirewall, RecoverApply, BootLabels, RollbackLabels
    <3>2. /\ pc = "cancel" /\ timers' = [timers EXCEPT ![cur] = "off"] /\ Exit
          /\ UNCHANGED <<journal, active, ownership, live, fwEnabled, approved, reconciled, host>>
      BY <2>z, <3>1 DEF CancelRollback, durable
    <3>3. timers' = timers
      BY <2>b, <3>2 DEF IInv, TypeOK, HostType
    <3>4. QED
      BY <2>b, <2>q, <3>2, <3>3 DEF Exit, QuietLabels
  <2>3. CASE RollbackStep
    <3>1. /\ ~failed' /\ pc' \in BootLabels
          /\ caller' \in {caller, "none"}
          /\ UNCHANGED <<timers, reconciled, host, approved, faults>>
          /\ errs' => errs \/ Stuck'
          /\ Stuck => Stuck'
          /\ Pending' = {} => Approved'
          /\ \A i \in Pending' : ReturnsToApproved(journal[i])' /\ Interrupted(journal[i])'
      BY <1>2, <2>3, BootRollback
    <3>2. pc # "idle"
      BY <2>3
      DEF RollbackStep, InspectTable, DeleteTable, RemoveSelector, RemoveOwnership, FindStage,
        SelectPrevious, LoadPrevious, OwnPrevious, CheckRestored, RestoreEnablement,
        RestoreDDNSTimer, FinishRollback
    <3>3. QED
      BY <2>b, <2>z, <3>1, <3>2 DEF BootInv, BootLabels, Stuck
  <2>4. CASE PassEnd
    <3>1. /\ pc = "pass" /\ Exit
          /\ UNCHANGED <<journal, active, ownership, live, fwEnabled, approved, timers, reconciled,
                         host>>
      BY <2>4 DEF PassEnd, durable, runtime
    <3>2. QED
      BY <2>b, <2>q, <3>1 DEF Exit, QuietLabels
  <2>5. ASSUME NEW i \in TxIds, ReconcileNext(i) PROVE BootInv'
    <3>1. /\ pc = "rc-next" /\ EnterRollback(i, caller, todo \ {i}) /\ HasState(i)
          /\ UNCHANGED <<journal, active, ownership, live, fwEnabled, approved, timers, reconciled,
                         host>>
      BY <2>5 DEF ReconcileNext, durable, runtime, IInv, TodoInv
    <3>2. QED
      BY <1>c, <2>b, <2>e, <3>1 DEF WhoInv
  <2>6. CASE ReconcileEnd
    <3>1. /\ pc = "rc-next" /\ Exit /\ AfterReconcileUnit(~errs)
          /\ UNCHANGED <<journal, active, ownership, live, fwEnabled, approved, timers>>
      BY <2>6 DEF ReconcileEnd, durable, UnitSucceeds
    <3>2. host' # "booting"
      BY <1>c, <2>b, <3>1 DEF WhoInv, AfterReconcileUnit
    <3>3. ~reconciled' => errs \/ (~reconciled /\ host # "booting")
      BY <1>c, <2>b, <3>1, <3>2 DEF AfterReconcileUnit
    <3>4. QED
      BY <2>b, <2>q, <3>1, <3>2, <3>3 DEF Exit, QuietLabels
  <2>7. ASSUME NEW i \in TxIds, ConfirmStart(i) PROVE BootInv'
    <3>1. /\ pc = "idle" /\ host = "up" /\ (MayConfirm(journal[i]) \/ pc' = "cancel")
          /\ caller' = "confirm" /\ failed' = failed /\ errs' = errs
          /\ UNCHANGED <<journal, active, ownership, live, fwEnabled, approved, timers, reconciled,
                         host>>
      BY <2>7 DEF ConfirmStart, Idle, durable, runtime
    <3>2. Stuck
      BY <1>2, <2>b, <3>1 DEF Rebooted
    <3>3. ~MayConfirm(journal[i])
      BY <2>o, <3>2 DEF MayConfirm, Pending, PendingPhases
    <3>4. ~failed'
      BY <2>b, <3>1
    <3>5. QED
      BY <2>q, <3>1, <3>2, <3>3, <3>4 DEF QuietLabels
  <2>8. ASSUME NEW i \in TxIds, OperatorRollback(i) PROVE BootInv'
    <3>1. /\ pc = "idle" /\ host = "up" /\ HasState(i) /\ EnterRollback(i, "restore", {})
          /\ UNCHANGED <<journal, active, ownership, live, fwEnabled, approved, timers, reconciled,
                         host>>
      BY <2>8 DEF OperatorRollback, Idle, durable, runtime, Pending, PendingPhases, HasState
    <3>2. QED
      BY <2>e, <3>1
  <2>9. ASSUME NEW c \in {"unit", "reconcile"}, ReconcileStart(c) PROVE BootInv'
    <3>1. /\ pc = "idle" /\ pc' = "rc-next" /\ caller' = c /\ failed' = failed /\ errs' = errs
          /\ host # "starting" /\ (host = "booting" => c = "unit")
          /\ UNCHANGED <<journal, active, ownership, live, fwEnabled, approved, timers, reconciled,
                         host>>
      BY <2>9 DEF ReconcileStart, Idle, durable, runtime
    <3>2. ~failed' /\ (errs' => Stuck)
      BY <2>b, <3>1
    <3>3. QED
      BY <2>b, <2>q, <3>1, <3>2 DEF QuietLabels
  <2>10. CASE PassStart
    <3>1. /\ pc = "idle" /\ pc' = "pass" /\ caller' = "other" /\ failed' = failed
          /\ errs' = errs /\ host = "up"
          /\ UNCHANGED <<journal, active, ownership, live, fwEnabled, approved, timers, reconciled,
                         host>>
      BY <2>10 DEF PassStart, Idle, durable, runtime
    <3>2. ~failed' /\ (errs' => Stuck)
      BY <2>b, <3>1
    <3>3. QED
      BY <2>b, <2>q, <3>1, <3>2 DEF QuietLabels
  <2>11. CASE BootFirewall
    <3>1. /\ host = "starting" /\ host' = "up" /\ reconciled' = reconciled
      BY <2>11 DEF BootFirewall
    <3>2. ~reconciled /\ pc = "idle" /\ Stuck
      BY <2>b, <3>1 DEF Rebooted
    <3>3. /\ UNCHANGED <<journal, active, ownership, live, fwEnabled, approved, timers, pc, caller>>
          /\ failed' = failed
      BY <2>11, <3>2 DEF BootFirewall, FirewallUnitRuns, durable, process, running
    <3>4. ~failed'
      BY <2>b, <3>3
    <3>5. QED
      BY <2>b, <2>q, <3>1, <3>2, <3>3, <3>4 DEF QuietLabels
  <2>12. ~(ConfirmWrite \/ Kill \/ Reboot \/ ExternalDelete \/ ForeignAppears)
    BY <2>b, <2>z
    DEF ConfirmWrite, Kill, Reboot, ExternalDelete, ForeignAppears, BootLabels, RollbackLabels
  <2>13. /\ \A i \in TxIds : ~TimerElapses(i) /\ ~DeadlineMissed(i)
         /\ \A g \in Gens : ~ApplyAlreadyActive(g) /\ \A i \in TxIds : ~ApplyStart(g, i)
    <3>1. host = "up" => Pending # {}
      BY <1>2, <2>b, <2>o DEF Rebooted
    <3>2. QED
      BY <2>b, <3>1 DEF TimerElapses, DeadlineMissed, ApplyAlreadyActive, ApplyStart, NothingPending
  <2>14. QED
    BY <2>1, <2>2, <2>3, <2>4, <2>5, <2>6, <2>7, <2>8, <2>9, <2>10, <2>11, <2>12, <2>13
    DEF Next, CommandStep, OperatorStep, SystemdStep
<1>3. QED
  BY <1>1, <1>2

-----------------------------------------------------------------------------

LEMMA OneFaultInit == Init => OneFaultInv
  BY SentinelAssumption
  DEF Init, OneFaultInv, CallerInv, TrialInv, FaultlessInv, UndoInv, BootInv, Approved, Pending,
      PendingPhases, NoTx, RollbackLabels, UpdateLabels, LastLabels

LEMMA OneFaultStepPreserves ==
  ASSUME MaxFaults <= 1, IInv, HostInv, OneFaultInv, [Next]_vars PROVE OneFaultInv'
<1>1. CallerInv /\ TrialInv
  BY DEF OneFaultInv
<1>2. QED
  BY <1>1, CallerStep, TrialStep, FaultlessStep, UndoStep, BootStep DEF OneFaultInv

\* OneFaultInv holds in every behaviour with at most one fault.
THEOREM OneFaultInvariance ==
  ASSUME MaxFaults <= 1 PROVE Spec => [](IInv /\ HostInv /\ OneFaultInv)
<1>1. Init => IInv /\ HostInv /\ OneFaultInv
  BY InitInv, HostInit, OneFaultInit
<1>2. IInv /\ HostInv /\ OneFaultInv /\ [Next]_vars => (IInv /\ HostInv /\ OneFaultInv)'
  BY StepPreserves, HostStepPreserves, OneFaultStepPreserves
<1>3. QED
  BY <1>1, <1>2, PTL DEF Spec

\* After one reboot or one lost process, `cnftctl reconcile` at boot leaves something
\* pending only if an update was cut between its selector and its ownership.
THEOREM BootRefusesLittle ==
  ASSUME MaxFaults <= 1 PROVE Spec => []BootRefusesOnlyHalfSwitched
<1>1. OneFaultInv => BootRefusesOnlyHalfSwitched
  BY DEF OneFaultInv, BootInv, BootRefusesOnlyHalfSwitched
<1>2. QED
  BY <1>1, OneFaultInvariance, PTL

\* The boot after a confirmed policy loads it, wherever one fault or the reboot itself
\* interrupted the commands that came after the confirmation.
THEOREM ApprovedComesBack ==
  ASSUME MaxFaults <= 1 PROVE Spec => ApprovedSurvivesReboot
<1>1. ASSUME IInv, HostInv, OneFaultInv, [Next]_vars, BootCompletes, Pending = {},
             approved # None
      PROVE  live' = approved
  <2>1. /\ host = "starting" /\ host' = "up" /\ pc = "idle" /\ reconciled
        /\ active = approved /\ fwEnabled
    BY <1>1 DEF BootCompletes, OneFaultInv, BootInv, Approved
  <2>2. \A kind : ~Fault(kind)
    BY <1>1, <2>1, FirstFault DEF OneFaultInv, BootInv, IInv, TypeOK, HostType
  <2>3. BootFirewall
    BY <1>1, <2>1, <2>2
    DEF Next, CommandStep, OperatorStep, SystemdStep, ApplyStep, RollbackStep,
         MakeTransactionDir, WritePrepared, ArmRollback, MarkArmed, MarkActivating,
         MarkActivated, Mark, SelectCandidate, OwnCandidate, ActivateCandidate,
         ReconcileDDNSTimer, EnableFirewall, RecoverApply, CancelRollback, InspectTable, DeleteTable,
         RemoveSelector, RemoveOwnership, FindStage, SelectPrevious, LoadPrevious,
         OwnPrevious, CheckRestored, RestoreEnablement, RestoreDDNSTimer, FinishRollback,
         ConfirmWrite, ReconcileNext, ReconcileEnd, PassStart, PassEnd, ApplyStart,
         ApplyAlreadyActive, ConfirmStart, OperatorRollback, ReconcileStart, TimerElapses, DeadlineMissed,
         Kill, Reboot, ExternalDelete, ForeignAppears, runtime, vars
  <2>4. QED
    BY <1>1, <2>1, <2>2, <2>3 DEF BootFirewall, FirewallUnitRuns
<1>2. IInv /\ HostInv /\ OneFaultInv /\ [Next]_vars
        => (BootCompletes /\ Pending = {} /\ approved # None => live' = approved)
  BY <1>1
<1>3. QED
  BY <1>2, OneFaultInvariance, PTL DEF Spec, ApprovedSurvivesReboot

\* Where an apply ends without being interrupted from outside.
LEMMA ApplyEnds ==
  ASSUME IInv, HostInv, CallerInv, [Next]_vars, caller = "apply", pc' = "idle", faults' = faults
  PROVE  \/ EnableFirewall \/ CancelRollback
         \/ RollbackStep
<1>1. WhoInv /\ faults \in Nat
  BY DEF HostInv, IInv, TypeOK, HostType
<1>2. pc \notin {"idle", "pass", "cf-write", "rc-next"}
  BY <1>1 DEF WhoInv, CallerInv
<1>3. \A kind : ~Fault(kind)
  BY <1>1 DEF Fault
<1>4. CASE ApplyStep
  BY <1>3, <1>4
  DEF ApplyStep, MakeTransactionDir, WritePrepared, ArmRollback, MarkArmed, MarkActivating,
      MarkActivated, Mark, SelectCandidate, OwnCandidate, ActivateCandidate,
      ReconcileDDNSTimer, RecoverApply, Goto, FirstStep
<1>5. ApplyStep \/ RollbackStep
  BY <1>2, <1>3
  DEF Next, CommandStep, OperatorStep, SystemdStep, ConfirmWrite, ReconcileNext, ReconcileEnd,
      PassStart, PassEnd, ApplyStart, ApplyAlreadyActive, ConfirmStart, OperatorRollback,
      ReconcileStart, TimerElapses, DeadlineMissed, BootFirewall, Kill, Reboot, ExternalDelete, ForeignAppears,
      Idle, process, running, vars
<1>6. QED
  BY <1>4, <1>5

\* An apply that is not killed leaves the complete trial under its armed timer, or the
\* approved policy back in force; only an update whose candidate is selected and not
\* loaded is left to the timer (recoverApply refuses that state).
THEOREM FailedApplyUndone ==
  ASSUME MaxFaults <= 1, "slow" \notin Env PROVE Spec => FailedApplyIsUndone
<1>1. ASSUME IInv, HostInv, OneFaultInv, [Next]_vars, caller = "apply", pc' = "idle",
             faults' = faults
      PROVE  Restored' \/ \E i \in TxIds : OnTrial(i)' \/ Unloaded(i)'
  <2>1. CallerInv /\ UndoInv /\ TrialInv /\ (\A kind : ~Fault(kind))
    BY <1>1 DEF OneFaultInv, Fault, IInv, TypeOK, HostType
  <2>2. CASE EnableFirewall
    <3>1. /\ pc = "enable" /\ fwEnabled' /\ UNCHANGED <<journal, active, ownership, ddnsTimer>>
          /\ UNCHANGED <<live, timers>>
      BY <2>1, <2>2 DEF EnableFirewall, EnablementAfterApply, runtime
    <3>2. cur \in Pending /\ cur \in TxIds /\ tx = journal[cur]
      BY <1>1, <3>1, Types DEF SinceActivating
    <3>3. timers[cur] = "armed"
      BY <1>1, <3>1 DEF HostInv, DeadManInv, SinceActivating
    <3>4. \A i \in TxIds : i = cur => OnTrial(i)'
      BY <2>1, <3>1, <3>2, <3>3 DEF TrialInv, OnTrial, Holds
    <3>5. QED
      BY <3>2, <3>4
  <2>3. CASE CancelRollback
    <3>1. /\ pc = "cancel"
          /\ UNCHANGED <<journal, active, ownership, live, approved>>
      BY <2>3 DEF CancelRollback, durable
    <3>2. QED
      BY <1>1, <2>1, <3>1 DEF UndoInv, Restored, Holds, IsStill, Pending
  <2>4. CASE RollbackStep
    <3>1. pc \in RollbackLabels /\ ~failed
      BY <1>1, <2>1, <2>4
      DEF UndoInv, RollbackStep, InspectTable, DeleteTable, RemoveSelector, RemoveOwnership, FindStage,
        SelectPrevious, LoadPrevious, OwnPrevious, CheckRestored, RestoreEnablement,
        RestoreDDNSTimer, FinishRollback, RollbackLabels
    <3>2. tx = journal[cur] /\ cur \in Pending /\ cur \in TxIds /\ SoundTx(tx)
      BY <1>1, <3>1, Types DEF IInv, PendingInv
    <3>3. CASE FindStage
      <4>1. /\ pc = "rb-stage" /\ Partly(tx) /\ tx.prev # None /\ MutationsPossible(tx)
            /\ tx.gen # tx.prev /\ tx.gen # None
        BY <1>1, <2>1, <3>2, <3>3, SentinelAssumption
        DEF UndoInv, FindStage, IInv, RollbackInv, UpdateLabels, FreshInstall, SoundTx,
            RollbackLabels
      <4>2. UpdateRollbackStage(tx) = {}
        BY <1>1, <2>1, <3>3, StageRange DEF FindStage, Goto
      <4>3. active = tx.gen /\ live # tx.gen /\ tx.phase = "activating"
        BY <4>1, <4>2, Stages DEF Partly, MutationsPossible
      <4>4. UNCHANGED <<journal, active, live>>
        BY <3>3 DEF FindStage, durable, runtime
      <4>5. \A i \in TxIds : i = cur => Unloaded(i)'
        BY <3>2, <4>1, <4>3, <4>4 DEF Unloaded
      <4>6. QED
        BY <3>2, <4>5
    <3>4. CASE CheckRestored
      <4>1. Switching(tx) /\ pc = "rb-check" /\ tx.prev # None
        BY <1>1, <2>1, <3>4
        DEF UndoInv, CheckRestored, UpdateLabels, RollbackLabels, IInv, RollbackInv, FreshInstall
      <4>2. 3 \in UpdateRollbackStage(tx)
        BY <3>2, <4>1, SentinelAssumption, Stages
        DEF Switching, SoundTx, SelectedLabels, OwnedLabels, LoadedLabels, TriedLabels,
            RestingLabels
      <4>3. QED
        BY <1>1, <2>1, <3>4, <4>2 DEF CheckRestored, Goto
    <3>5. ~(FindStage \/ CheckRestored) => FALSE
      BY <1>1, <2>1, <2>4, <3>1
      DEF RollbackStep, InspectTable, DeleteTable, RemoveSelector, RemoveOwnership, SelectPrevious,
        LoadPrevious, OwnPrevious, RestoreEnablement, RestoreDDNSTimer, FinishRollback,
        MayFinish, Goto, Collect, RollbackReturns
    <3>6. QED
      BY <3>3, <3>4, <3>5
  <2>5. QED
    BY <1>1, <2>1, <2>2, <2>3, <2>4, ApplyEnds
<1>2. IInv /\ HostInv /\ OneFaultInv /\ [Next]_vars
        => (caller = "apply" /\ pc' = "idle" /\ faults' = faults
             => Restored' \/ \E i \in TxIds : OnTrial(i)' \/ Unloaded(i)')
  BY <1>1
<1>3. QED
  BY <1>2, OneFaultInvariance, PTL DEF Spec, FailedApplyIsUndone
=============================================================================
