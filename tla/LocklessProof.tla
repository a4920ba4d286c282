----------------------------- MODULE LocklessProof -----------------------------
(***************************************************************************)
(* What runs beside the activation system without its lock: the reports of     *)
(* status and plan, and the package's maintainer scripts.  Both look at one     *)
(* thing after the other while the invariant of the system, IInv /\ HostInv,     *)
(* is all that can be relied on.                                                 *)
(***************************************************************************)
EXTENDS ActivationProof, StatusProperties, Packaging

-----------------------------------------------------------------------------
(* Status and plan.                                                           *)

States == DOMAIN Rank

\* What the states of a report with exit status 0 are.
Clean(states) == states \subseteq {"ok", "not_applicable"}

LEMMA ExitZeroIsClean ==
  ASSUME NEW states \in SUBSET States, ExitsZero(states)
  PROVE  Clean(states)
<1> DEFINE worst(s) == s \in states /\ \A r \in states : Rank[r] <= Rank[s]
<1>1. States = {"ok", "not_applicable", "absent", "pending", "degraded", "unknown", "failed"}
  BY DEF States, Rank
<1>2. /\ Rank["ok"] = 0 /\ Rank["not_applicable"] = 0 /\ Rank["absent"] = 2
      /\ Rank["pending"] = 3 /\ Rank["degraded"] = 4 /\ Rank["unknown"] = 6
      /\ Rank["failed"] = 7
  BY DEF Rank
<1>3. CASE \A s \in states : Rank[s] = 0
  BY <1>1, <1>2, <1>3 DEF Clean
<1>4. CASE \E s \in states : Rank[s] # 0
  <2>1. \E s \in states : \A r \in states : Rank[r] <= Rank[s]
    <3>1. CASE "failed" \in states BY <1>1, <1>2, <3>1
    <3>2. CASE "failed" \notin states /\ "unknown" \in states BY <1>1, <1>2, <3>2
    <3>3. CASE states \cap {"failed", "unknown"} = {} /\ "degraded" \in states
      BY <1>1, <1>2, <3>3
    <3>4. CASE states \cap {"failed", "unknown", "degraded"} = {} /\ "pending" \in states
      BY <1>1, <1>2, <3>4
    <3>5. CASE states \cap {"failed", "unknown", "degraded", "pending"} = {} /\ "absent" \in states
      BY <1>1, <1>2, <3>5
    <3>6. CASE Clean(states) BY <1>1, <1>2, <1>4, <3>6 DEF Clean
    <3> QED BY <1>1, <3>1, <3>2, <3>3, <3>4, <3>5, <3>6 DEF Clean
  <2>2. OverallState(states) = CHOOSE s \in states : \A r \in states : Rank[r] <= Rank[s]
    BY <1>4 DEF OverallState
  <2>3. "ok" \in states /\ \A r \in states : Rank[r] <= Rank["ok"]
    BY <2>1, <2>2 DEF ExitsZero
  <2> QED BY <1>1, <1>2, <2>3 DEF Clean
<1> QED BY <1>3, <1>4

StatusType ==
  /\ desired \in Intents \cup {None} /\ seen \in SUBSET States
  /\ planned \in {"none", "ok", "pending"}

\* What the clean part of a report says while nothing has changed since it began.
CalmInv ==
  calm /\ Clean(seen) =>
    /\ at \notin {"off", "selector"} => active # None
    /\ at \in {"ddns", "live", "pending", "timers", "done"} => active \in Candidates(desired)
    /\ at \in {"live", "pending", "timers", "done"} => ddnsTimer = WantsDDNS(desired)
    /\ at \in {"pending", "timers", "done"} => live \in Gens
    /\ at = "timers" => inspected = Pending
    /\ at = "done" => Pending = {}

\* A trial that lasts as long as the inspection is among those it finds.
TrialsInv ==
  /\ trials \subseteq Pending
  /\ at = "timers" => trials \subseteq inspected
  /\ at = "done" => trials = {} \/ "pending" \in seen

\* A change to anything forgets the plan.
PlanInv == planned = "pending" => desired \notin generations \cup {None}

SInv == IInv /\ HostInv /\ StatusType /\ CalmInv /\ TrialsInv /\ PlanInv

-----------------------------------------------------------------------------

LEMMA StatusInitial == StatusInit => SInv
<1> SUFFICES ASSUME StatusInit PROVE SInv OBVIOUS
<1>1. IInv /\ HostInv BY InitInv, HostInit DEF StatusInit
<1>2. StatusType BY DEF StatusInit, StatusType
<1> QED BY <1>1, <1>2 DEF StatusInit, CalmInv, TrialsInv, PlanInv, SInv

\* Beside the inspection the host does nothing but its own steps.
LEMMA StatusIsHost == [StatusNext]_statusVars => [Next]_vars
<1> SUFFICES ASSUME [StatusNext]_statusVars PROVE [Next]_vars OBVIOUS
<1>1. CASE HostMoves
  <2>1. OperatorUsesDesired => OperatorStep
    BY DEF OperatorUsesDesired, OperatorStep, Candidates
  <2> QED BY <1>1, <2>1 DEF HostMoves, HostStep, Next
<1> QED
  BY <1>1 DEF StatusNext, statusVars, EditDesired, Inspects, Plans

LEMMA MovesKeep ==
  ASSUME SInv, HostMoves PROVE StatusType' /\ CalmInv' /\ TrialsInv' /\ PlanInv'
<1>1. desired' = desired /\ planned' = "none" /\ calm' = FALSE
  BY DEF HostMoves, NoHistory
<1>2. CASE host' = "booting" /\ host = "up"
  BY <1>1, <1>2
  DEF HostMoves, NoHistory, SInv, StatusType, CalmInv, TrialsInv, PlanInv, Intents
<1>3. CASE ~(host' = "booting" /\ host = "up")
  BY <1>1, <1>3
  DEF HostMoves, SInv, StatusType, CalmInv, TrialsInv, PlanInv, inspector, Intents
<1> QED BY <1>2, <1>3

\* The policy and the configuration agree in a way drift accepts only if the
\* configuration may have made the policy.
LEMMA DriftIsCandidate ==
  ASSUME TypeOK, desired \in Intents \cup {None}, DriftState = "ok"
  PROVE  active \in Candidates(desired)
<1>1. active \in Gens /\ IntentOf[active] # None
  BY IntentAssumption DEF TypeOK, HostType, DriftState
<1>2. CASE WantsDDNS(desired)
  BY <1>1, <1>2 DEF DriftState, OkIf, Candidates
<1>3. CASE ~WantsDDNS(desired)
  <2>1. active = desired BY <1>1, <1>3 DEF DriftState, OkIf
  <2>2. PICK g \in Gens : IntentOf[g] = desired BY <1>1, <2>1, SentinelAssumption DEF Intents
  <2>3. IntentOf[g] = g BY <1>3, <2>2, IntentAssumption DEF WantsDDNS, Candidates
  <2> QED BY <2>1, <2>2, <2>3 DEF Candidates
<1> QED BY <1>2, <1>3

LEMMA InspectionKeeps ==
  ASSUME SInv, InspectionStep, UNCHANGED <<vars, desired, history>>, planned' = "none"
  PROVE  StatusType' /\ CalmInv' /\ TrialsInv' /\ PlanInv'
<1>t. desired \in Intents \cup {None} /\ seen \in SUBSET States /\ TypeOK
  BY DEF SInv, StatusType, IInv
<1>s. /\ States = {"ok", "not_applicable", "absent", "pending", "degraded", "unknown", "failed"}
  BY DEF States, Rank
<1> USE DEF Record, Clean
<1>u. UNCHANGED <<Pending, Candidates(desired), WantsDDNS(desired)>>
  BY DEF vars, durable, Pending, Candidates, WantsDDNS
<1>1. CASE ReadSelector
  <2>1. CASE active = None
    <3>1. at' = "config" /\ seen' = seen \cup {"absent", "not_applicable"}
      BY <1>1, <2>1 DEF ReadSelector
    <3>2. ~Clean(seen') /\ seen' \subseteq States BY <1>t, <1>s, <3>1
    <3> QED
      BY <1>t, <1>u, <3>1, <3>2
      DEF SInv, StatusType, CalmInv, TrialsInv, PlanInv, vars, durable, history
  <2>2. CASE active # None
    <3>1. at' = "ownership" /\ seen' = seen \cup {"ok"} BY <1>1, <2>2 DEF ReadSelector
    <3> QED
      BY <1>t, <1>s, <1>u, <2>2, <3>1
      DEF SInv, StatusType, CalmInv, TrialsInv, PlanInv, vars, durable, history
  <2> QED BY <2>1, <2>2
<1>2. CASE ReadOwnership
  BY <1>2, <1>t, <1>s, <1>u
  DEF ReadOwnership, OkIf, SInv, StatusType, CalmInv, TrialsInv, PlanInv, vars, durable, runtime,
      history
<1>3. CASE ReadConfig
  <2>1. CASE desired = None
    <3>1. at' = "live" /\ seen' = seen \cup {"absent", "unknown"} BY <1>3, <2>1 DEF ReadConfig
    <3>2. ~Clean(seen') /\ seen' \subseteq States BY <1>t, <1>s, <3>1
    <3> QED
      BY <1>t, <1>u, <3>1, <3>2
      DEF SInv, StatusType, CalmInv, TrialsInv, PlanInv, vars, durable, history
  <2>2. CASE desired # None
    <3>1. at = "config" /\ at' = "drift" /\ seen' = seen \cup {"ok"} BY <1>3, <2>2 DEF ReadConfig
    <3> QED
      BY <1>t, <1>s, <1>u, <3>1
      DEF SInv, StatusType, CalmInv, TrialsInv, PlanInv, vars, durable, history
  <2> QED BY <2>1, <2>2
<1>4. CASE ReadDrift
  <2>1. DriftState \in {"ok", "degraded", "unknown"} BY <1>t, DDNSAssumption DEF DriftState, OkIf
  <2> QED
    BY <1>4, <1>t, <1>s, <1>u, <2>1, DriftIsCandidate
    DEF ReadDrift, SInv, StatusType, CalmInv, TrialsInv, PlanInv, vars, durable, runtime, history
<1>5. CASE ReadDDNS
  BY <1>5, <1>t, <1>s, <1>u
  DEF ReadDDNS, DDNSStates, DDNSTimerState, OkIf, SInv, StatusType, CalmInv, TrialsInv, PlanInv,
      vars, durable, runtime, history
<1>6. CASE ReadLive
  BY <1>6, <1>t, <1>s, <1>u
  DEF ReadLive, LiveState, IInv, TypeOK, HostType, SInv, StatusType, CalmInv, TrialsInv, PlanInv,
      vars, durable, runtime, history
<1>7. CASE ReadPending
  BY <1>7, <1>t, <1>s, <1>u
  DEF ReadPending, SInv, StatusType, CalmInv, TrialsInv, PlanInv, vars, durable, runtime, history
<1>8. CASE ReadTimers
  <2>1. PendingStates(inspected) \subseteq {"ok", "pending", "failed"}
    BY DEF PendingStates
  <2>2. inspected # {} => "pending" \in PendingStates(inspected)
    BY DEF PendingStates
  <2> QED
    BY <1>8, <1>t, <1>s, <1>u, <2>1, <2>2
    DEF ReadTimers, SInv, StatusType, CalmInv, TrialsInv, PlanInv, vars, durable, runtime, history
<1> QED
  BY <1>1, <1>2, <1>3, <1>4, <1>5, <1>6, <1>7, <1>8 DEF InspectionStep

LEMMA StatusKeeps == SInv /\ [StatusNext]_statusVars => SInv'
<1> SUFFICES ASSUME SInv, [StatusNext]_statusVars PROVE SInv' OBVIOUS
<1>1. IInv' /\ HostInv'
  BY StatusIsHost, StepPreserves, HostStepPreserves DEF SInv
<1> USE DEF vars, durable, runtime, history, Pending, Candidates, WantsDDNS, inspector
<1>2. CASE UNCHANGED statusVars
  BY <1>1, <1>2 DEF statusVars, SInv, StatusType, CalmInv, TrialsInv, PlanInv
<1>3. CASE HostMoves
  BY <1>1, <1>3, MovesKeep DEF SInv
<1>4. ASSUME NEW d \in Intents, EditDesired(d) PROVE SInv'
  BY <1>1, <1>4 DEF EditDesired, SInv, StatusType, CalmInv, TrialsInv, PlanInv
<1>5. CASE InspectionStep /\ UNCHANGED <<vars, desired, history>> /\ planned' = "none"
  BY <1>1, <1>5, InspectionKeeps DEF SInv
<1>6. CASE Inspects /\ (StatusStart \/ StatusEnd)
  BY <1>1, <1>6
  DEF Inspects, StatusStart, StatusEnd, NoHistory, InspectionStep, ReadSelector, ReadOwnership,
      ReadConfig, ReadDrift, ReadDDNS, ReadLive, ReadPending, ReadTimers, Record,
      SInv, StatusType, CalmInv, TrialsInv, PlanInv
<1>7. CASE Plans
  BY <1>1, <1>7 DEF Plans, Plan, SInv, StatusType, CalmInv, TrialsInv, PlanInv
<1> QED BY <1>2, <1>3, <1>4, <1>5, <1>6, <1>7 DEF StatusNext, Inspects

LEMMA StatusInvariance == StatusSpec => []SInv
<1>1. StatusInit => SInv BY StatusInitial
<1>2. SInv /\ [StatusNext]_statusVars => SInv' BY StatusKeeps
<1> QED BY <1>1, <1>2, PTL DEF StatusSpec

\* With nothing undecided a table of cnftctl is the selected and approved one: the
\* marker alone, which is all that status looks for, is enough (inspect.go).
THEOREM ReportedHealthIsApproved == StatusSpec => []HealthyIsApproved
<1>1. SInv => HealthyIsApproved
  <2> SUFFICES ASSUME SInv, HealthyReport, calm PROVE Healthy /\ approved = active
    BY DEF HealthyIsApproved
  <2>1. at = "done" /\ Clean(seen)
    BY ExitZeroIsClean DEF HealthyReport, SInv, StatusType
  <2>2. /\ active \in Candidates(desired) /\ ddnsTimer = WantsDDNS(desired) /\ live \in Gens
        /\ Pending = {}
    BY <2>1 DEF SInv, CalmInv
  <2>3. ownership = active /\ active \in {None, approved}
    BY <2>2 DEF SInv, IInv, SettledInv
  <2>4. live = active /\ active # None
    BY <2>2, SentinelAssumption DEF SInv, HostInv, KernelInv
  <2> QED BY <2>2, <2>3, <2>4 DEF Healthy
<1> QED BY <1>1, StatusInvariance, PTL

\* Whatever goes on beside the inspection, a trial that outlasts it is reported.
THEOREM UndecidedTrialIsReported == StatusSpec => []TrialIsReported
<1>1. SInv => TrialIsReported
  BY ExitZeroIsClean
  DEF SInv, StatusType, TrialsInv, TrialIsReported, HealthyReport, Clean
<1> QED BY <1>1, StatusInvariance, PTL

\* A configuration without a DDNS whitelist that plan calls changed is not the one in
\* force, because the selected generation is always on disk (service_impl.go:Plan).
THEOREM PlanSeesTheSelection == StatusSpec => []PlainPlanIsReal
<1>1. SInv => PlainPlanIsReal
  BY DEF SInv, PlanInv, HostInv, DiskInv, PlainPlanIsReal
<1> QED BY <1>1, StatusInvariance, PTL

-----------------------------------------------------------------------------
(* The package.                                                               *)

\* An apply that has no entry in the journal is known by its name.
StartedInv == pc \in {"mkdir", "prepare"} => caller = "apply"

Removing == {"rm-table", "rm-disable", "rm-verify", "rm-files"}

(* From the first look of the maintainer scripts until the files are back nothing  *)
(* is undecided and nobody is about to change that, unless an apply was running.    *)
QuietInv ==
  /\ assets \in {"installed", "removed"} /\ dpkg \in {"none", "unpack"} \cup Removing
  /\ raced \in BOOLEAN
  /\ dpkg # "none" => host = "up"
  /\ dpkg \in Removing => assets = "installed"
  /\ (dpkg # "none" \/ assets = "removed") /\ ~raced =>
       TerminalHistory /\ pc \in QuietLabels
  /\ (dpkg \in Removing \ {"rm-table"} \/ assets = "removed") /\ ~raced /\ ~blind =>
       live \notin Gens
  /\ (dpkg = "rm-files" \/ assets = "removed") /\ ~raced => ~fwEnabled

PInv == IInv /\ StartedInv /\ QuietInv

LEMMA TerminalIsSettled ==
  ASSUME TypeOK, TerminalHistory
  PROVE  Pending = {} /\ \A i \in TxIds : HasState(i) => AlreadySettled(journal[i])
BY DEF TerminalHistory, Pending, PendingPhases, TerminalPhases, HasState, AlreadySettled, TypeOK,
       HostType

LEMMA PackageInitial == PackageInit => PInv
BY InitInv DEF PackageInit, Init, PInv, StartedInv, QuietInv, Removing

-----------------------------------------------------------------------------
(* The activation system's own invariant holds under the package's steps too.  *)

LEMMA DisableKeeps == ASSUME IInv, PrermDisable PROVE IInv'
<1>1. UNCHANGED <<journal, active, ownership, generations, live, timers, host, approved>>
  BY DEF PrermDisable
<1>2. HostType'
  <2>1. faults' \in Nat
    BY FaultAssumption DEF PrermDisable, NoFault, Fault, IInv, TypeOK, HostType
  <2>2. fwEnabled' = FALSE /\ ddnsTimer' = FALSE /\ reconciled' = FALSE BY DEF PrermDisable
  <2> QED BY <1>1, <2>1, <2>2 DEF IInv, TypeOK, HostType
<1>3. Pending' = Pending /\ AtMostOnePending' /\ PendingInv' /\ SettledInv'
  BY <1>1, CoreUnchanged
<1>4. CASE Exit BY <1>2, <1>3, <1>4, ExitInv
<1>5. CASE UNCHANGED process
  BY <1>1, <1>2, <1>3, <1>5
  DEF process, running, IInv, TypeOK, ProcessType, StartInv, ForwardInv, RollbackInv, ConfirmInv, TodoInv,
      HasState, SoundTx, UntouchedBase, FreshInstall, MutationsPossible
<1> QED BY <1>4, <1>5 DEF PrermDisable

LEMMA GoneKeeps == ASSUME IInv, UnitGone PROVE IInv'
<1>1. UNCHANGED <<durable, runtime, faults, approved, caller, cur, tx, todo, errs, met>>
  BY DEF UnitGone, Goto, Collect
<1>2. UNCHANGED <<journal, active, ownership, approved>> BY <1>1 DEF durable
<1>3. Pending' = Pending /\ AtMostOnePending' /\ PendingInv' /\ SettledInv'
  BY <1>2, CoreUnchanged
<1>4. pc' \in {"recover", "rb-ddns", "rb-finish"} /\ failed' \in BOOLEAN
  BY DEF UnitGone, Goto, Collect, IInv, TypeOK, ProcessType
<1>5. TypeOK'
  BY <1>1, <1>4 DEF IInv, TypeOK, HostType, ProcessType, durable, runtime
<1>6. TodoInv' BY <1>1, <1>2 DEF IInv, TodoInv, HasState
<1>7. CASE pc \in {"arm", "activate", "ddns", "enable"} /\ Goto("recover")
  <2>1. /\ cur \in Pending /\ tx = journal[cur] /\ SoundTx(tx)
        /\ ~MutationsPossible(tx) => UntouchedBase(tx)
    BY <1>7, Types DEF IInv, PendingInv, BeforeActivating, SinceActivating
  <2>2. tx.phase \in PendingPhases BY <2>1 DEF Pending
  <2>3. ForwardInv'
    BY <1>1, <1>2, <1>3, <1>7, <2>1, <2>2
    DEF Goto, ForwardInv, BeforeActivating, SinceActivating, SoundTx, UntouchedBase,
        FreshInstall, MutationsPossible
  <2> QED
    BY <1>3, <1>5, <1>6, <1>7, <2>3
    DEF Goto, IInv, StartInv, RollbackInv, ConfirmInv, RollbackLabels, FreshLabels, UpdateLabels,
        LastLabels
<1>8. CASE pc \in {"rb-enable", "rb-ddns"} /\ pc' \in {"rb-ddns", "rb-finish"} /\ failed' = TRUE
  <2>1. cur \in Pending /\ tx = journal[cur] BY <1>8, Types DEF RollbackLabels
  <2>2. RollbackInv'
    BY <1>1, <1>2, <1>3, <1>8, <2>1
    DEF RollbackInv, RollbackLabels, FreshLabels, UpdateLabels, LastLabels
  <2> QED
    BY <1>3, <1>5, <1>6, <1>8, <2>2
    DEF IInv, StartInv, ForwardInv, ConfirmInv, BeforeActivating, SinceActivating
<1> QED BY <1>7, <1>8, Zenon DEF UnitGone, Collect

LEMMA VainKeeps ==
  ASSUME IInv, BootWithoutUnits \/ \E i \in TxIds : TimerElapsesInVain(i)
  PROVE  IInv'
<1>1. UNCHANGED <<durable, approved, process, running, faults, live, reconciled>>
  BY DEF BootWithoutUnits, TimerElapsesInVain, process
<1>2. UNCHANGED <<journal, active, ownership, approved>> BY <1>1 DEF durable
<1>3. Pending' = Pending /\ AtMostOnePending' /\ PendingInv' /\ SettledInv'
  BY <1>2, CoreUnchanged
<1>4. TypeOK'
  BY <1>1 DEF BootWithoutUnits, TimerElapsesInVain, IInv, TypeOK, HostType, ProcessType, durable,
     process, running
<1> QED
  BY <1>1, <1>2, <1>3, <1>4
  DEF process, running, IInv, StartInv, ForwardInv, RollbackInv, ConfirmInv, TodoInv, HasState,
      SoundTx, UntouchedBase, FreshInstall, MutationsPossible

\* Steps of the host that are those of a host with the package.
Ordinary == CommandStep \/ OperatorStep \/ SystemdStep \/ Kill \/ ExternalDelete
            \/ ForeignAppears \/ Reboot

LEMMA PackageKeepsHost == ASSUME IInv, [PackageNext]_packageVars PROVE IInv'
<1>1. CASE UNCHANGED vars BY <1>1, StutterPreserves
<1>2. CASE Ordinary BY <1>2, StepPreserves DEF Ordinary, Next
<1>3. CASE PrermTable
  <2>1. UNCHANGED <<durable, runtime, process, approved>> /\ faults' \in Nat
    BY <1>3, FaultAssumption DEF PrermTable, Fault, NoFault, IInv, TypeOK, HostType
  <2>2. UNCHANGED <<journal, active, ownership, approved>> BY <2>1 DEF durable
  <2>3. Pending' = Pending /\ AtMostOnePending' /\ PendingInv' /\ SettledInv'
    BY <2>2, CoreUnchanged
  <2>4. TypeOK'
    BY <2>1 DEF IInv, TypeOK, HostType, ProcessType, durable, process, running, runtime
  <2> QED
    BY <2>1, <2>2, <2>3, <2>4
    DEF process, running, IInv, StartInv, ForwardInv, RollbackInv, ConfirmInv, TodoInv, HasState,
        SoundTx, UntouchedBase, FreshInstall, MutationsPossible
<1> QED
  BY <1>1, <1>2, <1>3, DisableKeeps, GoneKeeps, VainKeeps
  DEF PackageNext, DpkgStep, HostInstalled, HostWithout, Ordinary, packageVars, PrermStart,
      PrermVerify, RemoveFiles, Preinst, Unpack

-----------------------------------------------------------------------------
(* What the scripts may rely on.                                              *)

LEMMA StartedKeeps ==
  ASSUME PInv, [PackageNext]_packageVars PROVE StartedInv'
<1>s. StartedInv BY DEF PInv
<1>e. CASE Exit BY <1>e DEF Exit, StartedInv
<1>u. CASE UNCHANGED <<pc, caller>> BY <1>s, <1>u DEF StartedInv
<1>1. CASE Ordinary
  <2>1. ASSUME NEW i, NEW c, NEW rest, EnterRollback(i, c, rest) PROVE StartedInv'
    BY <2>1 DEF EnterRollback, FirstStep, StartedInv
  <2>2. CASE ApplyStep
    BY <1>s, <1>e, <2>2
    DEF ApplyStep, MakeTransactionDir, WritePrepared, ArmRollback, MarkArmed, MarkActivating,
        MarkActivated, Mark, SelectCandidate, OwnCandidate, ActivateCandidate,
        ReconcileDDNSTimer, EnableFirewall, RecoverApply, CancelRollback, Goto, FirstStep,
        StartedInv
  <2>3. CASE RollbackStep
    BY <1>s, <1>e, <2>3, StageRange
    DEF RollbackStep, InspectTable, DeleteTable, RemoveSelector, RemoveOwnership, FindStage,
        SelectPrevious, LoadPrevious, OwnPrevious, CheckRestored, RestoreEnablement,
        RestoreDDNSTimer, FinishRollback, Goto, Collect, RollbackReturns, StartedInv
  <2>4. [Next]_vars BY <1>1 DEF Ordinary, Next
  <2>5. CASE UNCHANGED running BY <1>u, <2>5 DEF running
  <2>6. CASE PassStart \/ (\E i \in TxIds : ConfirmStart(i))
             \/ (\E c \in {"unit", "reconcile"} : ReconcileStart(c))
             \/ (\E g \in Gens, i \in TxIds : ApplyStart(g, i))
    BY <2>6 DEF PassStart, ConfirmStart, ReconcileStart, ApplyStart, StartedInv
  <2>7. CASE ConfirmWrite BY <1>s, <1>e, <2>7 DEF ConfirmWrite, Goto, StartedInv
  <2> QED
    BY <1>e, <2>1, <2>2, <2>3, <2>4, <2>5, <2>6, <2>7, ProcessStep
<1>2. CASE UnitGone BY <1>2 DEF UnitGone, Goto, Collect, StartedInv
<1> QED
  BY <1>e, <1>u, <1>1, <1>2
  DEF PackageNext, DpkgStep, HostInstalled, HostWithout, Ordinary, packageVars, vars, process,
      running, PrermStart, PrermTable, PrermDisable, PrermVerify, RemoveFiles, Preinst, Unpack,
      BootWithoutUnits, TimerElapsesInVain

\* With a history that is decided every command under way but an apply is harmless.
LEMMA LooksQuiet ==
  ASSUME IInv, StartedInv, caller # "apply", TerminalHistory
  PROVE  pc \in QuietLabels
<1>1. Pending = {} BY TerminalIsSettled DEF IInv
<1>2. pc \notin BeforeActivating \cup SinceActivating \cup RollbackLabels \cup {"recover", "cf-write"}
  BY <1>1, Types
<1> QED
  BY <1>2
  DEF StartedInv, IInv, TypeOK, ProcessType, QuietLabels, BeforeActivating, SinceActivating,
      RollbackLabels, FreshLabels, UpdateLabels, LastLabels

\* Nor does one start that would change journal, table or enablement.
LEMMA QuietSteps ==
  ASSUME IInv, TerminalHistory, pc \in QuietLabels,
         \/ CommandStep
         \/ host = "up" /\ SystemdStep
         \/ host = "up" /\ OperatorStep /\ caller' # "apply"
  PROVE  UNCHANGED <<journal, fwEnabled, live>> /\ pc' \in QuietLabels
         /\ (host = "up" => host' = "up")
<1>1. ASSUME NEW i \in TxIds, NEW c, NEW rest, HasState(i), EnterRollback(i, c, rest)
      PROVE  pc' \in QuietLabels
  BY <1>1, TerminalIsSettled DEF IInv, EnterRollback, QuietLabels
<1>p. Pending = {} /\ \A i \in TxIds : journal[i].phase # "activated"
  BY TerminalIsSettled DEF IInv, TerminalHistory, TerminalPhases
<1>2. CASE CommandStep
  <2>1. CASE CancelRollback BY <2>1 DEF CancelRollback, Exit, QuietLabels, durable
  <2>2. CASE ReconcileEnd BY <2>2 DEF ReconcileEnd, Exit, QuietLabels, AfterReconcileUnit, durable
  <2>3. CASE PassEnd BY <2>3 DEF PassEnd, Exit, QuietLabels, durable, runtime
  <2>4. ASSUME NEW i \in TxIds, ReconcileNext(i)
        PROVE  UNCHANGED <<durable, live, host>> /\ pc' \in QuietLabels
    BY <1>1, <2>4 DEF ReconcileNext, IInv, TodoInv, runtime
  <2> QED
    BY <1>2, <2>1, <2>2, <2>3, <2>4
    DEF durable, CommandStep, QuietLabels, ApplyStep, RollbackStep, MakeTransactionDir,
        WritePrepared, ArmRollback, MarkArmed, MarkActivating, MarkActivated, Mark,
        SelectCandidate, OwnCandidate, ActivateCandidate, ReconcileDDNSTimer, EnableFirewall,
        RecoverApply, InspectTable, DeleteTable, RemoveSelector, RemoveOwnership, FindStage,
        SelectPrevious, LoadPrevious, OwnPrevious, CheckRestored, RestoreEnablement,
        RestoreDDNSTimer, FinishRollback, ConfirmWrite
<1>3. CASE SystemdStep /\ host = "up"
  <2>1. ASSUME NEW i \in TxIds, TimerElapses(i)
        PROVE  UNCHANGED <<durable, live, host>> /\ pc' \in QuietLabels
    BY <1>1, <2>1 DEF TimerElapses, TimerStarts
  <2>2. CASE ReconcileStart("unit")
    BY <2>2 DEF ReconcileStart, QuietLabels, runtime, durable
  <2>3. ASSUME NEW i \in TxIds, DeadlineMissed(i)
        PROVE  UNCHANGED <<durable, live, host, pc>>
    BY <2>3 DEF DeadlineMissed, process, running
  <2> QED BY <1>3, <2>1, <2>2, <2>3 DEF SystemdStep, BootFirewall, durable
<1>4. CASE OperatorStep /\ caller' # "apply"
  <2>1. ASSUME NEW i \in TxIds, ConfirmStart(i) PROVE pc' \in QuietLabels
    BY <1>p, <2>1 DEF ConfirmStart, MayConfirm, QuietLabels
  <2>2. OperatorStep =>
          \/ \E i \in TxIds : ConfirmStart(i)
          \/ PassStart
          \/ \E g \in Gens : ApplyAlreadyActive(g)
    BY <1>4, <1>p DEF OperatorStep, OperatorRollback, ReconcileStart, ApplyStart
  <2> QED
    BY <1>4, <2>1, <2>2
    DEF ConfirmStart, PassStart, ApplyAlreadyActive, QuietLabels, durable, runtime, process,
        running
<1> QED BY <1>2, <1>3, <1>4

LEMMA DpkgKeepsQuiet == ASSUME PInv, DpkgStep, Looks PROVE QuietInv'
<1> USE DEF Proceed, Refuse, Removing
<1>q. QuietInv /\ StartedInv /\ IInv BY DEF PInv
<1>b. raced' \in BOOLEAN BY <1>q, Zenon DEF QuietInv, Looks
<1>1. CASE PrermStart
  <2>1. UNCHANGED <<journal, pc, caller, host, assets>> /\ host = "up" /\ assets = "installed"
        /\ TerminalHistory /\ dpkg = "none" /\ dpkg' = "rm-table"
    BY <1>1 DEF PrermStart, vars, durable, runtime, process, running
  <2>2. ~raced' => caller # "apply" BY <2>1 DEF Looks
  <2> QED BY <1>b, <1>q, <2>1, <2>2, LooksQuiet DEF QuietInv, TerminalHistory
<1>2. CASE PrermTable
  <2>1. UNCHANGED <<journal, pc, host, live, fwEnabled, assets>> /\ dpkg = "rm-table"
        /\ dpkg' \in {"rm-disable", "none"} /\ faults \in Nat
    BY <1>2, <1>q
    DEF PrermTable, IInv, TypeOK, HostType, durable, runtime, process, running
  <2>2. ~raced' => ~raced BY <2>1 DEF Looks
  <2>3. dpkg' = "rm-disable" /\ ~blind' => live = None
    <3>1. faults' # faults => blind' BY <2>1, Zenon DEF Looks
    <3>2. dpkg' = "rm-disable" /\ live # None => faults' = faults + 1
      BY <1>2, <2>1 DEF PrermTable, Fault
    <3> QED BY <2>1, <3>1, <3>2
  <2> QED BY <1>b, <1>q, <2>1, <2>2, <2>3, SentinelAssumption DEF QuietInv, TerminalHistory
<1>3. CASE PrermDisable
  <2>1. UNCHANGED <<journal, host, live, assets>> /\ dpkg = "rm-disable" /\ fwEnabled' = FALSE
        /\ dpkg' \in {"rm-verify", "none"} /\ (pc \in QuietLabels => pc' \in QuietLabels)
    BY <1>3 DEF PrermDisable, Exit, process, running, QuietLabels
  <2>2. (~raced' => ~raced) /\ (blind' = blind) BY <2>1 DEF Looks
  <2> QED BY <1>b, <1>q, <2>1, <2>2 DEF QuietInv, TerminalHistory
<1>4. CASE PrermVerify
  <2>1. UNCHANGED <<journal, pc, host, live, fwEnabled, assets>> /\ dpkg = "rm-verify"
        /\ dpkg' \in {"none", "rm-files"} /\ (dpkg' = "rm-files" => ~fwEnabled)
    BY <1>4 DEF PrermVerify, vars, durable, runtime, process, running
  <2>2. (~raced' => ~raced) /\ (blind' = blind) BY <2>1 DEF Looks
  <2> QED BY <1>b, <1>q, <2>1, <2>2 DEF QuietInv, TerminalHistory
<1>5. CASE RemoveFiles
  <2>1. UNCHANGED <<journal, pc, host, live, fwEnabled>> /\ dpkg = "rm-files"
        /\ dpkg' = "none" /\ assets' = "removed"
    BY <1>5 DEF RemoveFiles, vars, durable, runtime, process, running
  <2>2. (~raced' => ~raced) /\ (blind' = blind) BY <2>1 DEF Looks
  <2> QED BY <1>b, <1>q, <2>1, <2>2 DEF QuietInv, TerminalHistory
<1>6. CASE Preinst
  <2>1. UNCHANGED <<journal, pc, caller, host, live, fwEnabled, assets>> /\ host = "up"
        /\ TerminalHistory /\ dpkg = "none" /\ dpkg' = "unpack"
    BY <1>6 DEF Preinst, vars, durable, runtime, process, running
  <2>2. (~raced' => caller # "apply") /\ (assets = "removed" /\ ~raced' => ~raced)
        /\ (blind' = blind)
    BY <2>1 DEF Looks
  <2> QED BY <1>b, <1>q, <2>1, <2>2, LooksQuiet DEF QuietInv, TerminalHistory
<1>7. CASE Unpack
  <2>1. dpkg' = "none" /\ assets' = "installed"
    BY <1>7 DEF Unpack
  <2> QED BY <1>b, <2>1 DEF QuietInv
<1> QED BY <1>1, <1>2, <1>3, <1>4, <1>5, <1>6, <1>7 DEF DpkgStep

\* A host that is up goes down by a reboot only.
LEMMA HostStays ==
  ASSUME CommandStep \/ OperatorStep \/ SystemdStep, host = "up" PROVE host' = "up"
BY DEF CommandStep, OperatorStep, SystemdStep, ApplyStep, RollbackStep, MakeTransactionDir,
       WritePrepared, ArmRollback, MarkArmed, MarkActivating, MarkActivated, Mark,
       SelectCandidate, OwnCandidate, ActivateCandidate, ReconcileDDNSTimer, EnableFirewall,
       RecoverApply, CancelRollback, InspectTable, DeleteTable, RemoveSelector, RemoveOwnership,
       FindStage, SelectPrevious, LoadPrevious, OwnPrevious, CheckRestored, RestoreEnablement,
       RestoreDDNSTimer, FinishRollback, ConfirmWrite, ReconcileNext, ReconcileEnd,
       AfterReconcileUnit, PassStart, PassEnd, ApplyStart, ApplyAlreadyActive, ConfirmStart,
       OperatorRollback, ReconcileStart, TimerElapses, DeadlineMissed, BootFirewall, runtime

LEMMA QuietKeeps == ASSUME PInv, [PackageNext]_packageVars PROVE QuietInv'
<1> USE DEF Removing
<1>t. QuietInv /\ IInv /\ assets \in {"installed", "removed"} BY DEF PInv, QuietInv
<1>1. CASE DpkgStep /\ Looks BY <1>1, DpkgKeepsQuiet
<1>2. CASE UNCHANGED packageVars
  BY <1>2, <1>t
  DEF packageVars, packaging, vars, durable, runtime, process, running, QuietInv, TerminalHistory
<1>3. CASE Looks /\ UNCHANGED packaging /\ UNCHANGED <<journal, fwEnabled>>
           /\ (dpkg # "none" => host' = "up")
           /\ ((dpkg # "none" \/ assets = "removed") /\ ~raced /\ ~raced' =>
                 /\ pc' \in QuietLabels
                 /\ live \notin Gens => live' \notin Gens)
  <2>1. raced' \in BOOLEAN BY <1>3, <1>t, Zenon DEF QuietInv, Looks
  <2>2. (dpkg # "none" \/ assets = "removed") /\ ~raced' => ~raced
    BY <1>3 DEF Looks, packaging
  <2>3. dpkg # "rm-table" => blind' = blind BY <1>3 DEF Looks
  <2> QED BY <1>3, <1>t, <2>1, <2>2, <2>3 DEF packaging, QuietInv, TerminalHistory
<1>4. CASE HostInstalled /\ UNCHANGED packaging /\ Looks
  <2>1. CASE dpkg = "none"
    BY <1>4, <1>t, <2>1, Zenon DEF HostInstalled, packaging, QuietInv, Looks
  <2>2. CASE dpkg # "none"
    <3>1. host = "up" BY <1>t, <2>2 DEF QuietInv
    <3>2. CASE raced'
      <4>1. host' = "up" BY <1>4, <3>1, HostStays DEF HostInstalled
      <4> QED BY <1>4, <1>t, <2>2, <3>2, <4>1 DEF packaging, QuietInv
    <3>3. CASE ~raced'
      <4>1. ~raced /\ caller' # "apply" BY <1>4, <2>2, <3>3 DEF Looks, packaging
      <4>2. TerminalHistory /\ pc \in QuietLabels BY <1>t, <2>2, <4>1 DEF QuietInv
      <4>3. UNCHANGED <<journal, fwEnabled, live>> /\ pc' \in QuietLabels /\ host' = "up"
        BY <1>4, <1>t, <3>1, <4>1, <4>2, QuietSteps DEF HostInstalled
      <4> QED BY <1>3, <1>4, <4>3
    <3> QED BY <3>2, <3>3
  <2> QED BY <2>1, <2>2
<1>5. CASE HostWithout /\ UNCHANGED packaging /\ Looks
  <2>1. assets = "removed" BY <1>5 DEF HostWithout
  <2>2. host = "up" => host' = "up"
    BY <1>5, HostStays
    DEF HostWithout, UnitGone, BootWithoutUnits, TimerElapsesInVain, runtime
  <2>3. CASE ~raced
    <3>1. TerminalHistory /\ pc \in QuietLabels BY <1>t, <2>1, <2>3 DEF QuietInv
    <3>2. UNCHANGED <<journal, fwEnabled, live>> /\ pc' \in QuietLabels
      <4>1. CASE CommandStep BY <1>t, <3>1, <4>1, QuietSteps
      <4>2. CASE ~CommandStep
        BY <1>5, <3>1, <4>2
        DEF HostWithout, UnitGone, UnitSteps, QuietLabels, BootWithoutUnits,
            TimerElapsesInVain, durable, process, running
      <4> QED BY <4>1, <4>2
    <3> QED BY <1>3, <1>5, <1>t, <2>2, <3>2 DEF QuietInv
  <2>4. CASE raced
    <3>1. dpkg' = dpkg /\ assets' = assets BY <1>5 DEF packaging
    <3>2. raced' = TRUE BY <1>5, <1>t, <2>1, <2>4, <3>1 DEF Looks, QuietInv
    <3> QED BY <1>t, <2>2, <3>1, <3>2 DEF QuietInv
  <2> QED BY <1>t, <2>3, <2>4
<1>6. CASE (Kill \/ ExternalDelete \/ ForeignAppears) /\ UNCHANGED packaging /\ Looks
  <2>1. /\ UNCHANGED <<journal, fwEnabled>> /\ live' \in {live, None, Foreign}
        /\ pc \in QuietLabels => pc' \in QuietLabels
        /\ host = "up" => host' = "up"
    BY <1>6
    DEF Kill, ExternalDelete, ForeignAppears, Exit, AfterReconcileUnit, QuietLabels, durable,
        process, running
  <2> QED BY <1>3, <1>6, <1>t, <2>1, SentinelAssumption DEF QuietInv
<1>7. CASE Reboot /\ dpkg' = "none" /\ UNCHANGED assets /\ Looks
  <2>1. UNCHANGED <<journal, fwEnabled>> /\ live' = None /\ pc' \in QuietLabels
    BY <1>7 DEF Reboot, Exit, QuietLabels, durable
  <2>2. raced' = raced BY <1>7 DEF Looks
  <2> QED BY <1>7, <1>t, <2>1, <2>2, SentinelAssumption DEF QuietInv, TerminalHistory
<1> QED BY <1>1, <1>2, <1>4, <1>5, <1>6, <1>7 DEF PackageNext

\* Once its files are gone nothing is undecided, nothing would load a policy at boot
\* and none is in force, unless an apply ran beside the scripts or, for the last, nft
\* failed when it was asked for the table (src/packaging/debian/prerm).
THEOREM RemovalLeavesNothing == PackageSpec => []RemovedIsInert
<1>1. PackageInit => PInv BY PackageInitial
<1>2. PInv /\ [PackageNext]_packageVars => PInv'
  BY PackageKeepsHost, StartedKeeps, QuietKeeps DEF PInv
<1>3. PInv => RemovedIsInert
  BY TerminalIsSettled DEF PInv, IInv, QuietInv, RemovedIsInert
<1> QED BY <1>1, <1>2, <1>3, PTL DEF PackageSpec
=============================================================================
