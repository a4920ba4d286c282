---------------------------- MODULE FirewallState ----------------------------
(***************************************************************************)
(* The state the activation commands of cnftctl share, and the questions   *)
(* they ask of it (src/internal/apply/apply.go).                           *)
(*                                                                         *)
(* Durable (survives a crash and a reboot):                                *)
(*   journal      transactions/ID/state.json, one entry per transaction ID *)
(*   active       target of the symlink /var/lib/cnftctl/active            *)
(*   ownership    generation named by ownership.json (None: no such file)  *)
(*   generations  complete directories under generations/                  *)
(*   fwEnabled    cnftctl-firewall.service is enabled                      *)
(*   ddnsTimer    cnftctl-ddns-refresh.timer is enabled and running        *)
(* Runtime:                                                                *)
(*   live         generation marker of table inet hostfw in the kernel     *)
(*   timers       cnftctl-rollback@ID.timer                                *)
(*   reconciled   cnftctl-reconcile.service is active                      *)
(*   host         boot progress                                            *)
(* The process holding /run/cnftctl/apply.lock:                            *)
(*   pc           its next step; "idle" when the lock is free              *)
(*   caller       the command it runs                                      *)
(*   cur, tx      the transaction it works on and its copy in memory       *)
(*   todo         pending transactions reconcile has yet to roll back      *)
(*   failed       actionErrs of the current rollback is not empty          *)
(*   errs         an earlier rollback of this reconcile failed             *)
(* faults counts injected faults.  History variables: approved, the        *)
(* generation of the last transaction the operator confirmed; met, that    *)
(* the running command, or the rollback it runs, began over another        *)
(* program's table, which is still there.                                  *)
(***************************************************************************)
EXTENDS Naturals, FiniteSets

CONSTANTS
  Gens,       \* generation hashes an apply can produce
  TxIds,      \* transaction IDs newID can draw
  DDNSOf,     \* generation -> its manifest asks for the DDNS timer
  None,       \* absence: no generation, no file, no table
  Foreign,    \* a table inet hostfw that carries no cnftctl marker
  Env,        \* faults and outside events the environment may inject
  MaxFaults   \* bound on how many of them happen in one behaviour

VARIABLES journal, active, ownership, generations, fwEnabled, ddnsTimer,
          live, timers, reconciled, host,
          pc, caller, cur, tx, todo, failed, errs, met,
          faults, approved

durable == <<journal, active, ownership, generations, fwEnabled, ddnsTimer>>
runtime == <<live, timers, reconciled, host>>
running == <<pc, caller, cur, tx, todo, failed, errs>>
process == <<running, met>>
vars == <<durable, runtime, process, faults, approved>>

ASSUME DDNSAssumption == DDNSOf \in [Gens -> BOOLEAN]
ASSUME SentinelAssumption ==
  None \notin Gens \cup TxIds /\ Foreign \notin Gens /\ None # Foreign
ASSUME FaultAssumption == MaxFaults \in Nat

-----------------------------------------------------------------------------
(* Transactions.  Confirmed and RolledBack of the source are always set      *)
(* together with the phase of the same name; FreshInstall is "no previous    *)
(* generation".  "none": the directory does not exist; "dir": it exists and  *)
(* state.json does not.                                                      *)

PendingPhases == {"prepared", "armed", "activating", "activated"}
TerminalPhases == {"confirmed", "rolled-back"}
Phases == {"none", "dir"} \cup PendingPhases \cup TerminalPhases

Transaction == [phase : Phases, gen : Gens \cup {None},
                prev : Gens \cup {None}, wasEnabled : BOOLEAN]
NoTx == [phase |-> "none", gen |-> None, prev |-> None, wasEnabled |-> FALSE]

FreshInstall(t) == t.prev = None
\* Mutation: a transaction that died while activating counts as unmutated.
MutationsPossibleOnceActivated(t) == t.phase = "activated"
\* Selector, ownership or table may already be the candidate's.
MutationsPossible(t) == t.phase \in {"activating", "activated"}

\* Transactions with a readable state.json that is neither confirmed nor
\* rolled back.
Pending == {i \in TxIds : journal[i].phase \in PendingPhases}

\* A rollback by ID finds a state.json.
HasState(i) == journal[i].phase \notin {"none", "dir"}

TableAbsent == live = None

-----------------------------------------------------------------------------
(* updateRollbackStage: the set holding the stage of an update rollback, and *)
(* empty when the states on disk and in the kernel are not recognised.       *)

StageWithoutTable(t) ==
  IF active = t.gen /\ ownership = t.gen THEN {0}
  ELSE IF active = t.prev /\ ownership \in {t.gen, t.prev} THEN {1}
  ELSE {}

StageWithTable(t) ==
  LET states == << <<t.gen, t.gen, t.gen>>, <<t.prev, t.gen, t.gen>>,
                   <<t.prev, t.gen, t.prev>>, <<t.prev, t.prev, t.prev>> >>
  IN {s \in 0..3 : states[s + 1] = <<active, ownership, live>>}

UpdateRollbackStage(t) ==
  IF TableAbsent THEN StageWithoutTable(t) ELSE StageWithTable(t)

\* Mutation: only the selector is compared.
VerifyActivatedBySelector(t) == active = t.gen
\* verifyActivated: selector, ownership and live marker all name t's generation.
VerifyActivated(t) == active = t.gen /\ ownership = t.gen /\ live = t.gen

\* Mutation: without a previous generation any table is taken over.
CheckOwnershipOfKnown(base) ==
  live = None \/ base = None \/ (ownership = base /\ live = base)
\* checkOwnership: an existing table must be the one base left behind.
CheckOwnership(base) ==
  live = None \/ (base # None /\ ownership = base /\ live = base)

-----------------------------------------------------------------------------
(* Faults: a durable write or a command may fail while kind is in Env and    *)
(* the budget lasts.                                                         *)

Fault(kind) == kind \in Env /\ faults < MaxFaults /\ faults' = faults + 1
NoFault == faults' = faults

\* The command ends: the process exits and its lock is released.
Exit ==
  /\ pc' = "idle" /\ caller' = "none" /\ cur' = None /\ tx' = NoTx
  /\ todo' = {} /\ failed' = FALSE /\ errs' = FALSE /\ met' = FALSE

Goto(label) == pc' = label /\ UNCHANGED <<caller, cur, tx, todo, failed, errs, met>>

Idle == pc = "idle"

\* A command takes the lock.
TakesLock == met' = (live = Foreign)

(* writeTransaction replaces state.json by rename and syncs the directory:    *)
(* when it reports an error the new content may or may not be in place.       *)
Written(t) == journal' = [journal EXCEPT ![cur] = t]
MaybeWritten(t) == journal' \in {journal, [journal EXCEPT ![cur] = t]}

HostType ==
  /\ journal \in [TxIds -> Transaction]
  /\ active \in Gens \cup {None} /\ ownership \in Gens \cup {None}
  /\ generations \in SUBSET Gens
  /\ fwEnabled \in BOOLEAN /\ ddnsTimer \in BOOLEAN
  /\ live \in Gens \cup {None, Foreign}
  /\ timers \in [TxIds -> {"off", "armed", "elapsed", "missed"}]
  /\ reconciled \in BOOLEAN /\ host \in {"booting", "starting", "up"}
  /\ faults \in Nat /\ approved \in Gens \cup {None}

ProcessType ==
  /\ pc \in {"idle", "mkdir", "prepare", "arm", "mark-armed",
             "mark-activating", "select", "own", "activate",
             "mark-activated", "ddns", "enable", "recover", "cancel",
             "rb-table", "rb-delete", "rb-unselect", "rb-disown", "rb-stage",
             "rb-select", "rb-load", "rb-own", "rb-check", "rb-enable",
             "rb-ddns", "rb-finish", "cf-write", "rc-next", "pass"}
  /\ caller \in {"none", "apply", "restore", "reconcile", "unit",
                 "confirm", "other"}
  /\ cur \in TxIds \cup {None} /\ tx \in Transaction
  /\ todo \in SUBSET TxIds /\ failed \in BOOLEAN /\ errs \in BOOLEAN
  /\ met \in BOOLEAN

TypeOK == HostType /\ ProcessType
=============================================================================
