------------------------ MODULE ActivationProperties ------------------------
(***************************************************************************)
(* What the activation system promises (src/SPEC.md, "Activation            *)
(* Transaction"; src/docs/operator-guide.md).                               *)
(***************************************************************************)
EXTENDS Activation

Becomes(i, phase) == journal[i].phase # phase /\ journal'[i].phase = phase
BootCompletes == host = "starting" /\ host' = "up"

\* The table is generation g's, unless another tool removed that and possibly
\* put its own in place.
IsStill(table, g) ==
  \/ table = g
  \/ table = None /\ "delete" \in Env
  \/ table = Foreign /\ "foreign" \in Env /\ (g = None \/ "delete" \in Env)
Holds(g) == IsStill(live, g)

-----------------------------------------------------------------------------
(* Invariants *)

\* Apply refuses while a transaction is pending, so whatever is killed, fails
\* or reboots, reconcile and confirm never face two of them.
AtMostOnePending == \A i, j \in Pending : i = j

\* With no transaction pending, ownership.json and the selector agree: every
\* later apply and rollback decides from both, and refuses when they differ.
OwnershipFollowsSelector == Pending = {} => ownership = active

\* With no transaction pending the selector names nothing or the policy the
\* operator confirmed last: no crash makes an unconfirmed selection permanent.
OnlyApprovedSettles == Pending = {} => active \in {None, approved}

\* A transaction whose journal says that nothing was mutated is rolled back
\* without touching selector, ownership or table; so until "activating" is
\* durable they must still be those of the previous generation.
JournalBeforeMutation ==
  \A i \in Pending : ~MutationsPossible(journal[i]) =>
    /\ ownership = active
    /\ live # journal[i].gen
    /\ active \in (IF FreshInstall(journal[i]) THEN {None, journal[i].gen}
                   ELSE {journal[i].prev})

\* The selector, and the selection a rollback would return to, always name a
\* generation that is completely on disk, so boot can load it.
SelectorResolves ==
  /\ active # None => active \in generations
  /\ \A i \in Pending :
       FreshInstall(journal[i]) \/ journal[i].prev \in generations

\* Once nothing is pending, the kernel holds no policy that was tried and
\* given up: the table is absent, foreign, or the selected generation's.
NoOrphanPolicy == Pending = {} => live \in {None, Foreign, active}

-----------------------------------------------------------------------------
(* Action properties *)

\* A confirmed or rolled-back transaction never changes again, although the
\* timer, the operator and reconcile may all still try to roll it back.
TerminalIsFinal ==
  [][\A i \in TxIds : journal[i].phase \in TerminalPhases
        => journal'[i] = journal[i]]_vars

\* The candidate reaches selector or kernel only while its dead-man timer is
\* armed: an apply that dies right after still ends by itself.
CandidateUnderDeadMan ==
  [][\A i \in Pending :
        \/ active' # active /\ active' = journal[i].gen
        \/ live' # live /\ live' = journal[i].gen
        => timers[i] = "armed"]_vars

\* A transaction is recorded as rolled back only when what it may have changed
\* is what it was before: selector, ownership, table, unit enablement, timer.
RolledBackMeansRestored ==
  [][\A i \in TxIds : Becomes(i, "rolled-back") =>
      LET t == journal[i] IN
      /\ active' = ownership' /\ fwEnabled' = t.wasEnabled
      /\ MutationsPossible(t) =>
           /\ active' = t.prev
           /\ IsStill(live', t.prev)
           /\ ddnsTimer' = (~FreshInstall(t) /\ DDNSOf[t.prev])]_vars

\* A transaction is confirmed only while selector, ownership and kernel all
\* hold its generation, although the checks precede the durable write.
ConfirmedIsLive ==
  [][\A i \in TxIds : Becomes(i, "confirmed") =>
       LET g == journal[i].gen IN active = g /\ ownership = g /\ Holds(g)]_vars

\* What the firewall unit loads at boot is the policy confirmed last, with no
\* transaction left pending, whatever was under way when the host went down.
BootLoadsApproved ==
  [][BootCompletes /\ live' # live => live' = approved /\ Pending = {}]_vars

\* Another program's table that a command, or the rollback it runs, begins over
\* is there until it ends, unless another tool removes it: whichever of its
\* checks comes when, nothing in between replaces or deletes the table.
ForeignUntouched ==
  [][met => live' = Foreign \/ (live' = None /\ faults' > faults)]_vars

\* The same of a table that appears while a command runs.
ForeignNeverReplaced ==
  [][live = Foreign /\ caller # "none"
      => live' = Foreign \/ (live' = None /\ faults' > faults)]_vars

-----------------------------------------------------------------------------
(* Recovery *)

\* The trial of transaction i is on: every piece of state is the candidate's
\* and the dead-man timer runs.
OnTrial(i) ==
  LET g == journal[i].gen IN
  /\ journal[i].phase = "activated" /\ timers[i] = "armed"
  /\ active = g /\ ownership = g /\ Holds(g)
  /\ fwEnabled /\ ddnsTimer = DDNSOf[g]

\* Nothing is pending and every piece of state is the approved policy's.
Restored ==
  Pending = {} /\ active = approved /\ ownership = approved /\ Holds(approved)

\* A failed update that recovery refuses: the candidate is selected and was
\* not loaded.
Unloaded(i) ==
  LET t == journal[i] IN
  /\ t.phase = "activating" /\ t.prev # None
  /\ active = t.gen /\ live # t.gen

\* An apply that ends by itself leaves the complete trial or the approved
\* policy: a failing step is undone by recoverApply before the command returns,
\* except in an update that is selected and not loaded.
FailedApplyIsUndone ==
  [][caller = "apply" /\ pc' = "idle" /\ faults' = faults
      => Restored' \/ \E i \in TxIds : OnTrial(i)' \/ Unloaded(i)']_vars

\* The one state of an interrupted update that reconciliation refuses at boot:
\* the candidate is selected and ownership is still the previous generation's.
HalfSwitched(i) ==
  LET t == journal[i] IN
  /\ t.phase = "activating" /\ t.prev # None
  /\ active = t.gen /\ ownership = t.prev

\* After the reconcile unit ran at boot it succeeded, whatever command was
\* interrupted where, except in an update between selection and ownership.
BootRefusesOnlyHalfSwitched ==
  host = "starting" => reconciled \/ \E i \in Pending : HalfSwitched(i)

\* After the reconcile unit ran at boot, it succeeded: no state an interrupted
\* command leaves is one that rollback refuses.
BootReconciles == host = "starting" => reconciled

\* A confirmed selection is loaded by the boot after it.
ApprovedSurvivesReboot ==
  [][BootCompletes /\ Pending = {} /\ approved # None
      => live' = approved]_vars

\* After boot the DDNS timer is what the selected generation asks for.
BootFixesDDNSTimer ==
  [][BootCompletes /\ Pending = {}
      => ddnsTimer = (active # None /\ DDNSOf[active])]_vars

\* Rolling a transaction back never loses the policy confirmed last.
ApprovedIsKept == Pending = {} => active = approved

-----------------------------------------------------------------------------
(* Liveness *)

\* An update that its rollback refuses, in disk and kernel as they are.
Unrecognised(t) ==
  ~FreshInstall(t) /\ MutationsPossible(t) /\ UpdateRollbackStage(t) = {}

\* The reconcile unit has yet to start at this boot, or went well so far.
BootRecovers == host = "booting" /\ ~failed /\ ~errs

\* Whatever was killed, failed or rebooted so far: if nothing more goes wrong, a
\* trial whose timer runs, or that a boot finds, is decided in the end, without
\* the operator and without the process that began it.  Two things prevent it:
\* the deadline fell into another command, or rollback refuses the update.
EveryTrialEnds ==
  \A i \in TxIds, n \in 0..MaxFaults :
    i \in Pending /\ faults = n /\ (timers[i] = "armed" \/ BootRecovers)
      ~> \/ i \notin Pending \/ faults > n
         \/ timers[i] = "missed" \/ (Idle /\ Unrecognised(journal[i]))

\* A transaction pending when its timer elapses is rolled back: the deadline
\* has no bypass.
DeadlineEnforced ==
  \A i \in TxIds :
    i \in Pending /\ timers[i] \in {"elapsed", "missed"}
      ~> journal[i].phase = "rolled-back"

-----------------------------------------------------------------------------
(* The inductive invariant behind the theorems of ActivationProof.           *)

RollbackLabels == {"rb-table", "rb-delete", "rb-unselect", "rb-disown", "rb-stage",
                   "rb-select", "rb-load", "rb-own", "rb-check", "rb-enable",
                   "rb-ddns", "rb-finish"}
FreshLabels == {"rb-table", "rb-delete", "rb-unselect", "rb-disown"}
UpdateLabels == {"rb-stage", "rb-select", "rb-load", "rb-own", "rb-check"}
LastLabels == {"rb-enable", "rb-ddns", "rb-finish"}
BeforeActivating == {"arm", "mark-armed", "mark-activating"}
SinceActivating == {"select", "own", "activate", "mark-activated", "ddns",
                    "enable"}

\* Where a rollback of t that touches nothing leaves the host.
UntouchedBase(t) ==
  /\ ownership = active /\ active \in {None, approved}
  /\ IF FreshInstall(t) THEN active \in {None, t.gen} ELSE active = t.prev

\* A transaction that can be resumed: it returns to nothing or to the policy
\* the operator approved.
SoundTx(t) ==
  t.gen \in Gens /\ t.prev # t.gen /\ t.prev \in {None, approved}

PendingInv ==
  \A i \in Pending :
    /\ SoundTx(journal[i])
    /\ ~MutationsPossible(journal[i]) => UntouchedBase(journal[i])

SettledInv == Pending = {} => ownership = active /\ active \in {None, approved}

StartInv ==
  pc \in {"mkdir", "prepare"} =>
    /\ Pending = {} /\ cur \in TxIds /\ ~HasState(cur)
    /\ SoundTx(tx) /\ tx.phase = "prepared" /\ UntouchedBase(tx)

ForwardInv ==
  /\ pc \in BeforeActivating \cup SinceActivating =>
       cur \in Pending /\ tx = journal[cur]
  /\ pc \in BeforeActivating => ~MutationsPossible(tx)
  /\ pc \in SinceActivating => MutationsPossible(tx)
  /\ pc = "recover" =>
       /\ cur \in Pending /\ tx.phase \in PendingPhases /\ SoundTx(tx)
       /\ ~MutationsPossible(tx) => UntouchedBase(tx)

RollbackInv ==
  /\ pc \in RollbackLabels => cur \in Pending /\ tx = journal[cur]
  /\ pc \in FreshLabels => FreshInstall(tx) /\ MutationsPossible(tx)
  /\ pc \in UpdateLabels => ~FreshInstall(tx) /\ MutationsPossible(tx)
  /\ pc = "rb-disown" /\ ~failed => active = None
  /\ pc \in LastLabels /\ MutationsPossible(tx) /\ ~failed =>
       active = tx.prev /\ ownership = tx.prev

ConfirmInv ==
  pc = "cf-write" =>
    /\ cur \in Pending /\ tx = journal[cur]
    /\ active = tx.gen /\ ownership = tx.gen

TodoInv == \A i \in todo : HasState(i)

\* What every step preserves and the safety theorems follow from.
IInv ==
  /\ TypeOK /\ AtMostOnePending /\ PendingInv /\ SettledInv
  /\ StartInv /\ ForwardInv /\ RollbackInv /\ ConfirmInv /\ TodoInv

(* What the kernel, the units and the timers hold while a command works: with    *)
(* IInv it is inductive, and the remaining safety properties follow from it.     *)

\* Who runs: apply needs a running host, and only reconcile has a list.
WhoInv ==
  /\ pc \in {"mkdir", "prepare"} => host = "up"
  /\ pc \in {"arm", "mark-armed", "mark-activating"} \cup SinceActivating \cup {"mkdir", "prepare"}
       => caller = "apply"
  /\ pc = "idle" => caller = "none"
  /\ pc = "rc-next" => caller \in {"reconcile", "unit"}

\* A reconcile without errors leaves nothing pending behind.
ReconcileInv ==
  /\ pc = "rc-next" /\ ~errs => Pending \subseteq todo
  /\ host = "starting" /\ reconciled => Pending = {}

\* The host a rollback of t that touches nothing leaves.
UntouchedHost(t) == live \in {None, Foreign, t.prev} /\ fwEnabled = t.wasEnabled

UntouchedInv ==
  /\ \A i \in Pending : ~MutationsPossible(journal[i]) => UntouchedHost(journal[i])
  /\ pc \in {"mkdir", "prepare"} => UntouchedHost(tx)
  /\ pc = "recover" /\ ~MutationsPossible(tx) => UntouchedHost(tx)

\* On the way to a load or delete of the table, or to the next command.
BeforeLoad == {"mkdir", "prepare", "arm", "mark-armed", "mark-activating", "select",
               "own", "activate", "rb-select", "rb-load", "rb-delete", "idle"}

KernelInv ==
  /\ Pending = {} => live \in {None, Foreign, active}
  /\ pc = "cf-write" => Holds(tx.gen)
  /\ met => live = Foreign /\ pc \notin BeforeLoad

\* What a rollback without an error has restored so far.
RestoredInv ==
  ~failed =>
    /\ pc \in {"rb-unselect", "rb-disown"} => Holds(None)
    /\ pc \in LastLabels /\ MutationsPossible(tx) => Holds(tx.prev)
    /\ pc \in {"rb-ddns", "rb-finish"} => fwEnabled = tx.wasEnabled
    /\ pc = "rb-finish" /\ MutationsPossible(tx) => ddnsTimer = DDNSBefore

DeadManInv ==
  pc \in {"mark-armed", "mark-activating"} \cup SinceActivating =>
    timers[cur] = "armed" \/ "slow" \in Env

\* The generations of t are on disk.
OnDisk(t) == t.gen \in generations /\ t.prev \in generations \cup {None}

DiskInv ==
  /\ active \in generations \cup {None}
  /\ \A i \in Pending : OnDisk(journal[i])
  /\ pc \in {"mkdir", "prepare", "recover"} => OnDisk(tx)

HostInv ==
  /\ WhoInv /\ ReconcileInv /\ UntouchedInv /\ KernelInv /\ RestoredInv
  /\ DeadManInv /\ DiskInv

-----------------------------------------------------------------------------
(* The same for one fault.  OneFaultInv is inductive together with IInv and HostInv  *)
(* when MaxFaults is at most 1: a reboot then finds the disk where a faultless       *)
(* command had it, and a command that undoes a failure meets no other.               *)

\* Which command holds the lock at a label that several may share.
CallerInv ==
  /\ pc = "cf-write" => caller = "confirm"
  /\ pc = "pass" => caller = "other"
  /\ caller = "unit" => ~reconciled

\* How far the apply has come, by its label, whatever fails elsewhere.
TrialInv ==
  /\ pc \in {"own", "activate", "mark-activated", "ddns", "enable"} => active = tx.gen
  /\ pc \in {"activate", "mark-activated", "ddns", "enable"} => ownership = tx.gen
  /\ pc \in {"mark-activated", "ddns", "enable"} => Holds(tx.gen)
  /\ pc \in {"select", "own", "activate", "mark-activated"} => tx.phase = "activating"
  /\ pc \in {"ddns", "enable"} => tx.phase = "activated"
  /\ pc = "enable" => ddnsTimer = DDNSOf[tx.gen]

\* Labels between commands, and of those that leave the host alone.
RestingLabels == {"idle", "pass", "cf-write", "cancel", "rc-next"}
\* Where the selector, ownership and table of a pending transaction are the
\* candidate's, unless something went wrong.
TriedLabels == RestingLabels \cup {"mark-activated", "ddns", "enable", "rb-table",
                                   "rb-delete", "rb-stage", "rb-select"}
SelectedLabels == TriedLabels \cup {"own", "activate", "rb-unselect"}
OwnedLabels ==
  TriedLabels \cup {"activate", "rb-unselect", "rb-disown", "rb-load", "rb-own"}
LoadedLabels == TriedLabels \cup {"rb-load"}

\* Each of the three is where a transaction t that meets no fault has put it.
Switching(t) ==
  /\ active = IF pc \in SelectedLabels THEN t.gen ELSE t.prev
  /\ ownership = IF pc \in OwnedLabels THEN t.gen ELSE t.prev
  /\ live = IF pc \in LoadedLabels THEN t.gen ELSE t.prev

\* The approved policy is selected and will be loaded by a boot.
Approved == active = approved /\ (approved # None => fwEnabled)

\* A rollback of t returns to that.
ReturnsToApproved(t) == t.prev = approved /\ (approved # None => t.wasEnabled)

\* Before the first fault every transaction is where its label puts it.
FaultlessInv ==
  faults = 0 =>
    /\ reconciled /\ host = "up" /\ ~failed /\ ~errs /\ pc # "recover"
    /\ Pending = {} => Approved /\ ownership = approved /\ live = approved
    /\ pc \in {"mkdir", "prepare"} => ReturnsToApproved(tx)
    /\ \A i \in Pending :
         /\ ReturnsToApproved(journal[i]) /\ Switching(journal[i])
         /\ pc \in RestingLabels => fwEnabled
         /\ pc \in RestingLabels \cup RollbackLabels => journal[i].phase = "activated"

\* What a failing apply leaves for its own rollback: the three were changed in
\* order, the phase says how far at least.
Partly(t) ==
  /\ active \in {t.gen, t.prev} /\ ownership \in {t.gen, t.prev}
  /\ live \in {t.gen, t.prev}
  /\ ownership = t.gen => active = t.gen
  /\ live = t.gen => ownership = t.gen
  /\ t.phase = "activated" => live = t.gen
  /\ ~MutationsPossible(t) => active = t.prev

\* An apply that undoes what a fault interrupted meets no other.
UndoInv ==
  /\ caller = "apply" /\ pc \in {"recover"} \cup RollbackLabels =>
       /\ faults > 0 /\ ~failed /\ tx.prev = approved
       /\ pc \in {"recover", "rb-table", "rb-delete", "rb-stage"} => Partly(tx)
       /\ pc = "rb-delete" => live = tx.gen
       /\ pc \in (UpdateLabels \ {"rb-stage"}) \cup LastLabels => Switching(tx)
       /\ pc \in {"rb-unselect", "rb-disown"} =>
            live = None /\ active \in {tx.gen, None} /\ ownership \in {tx.gen, None}
       /\ pc = "rb-disown" => active = None
  /\ caller = "apply" /\ pc = "cancel" =>
       /\ faults > 0 /\ Pending = {}
       /\ active = approved /\ ownership = approved /\ live = approved

\* Selector and ownership of an interrupted transaction t as a boot finds them,
\* and as its rollback changes them.
Interrupted(t) ==
  /\ active \in {t.gen, t.prev} /\ ownership \in {t.gen, t.prev}
  /\ ~MutationsPossible(t) \/ pc \in LastLabels => active = t.prev /\ ownership = t.prev
  /\ t.phase = "activated" /\ active = t.gen => ownership = t.gen
  /\ pc \in {"rb-disown", "rb-load", "rb-own", "rb-check"} => active = t.prev
  /\ pc = "rb-check" => ownership = t.prev
  /\ pc = "rb-select" => active = t.gen /\ ownership = t.gen
  /\ pc \notin LastLabels =>
       live = IF pc \in {"rb-own", "rb-check"} THEN t.prev ELSE None

\* After a reboot the fault is spent.
BootInv ==
  host # "up" \/ ~reconciled =>
    /\ faults > 0 /\ ~failed /\ caller # "apply"
    /\ \A i \in TxIds : timers[i] = "off"
    /\ pc \in {"idle", "rc-next", "pass", "cancel"} \cup (RollbackLabels \ {"rb-delete"})
    /\ host = "booting" => ~reconciled /\ caller \in {"none", "unit"}
    /\ host = "starting" => pc = "idle"
    /\ errs \/ (~reconciled /\ host # "booting") => \E i \in Pending : HalfSwitched(i)
    /\ Pending = {} => Approved
    /\ \A i \in Pending : ReturnsToApproved(journal[i]) /\ Interrupted(journal[i])

OneFaultInv == CallerInv /\ TrialInv /\ FaultlessInv /\ UndoInv /\ BootInv
-----------------------------------------------------------------------------
(* The system implements TrialSwitch: the pending transaction is the trial, and  *)
(* the policy is the selection its rollback would leave.                          *)

OnlyPending == CHOOSE i \in Pending : TRUE

\* What rolling t back now would select.
ReturnsTo(t) == IF MutationsPossible(t) THEN t.prev ELSE active

Policy == IF Pending = {} THEN active ELSE ReturnsTo(journal[OnlyPending])
Trial == IF Pending = {} THEN None ELSE journal[OnlyPending].gen

Switch == INSTANCE TrialSwitch WITH
  policy <- Policy, trial <- Trial, accepted <- approved

\* SPEC.md, "Activation Transaction": whatever steps, crashes, faults and retries
\* lie in between, the selection changes by an accepted trial only, and a trial
\* that ends otherwise leaves the selection it found.
SelectionByTrialOnly == Switch!Spec
=============================================================================
