----------------------------- MODULE DockerProof -----------------------------
(***************************************************************************)
(* `docker backend write` writes what was validated and loses only what was    *)
(* changed after its last reading, for any number of commands and edits.        *)
(***************************************************************************)
EXTENDS DockerBackend, TLAPS

Stages == {"idle", "planned", "unchanged", "accepted", "checked", "backing", "staging"}
Commands == [at : Stages, rooted : BOOLEAN, before : Contents \cup {None}, backup : Number \cup {None}]

TypeOK ==
  /\ file \in Contents \cup {None}
  /\ backups \in [Number -> Contents \cup {None, Partial}]
  /\ cmd \in [Cmds -> Commands]
  /\ edits \in Nat /\ late \in BOOLEAN

\* What a command goes on with could be planned on, and dockerd accepted it if it
\* was asked.
Accepted(r) == r.rooted \/ After(r.before).keys \in AcceptedKeys

PlansHold ==
  \A c \in Cmds :
    /\ ~At(c, "idle") => Plannable(cmd[c].before)
    /\ cmd[c].at \in Committed \cup {"accepted"} => Accepted(cmd[c])

\* Every command that is writing a backup has a number of its own.
BackupsOwned ==
  \A c \in Cmds : At(c, "backing") =>
    /\ cmd[c].backup \in Number /\ backups[cmd[c].backup] = Partial
    /\ cmd[c].before # None
    /\ \A d \in Cmds : d # c /\ At(d, "backing") => cmd[d].backup # cmd[c].backup

BackupsKept ==
  \A c \in Cmds : At(c, "staging") => cmd[c].before = None \/ BackedUp(cmd[c].before)

\* Since its last reading nobody but another of these commands changed the file.
KeysKept ==
  ~late => \A c \in Cmds : cmd[c].at \in Committed =>
    file # Garbage /\ InspectDaemonJSON(file).keys = InspectDaemonJSON(cmd[c].before).keys

IInv == TypeOK /\ PlansHold /\ BackupsOwned /\ BackupsKept /\ KeysKept

-----------------------------------------------------------------------------

USE DockerAssumption, ContentsAssumption

LEMMA KeysOf ==
  ASSUME NEW x \in Contents \cup {None}, x # Garbage
  PROVE  /\ InspectDaemonJSON(x).keys \in Keys
         /\ After(x) \in Contents /\ After(x) # Garbage
         /\ After(x).keys = InspectDaemonJSON(x).keys
         /\ InspectDaemonJSON(After(x)).keys = InspectDaemonJSON(x).keys
<1>1. InspectDaemonJSON(x).keys \in Keys
  BY DEF InspectDaemonJSON, Contents, Documents
<1>2. After(x) \in Documents /\ After(x).keys = InspectDaemonJSON(x).keys
  BY <1>1 DEF After, Documents, Settings
<1>3. InspectDaemonJSON(After(x)) = After(x)
  BY <1>2 DEF InspectDaemonJSON, Contents
<1> QED BY <1>1, <1>2, <1>3 DEF Contents

LEMMA InitInv == Init => IInv
<1> SUFFICES ASSUME Init PROVE IInv OBVIOUS
<1>1. Idle \in Commands /\ Idle.at = "idle" BY DEF Idle, Commands, Stages
<1>2. TypeOK BY <1>1 DEF Init, TypeOK
<1>3. \A c \in Cmds : cmd[c].at = "idle" BY <1>1 DEF Init
<1>4. PlansHold /\ BackupsOwned /\ BackupsKept /\ KeysKept
  BY <1>3 DEF PlansHold, BackupsOwned, BackupsKept, KeysKept, Committed, At
<1> QED BY <1>2, <1>4 DEF IInv

\* Steps that change nothing but how far command c is.
LEMMA StageInv ==
  ASSUME IInv, NEW c \in Cmds, UNCHANGED <<file, backups, edits, late>>,
         NEW r \in Commands, cmd' = [cmd EXCEPT ![c] = r],
         r.at # "idle" => Plannable(r.before),
         r.at \in Committed \cup {"accepted"} => Accepted(r),
         r.at # "backing",
         r.at = "staging" => r.before = None \/ BackedUp(r.before),
         ~late /\ r.at \in Committed =>
           file # Garbage /\ InspectDaemonJSON(file).keys = InspectDaemonJSON(r.before).keys
  PROVE  IInv'
<1> USE DEF IInv
<1>1. TypeOK' BY DEF TypeOK
<1>2. PlansHold' BY DEF TypeOK, PlansHold, At
<1>3. BackupsOwned' BY DEF TypeOK, BackupsOwned, At
<1>4. BackupsKept' BY DEF TypeOK, BackupsKept, At, BackedUp, Whole
<1>5. KeysKept' BY DEF TypeOK, KeysKept
<1> QED BY <1>1, <1>2, <1>3, <1>4, <1>5

LEMMA IdleInv ==
  ASSUME IInv, NEW c \in Cmds, Ends(c), UNCHANGED <<file, backups, edits, late>>
  PROVE  IInv'
<1>1. Idle \in Commands BY DEF Idle, Commands, Stages
<1> QED BY <1>1, StageInv DEF Ends, Idle, Committed

LEMMA PlanInv ==
  ASSUME IInv, NEW c \in Cmds, NEW rooted \in BOOLEAN, PlanNftablesBackend(c, rooted)
  PROVE  IInv'
<1> DEFINE r == [at |-> IF Changed(file) THEN "planned" ELSE "unchanged", rooted |-> rooted,
                 before |-> file, backup |-> None]
<1>1. r \in Commands BY DEF Commands, Stages, IInv, TypeOK
<1>2. r.at \in {"planned", "unchanged"} /\ r.before = file OBVIOUS
<1> HIDE DEF r
<1>3. cmd' = [cmd EXCEPT ![c] = r] BY DEF PlanNftablesBackend, r
<1> QED BY <1>1, <1>2, <1>3, StageInv DEF PlanNftablesBackend, Committed

LEMMA GoInv ==
  ASSUME IInv, NEW c \in Cmds, NEW st \in Stages \ {"idle", "backing"}, Goes(c, st), ~At(c, "idle"),
         UNCHANGED <<file, backups, edits, late>>,
         st \in Committed \cup {"accepted"} => Accepted(cmd[c]),
         st = "staging" => cmd[c].before = None \/ BackedUp(cmd[c].before),
         ~late /\ st \in Committed => file # Garbage
           /\ InspectDaemonJSON(file).keys = InspectDaemonJSON(cmd[c].before).keys
  PROVE  IInv'
<1> DEFINE r == [cmd[c] EXCEPT !.at = st]
<1>1. r \in Commands /\ r.at = st /\ r.before = cmd[c].before /\ (Accepted(cmd[c]) => Accepted(r))
  BY DEF Commands, IInv, TypeOK, Accepted
<1>2. Plannable(cmd[c].before) BY DEF IInv, PlansHold
<1> HIDE DEF r
<1>3. cmd' = [cmd EXCEPT ![c] = r] BY DEF Goes, r
<1> QED BY <1>1, <1>2, <1>3, StageInv

LEMMA ValidatedInv == ASSUME IInv, NEW c \in Cmds, Validated(c) PROVE IInv'
BY GoInv DEF Validated, At, Stages, Committed, Accepted

LEMMA RecheckInv == ASSUME IInv, NEW c \in Cmds, Recheck(c) PROVE IInv'
<1>1. CASE file = cmd[c].before
  <2>1. Plannable(cmd[c].before) /\ Accepted(cmd[c])
    BY DEF Recheck, At, IInv, PlansHold
  <2> QED BY <1>1, <2>1, GoInv DEF Recheck, At, Stages, Plannable
<1>2. CASE file # cmd[c].before BY <1>2, IdleInv DEF Recheck
<1> QED BY <1>1, <1>2

LEMMA NothingToBackUpInv == ASSUME IInv, NEW c \in Cmds, NothingToBackUp(c) PROVE IInv'
<1>1. /\ Accepted(cmd[c])
      /\ ~late => file # Garbage
           /\ InspectDaemonJSON(file).keys = InspectDaemonJSON(cmd[c].before).keys
  BY DEF NothingToBackUp, At, IInv, PlansHold, KeysKept, Committed
<1> QED BY <1>1, GoInv DEF NothingToBackUp, At, Stages

LEMMA CreateBackupInv == ASSUME IInv, NEW c \in Cmds, createBackup(c) PROVE IInv'
<1>1. CASE Ends(c) /\ UNCHANGED backups BY <1>1, IdleInv DEF createBackup
<1>2. ASSUME NEW n \in Number, backups[n] = None, backups' = [backups EXCEPT ![n] = Partial],
             cmd' = [cmd EXCEPT ![c].at = "backing", ![c].backup = n]
      PROVE  IInv'
  <2> DEFINE r == [cmd[c] EXCEPT !.at = "backing", !.backup = n]
  <2>1. /\ r \in Commands /\ r.at = "backing" /\ r.before = cmd[c].before /\ r.backup = n
        /\ Accepted(cmd[c]) => Accepted(r)
    BY DEF Commands, Stages, IInv, TypeOK, Accepted
  <2> HIDE DEF r
  <2>2. cmd' = [cmd EXCEPT ![c] = r] BY <1>2 DEF r
  <2>3. At(c, "checked") /\ cmd[c].before # None /\ UNCHANGED <<file, edits, late>>
    BY DEF createBackup
  <2>4. TypeOK' BY <1>2, <2>1, <2>2, <2>3 DEF IInv, TypeOK
  <2>5. PlansHold' BY <2>1, <2>2, <2>3 DEF IInv, TypeOK, PlansHold, At, Committed
  <2>6. BackupsOwned' BY <1>2, <2>1, <2>2, <2>3 DEF IInv, TypeOK, BackupsOwned, At
  <2>7. \A x : BackedUp(x) => BackedUp(x)'
    BY <1>2 DEF IInv, TypeOK, BackedUp, Whole
  <2>8. BackupsKept' BY <2>1, <2>2, <2>7 DEF IInv, TypeOK, BackupsKept, At
  <2>9. KeysKept' BY <2>1, <2>2, <2>3 DEF IInv, TypeOK, KeysKept, At, Committed
  <2> QED BY <2>4, <2>5, <2>6, <2>8, <2>9 DEF IInv
<1> QED BY <1>1, <1>2 DEF createBackup

LEMMA WriteBackupInv == ASSUME IInv, NEW c \in Cmds, WriteBackup(c) PROVE IInv'
<1> PICK n, b : n = cmd[c].backup /\ b = cmd[c].before OBVIOUS
<1>1. /\ n \in Number /\ backups[n] = Partial /\ b # None /\ b \in Contents
      /\ Plannable(b) /\ Accepted(cmd[c])
  BY DEF WriteBackup, IInv, TypeOK, BackupsOwned, PlansHold, At, Committed, Commands
<1>2. PICK v \in {b, None}, r \in Commands :
        /\ backups' = [backups EXCEPT ![n] = v] /\ cmd' = [cmd EXCEPT ![c] = r]
        /\ r = Idle \/ (r.at = "staging" /\ r.before = b /\ Accepted(r) /\ v = b)
  <2>1. Idle \in Commands /\ [cmd[c] EXCEPT !.at = "staging"] \in Commands
    BY DEF Idle, Commands, Stages, IInv, TypeOK
  <2>2. CASE backups' = [backups EXCEPT ![n] = b] /\ Goes(c, "staging")
    <3>1. [cmd[c] EXCEPT !.at = "staging"].at = "staging"
          /\ [cmd[c] EXCEPT !.at = "staging"].before = b
          /\ Accepted([cmd[c] EXCEPT !.at = "staging"])
      BY <1>1 DEF IInv, TypeOK, Commands, Accepted
    <3> QED BY <2>1, <2>2, <3>1 DEF Goes
  <2>3. CASE backups' = [backups EXCEPT ![n] = None] /\ Ends(c) BY <2>1, <2>3 DEF Ends
  <2> QED BY <2>2, <2>3 DEF WriteBackup
<1>3. UNCHANGED <<file, edits, late>> /\ At(c, "backing") BY DEF WriteBackup
<1>4. TypeOK' BY <1>1, <1>2, <1>3 DEF IInv, TypeOK
<1>5. PlansHold' BY <1>1, <1>2, <1>3 DEF IInv, TypeOK, PlansHold, At, Idle, Committed
<1>6. BackupsOwned' BY <1>1, <1>2, <1>3 DEF IInv, TypeOK, BackupsOwned, At, Idle
<1>7. \A x : BackedUp(x) => BackedUp(x)'
  BY <1>1, <1>2 DEF IInv, TypeOK, BackedUp, Whole
<1>8. backups'[n] = b => BackedUp(b)'
  <2>1. b \notin {None, Partial} BY <1>1
  <2> QED BY <1>1, <2>1 DEF BackedUp, Whole
<1>9. BackupsKept' BY <1>1, <1>2, <1>7, <1>8 DEF IInv, TypeOK, BackupsKept, At, Idle
<1>10. KeysKept' BY <1>1, <1>2, <1>3 DEF IInv, TypeOK, KeysKept, At, Committed, Idle
<1> QED BY <1>4, <1>5, <1>6, <1>9, <1>10 DEF IInv

LEMMA ReplaceInv == ASSUME IInv, NEW c \in Cmds, Replace(c) PROVE IInv'
<1> DEFINE b == cmd[c].before
<1>1. b \in Contents \cup {None} /\ b # Garbage
  BY DEF Replace, IInv, TypeOK, PlansHold, At, Plannable, Commands
<1>2. /\ file' = After(b) /\ After(b) \in Contents /\ After(b) # Garbage
      /\ InspectDaemonJSON(file').keys = InspectDaemonJSON(b).keys
  BY <1>1, KeysOf DEF Replace
<1>3. cmd' = [cmd EXCEPT ![c] = Idle] /\ UNCHANGED <<backups, edits, late>> /\ At(c, "staging")
  BY DEF Replace, Ends
<1>4. Idle \in Commands /\ Idle.at = "idle" BY DEF Idle, Commands, Stages
<1>5. TypeOK' BY <1>2, <1>3, <1>4 DEF IInv, TypeOK
<1>6. PlansHold' BY <1>3, <1>4 DEF IInv, TypeOK, PlansHold, At, Committed
<1>7. BackupsOwned' BY <1>3, <1>4 DEF IInv, TypeOK, BackupsOwned, At
<1>8. BackupsKept' BY <1>3, <1>4 DEF IInv, TypeOK, BackupsKept, At, BackedUp, Whole
<1>9. KeysKept' BY <1>2, <1>3, <1>4 DEF IInv, TypeOK, KeysKept, At, Committed
<1> QED BY <1>5, <1>6, <1>7, <1>8, <1>9 DEF IInv

\* Another program's change is late exactly when a command does not look again.
LEMMA EditInv == ASSUME IInv, Edit PROVE IInv'
<1>1. TypeOK' BY DEF Edit, IInv, TypeOK
<1>2. PlansHold' /\ BackupsOwned' /\ BackupsKept'
  BY DEF Edit, IInv, PlansHold, BackupsOwned, BackupsKept, At, BackedUp, Whole
<1>3. KeysKept' BY DEF Edit, IInv, KeysKept, TypeOK
<1> QED BY <1>1, <1>2, <1>3 DEF IInv

LEMMA NextInv == IInv /\ [Next]_vars => IInv'
<1> SUFFICES ASSUME IInv, [Next]_vars PROVE IInv' OBVIOUS
<1>1. ASSUME NEW c \in Cmds, EndsUnwritten(c) \/ Dies(c) PROVE IInv'
  BY <1>1, IdleInv DEF EndsUnwritten, Dies
<1>2. CASE UNCHANGED vars
  BY <1>2 DEF vars, IInv, TypeOK, PlansHold, BackupsOwned, BackupsKept, KeysKept, At, BackedUp,
              Whole
<1> QED
  BY <1>1, <1>2, PlanInv, ValidatedInv, RecheckInv, CreateBackupInv, WriteBackupInv,
     NothingToBackUpInv, ReplaceInv, EditInv DEF Next, WritePlan

\* Only a command's own rename ends it at "staging" with another file.
LEMMA OnlyReplace ==
  ASSUME IInv, [Next]_vars, NEW c \in Cmds, ReplacedBy(c)
  PROVE  Replace(c)
<1>1. cmd[c] \in Commands /\ At(c, "staging") /\ cmd'[c] = Idle /\ file' # file
  BY DEF ReplacedBy, IInv, TypeOK
<1>2. cmd[c] # Idle BY <1>1 DEF At, Idle
<1> QED
  BY <1>1, <1>2 DEF Next, vars, WritePlan, PlanNftablesBackend, Validated, EndsUnwritten, Recheck,
     createBackup, WriteBackup, NothingToBackUp, Replace, Dies, Edit, Ends, IInv, TypeOK

(* Whatever other commands and editors do, the file a command writes is what it  *)
(* read with the backend set, and without --root dockerd accepted it                *)
(* (docker.go:132, service_impl.go:1011).                                           *)
THEOREM ValidatedIsWritten == Spec => WritesWhatWasValidated
<1>1. ASSUME IInv, [Next]_vars, NEW c \in Cmds, ReplacedBy(c)
      PROVE  file' = After(cmd[c].before) /\ (~cmd[c].rooted => file'.keys \in AcceptedKeys)
  BY <1>1, OnlyReplace DEF Replace, At, IInv, PlansHold, Committed, Accepted
<1>2. IInv /\ [Next]_vars => [\A c \in Cmds : ReplacedBy(c) =>
        /\ file' = After(cmd[c].before)
        /\ ~cmd[c].rooted => file'.keys \in AcceptedKeys]_vars
  BY <1>1
<1> QED BY <1>2, InitInv, NextInv, PTL DEF Spec, WritesWhatWasValidated

(* A command that replaces the file keeps the other keys of what is there and has   *)
(* a whole backup of what it read, unless somebody changed the file after the last    *)
(* reading (docker.go:169).                                                           *)
THEOREM OthersAreKept == Spec => OnlyLateEditsAreLost
<1>1. ASSUME IInv, [Next]_vars, NEW c \in Cmds, ReplacedBy(c), ~late
      PROVE  /\ file # Garbage /\ InspectDaemonJSON(file).keys = file'.keys
             /\ cmd[c].before = None \/ BackedUp(cmd[c].before)
  <2> DEFINE b == cmd[c].before
  <2>1. Replace(c) BY <1>1, OnlyReplace
  <2>2. b \in Contents \cup {None} /\ b # Garbage
    BY <1>1, <2>1 DEF Replace, IInv, TypeOK, PlansHold, At, Plannable, Commands
  <2>3. file'.keys = InspectDaemonJSON(b).keys BY <2>1, <2>2, KeysOf DEF Replace
  <2> QED
    BY <1>1, <2>1, <2>3 DEF Replace, At, IInv, KeysKept, BackupsKept, Committed
<1>2. IInv /\ [Next]_vars => [\A c \in Cmds : (ReplacedBy(c) /\ ~late) =>
        /\ file # Garbage /\ InspectDaemonJSON(file).keys = file'.keys
        /\ cmd[c].before = None \/ BackedUp(cmd[c].before)]_vars
  BY <1>1
<1> QED BY <1>2, InitInv, NextInv, PTL DEF Spec, OnlyLateEditsAreLost
=============================================================================
