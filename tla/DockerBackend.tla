---------------------------- MODULE DockerBackend ----------------------------
(***************************************************************************)
(* `cnftctl docker backend plan|write`: daemon.json is read, the change of     *)
(* firewall-backend is planned, put to `dockerd --validate`, compared with what *)
(* was read, backed up, staged and renamed into place. No lock is taken: other   *)
(* such commands and editors of the file are at work at the same time. All       *)
(* commands run in one second, so that they want the same name for the backup.   *)
(* With --root the file belongs to another system, and dockerd is not asked: the   *)
(* file is the same one when the root is / or --daemon-json names a path in it.     *)
(***************************************************************************)
EXTENDS Naturals

CONSTANTS
  Cmds,         \* docker backend commands
  Keys, NoKeys, \* everything of daemon.json but firewall-backend; without any keys
  AcceptedKeys, \* the keys this host's dockerd accepts
  Backends,     \* strings other than "nftables" and ""
  Garbage,      \* a file that is no JSON object
  Blank,        \* an empty file
  Partial,      \* a backup that is not whole
  None,         \* no file
  Names,        \* bound: numbers tried for the name of a backup, 100 in the code
  MaxEdits      \* bound: changes by others

ASSUME DockerAssumption == /\ NoKeys \in Keys /\ AcceptedKeys \subseteq Keys
                           /\ Names \in Nat \ {0} /\ MaxEdits \in Nat

Settings == {"absent", "nftables", "empty", "not a string"} \cup Backends
Documents == [keys : Keys, backend : Settings]
Contents == Documents \cup {Garbage, Blank}

ASSUME ContentsAssumption ==
  /\ Garbage \notin Documents /\ Blank \notin Documents /\ Garbage # Blank
  /\ None \notin Contents /\ Partial \notin Contents \cup {None}

VARIABLES
  file,     \* daemon.json
  backups,  \* backups[n]: the backup with number n
  cmd,      \* what each command is at, whether it has --root, what it read, its backup
  edits,    \* how often somebody else changed the file
  late      \* history: somebody else changed it after a command's last reading

vars == <<file, backups, cmd, edits, late>>

Number == 0..(Names - 1)
Idle == [at |-> "idle", rooted |-> FALSE, before |-> None, backup |-> None]

\* The last reading is done; nothing looks at the file any more.
Committed == {"checked", "backing", "staging"}

Init == /\ file \in Contents \cup {None}
        /\ backups = [n \in Number |-> None]
        /\ cmd = [c \in Cmds |-> Idle]
        /\ edits = 0 /\ late = FALSE

At(c, stage) == cmd[c].at = stage
Goes(c, stage) == cmd' = [cmd EXCEPT ![c].at = stage]
Ends(c) == cmd' = [cmd EXCEPT ![c] = Idle]

\* An empty file, or none, is an empty object.
InspectDaemonJSON(data) ==
  IF data \in {None, Blank} THEN [keys |-> NoKeys, backend |-> "absent"] ELSE data

After(before) == [keys |-> InspectDaemonJSON(before).keys, backend |-> "nftables"]

Plannable(before) ==
  before # Garbage /\ InspectDaemonJSON(before).backend \notin {"empty", "not a string"}
Changed(before) == InspectDaemonJSON(before).backend # "nftables"

\* Reading, and planning on what was read.
PlanNftablesBackend(c, rooted) ==
  /\ At(c, "idle") /\ Plannable(file)
  /\ cmd' = [cmd EXCEPT ![c] = [at |-> IF Changed(file) THEN "planned" ELSE "unchanged",
                               rooted |-> rooted, before |-> file, backup |-> None]]
  /\ UNCHANGED <<file, backups, edits, late>>

\* `write --yes` goes on with a changed file the daemon accepts, or with any under
\* --root; `plan`, a write without --yes, a file that needs no change and a refusal
\* end here.
Validated(c) ==
  /\ At(c, "planned")
  /\ cmd[c].rooted \/ After(cmd[c].before).keys \in AcceptedKeys
  /\ Goes(c, "accepted") /\ UNCHANGED <<file, backups, edits, late>>

EndsUnwritten(c) ==
  /\ cmd[c].at \in {"planned", "unchanged"}
  /\ Ends(c) /\ UNCHANGED <<file, backups, edits, late>>

\* Mutation: the file is not read again.
Unchecked(c) ==
  /\ At(c, "accepted")
  /\ Goes(c, "checked") /\ UNCHANGED <<file, backups, edits, late>>

\* The file is read again, and has to be what the plan was made for.
Recheck(c) ==
  /\ At(c, "accepted")
  /\ IF file = cmd[c].before THEN Goes(c, "checked") ELSE Ends(c)
  /\ UNCHANGED <<file, backups, edits, late>>

\* The first number that is not taken; none left ends the command.
createBackup(c) ==
  /\ At(c, "checked") /\ cmd[c].before # None
  /\ \/ (\A n \in Number : backups[n] # None) /\ Ends(c) /\ UNCHANGED backups
     \/ \E n \in Number :
          /\ backups[n] = None /\ \A j \in 0..(n - 1) : backups[j] # None
          /\ backups' = [backups EXCEPT ![n] = Partial]
          /\ cmd' = [cmd EXCEPT ![c].at = "backing", ![c].backup = n]
  /\ UNCHANGED <<file, edits, late>>

WriteBackup(c) ==
  /\ At(c, "backing")
  /\ \/ backups' = [backups EXCEPT ![cmd[c].backup] = cmd[c].before] /\ Goes(c, "staging")
     \/ backups' = [backups EXCEPT ![cmd[c].backup] = None] /\ Ends(c)
  /\ UNCHANGED <<file, edits, late>>

NothingToBackUp(c) ==
  /\ At(c, "checked") /\ cmd[c].before = None
  /\ Goes(c, "staging") /\ UNCHANGED <<file, backups, edits, late>>

\* Mutation: the keys of the file are not carried over.
ReplaceBare(c) ==
  /\ At(c, "staging")
  /\ file' = [keys |-> NoKeys, backend |-> "nftables"]
  /\ Ends(c) /\ UNCHANGED <<backups, edits, late>>

Replace(c) ==
  /\ At(c, "staging")
  /\ file' = After(cmd[c].before)
  /\ Ends(c) /\ UNCHANGED <<backups, edits, late>>

\* An error, or the end of the process, before the rename: a backup that is whole stays.
Dies(c) ==
  /\ cmd[c].at \in {"accepted", "checked", "backing", "staging"}
  /\ Ends(c) /\ UNCHANGED <<file, backups, edits, late>>

\* Another program or the operator changes, creates or removes the file.
Edit ==
  /\ edits < MaxEdits
  /\ file' \in (Contents \cup {None}) \ {file}
  /\ edits' = edits + 1
  /\ late' = (late \/ \E c \in Cmds : cmd[c].at \in Committed)
  /\ UNCHANGED <<backups, cmd>>

WritePlan(c) == \/ Recheck(c) \/ createBackup(c) \/ WriteBackup(c)
                \/ NothingToBackUp(c) \/ Replace(c)

Next == \/ \E c \in Cmds : \/ \E rooted \in BOOLEAN : PlanNftablesBackend(c, rooted)
                           \/ Validated(c) \/ EndsUnwritten(c) \/ WritePlan(c) \/ Dies(c)
        \/ Edit

Spec == Init /\ [][Next]_vars

-----------------------------------------------------------------------------
(* What may be relied on.                                                    *)

Whole(n) == backups[n] \notin {None, Partial}
BackedUp(x) == \E n \in Number : Whole(n) /\ backups[n] = x
\* Command c replaces the file, not another one and not somebody else.
ReplacedBy(c) == At(c, "staging") /\ cmd'[c] = Idle /\ file' # file

(***************************************************************************)
(* The daemon of this host is never handed a file of cnftctl's making that it      *)
(* would refuse, nor a mixture of versions: what a command writes is what it read,   *)
(* with the backend set, and without --root as it was put to dockerd                  *)
(* (src/SPEC.md, "Docker Policy").                                                    *)
(***************************************************************************)
WritesWhatWasValidated ==
  [][\A c \in Cmds : ReplacedBy(c) =>
       /\ file' = After(cmd[c].before)
       /\ ~cmd[c].rooted => file'.keys \in AcceptedKeys]_vars

(***************************************************************************)
(* Only a change made after the last reading can be lost: a change by another      *)
(* program before that makes the command give up, and two commands at once write   *)
(* the same. What is replaced has the same keys and what was read is in a backup.   *)
(***************************************************************************)
OnlyLateEditsAreLost ==
  [][\A c \in Cmds : (ReplacedBy(c) /\ ~late) =>
       /\ file # Garbage /\ InspectDaemonJSON(file).keys = file'.keys
       /\ cmd[c].before = None \/ BackedUp(cmd[c].before)]_vars

(***************************************************************************)
(* "cnftctl docker backend write --yes preserves other daemon JSON keys and      *)
(* writes a timestamped backup" (src/README.md:100): what a command replaces has  *)
(* the same other keys, or is kept in a backup.                                    *)
(***************************************************************************)
NothingLost ==
  [][\A c \in Cmds : ReplacedBy(c) => \/ file # Garbage /\ InspectDaemonJSON(file).keys = file'.keys
                                      \/ BackedUp(file)]_vars
=============================================================================
