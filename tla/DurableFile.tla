----------------------------- MODULE DurableFile -----------------------------
(***************************************************************************)
(* How cnftctl replaces a state file: a temporary file beside it is written,   *)
(* given its mode, synced, and renamed over it, then the directory is synced.  *)
(* The kernel may write data and directory entries to disk at any time and in   *)
(* any order; only a sync orders them. A power loss keeps what is on disk.      *)
(* Names of temporary files are random and are never read, so that one left     *)
(* behind is a file nobody refers to.                                           *)
(***************************************************************************)
EXTENDS Naturals

CONSTANTS
  Savers,    \* processes that write state files
  Journal,   \* transactions, ownership record, files of generations
  Selector,  \* the link to the selected generation
  Metadata,  \* ddns-runtime.json
  Config,    \* config.yaml
  Dir,       \* Dir[p]: the directory of p; a directory is synced as a whole
  Values,    \* what a file can hold
  Inodes,    \* files, named or not
  MaxTurns,  \* bound: changes of one directory entry
  None

Paths == Journal \cup {Selector, Metadata, Config}

ASSUME DurableAssumption == /\ None \notin Inodes /\ None \notin Values
                            /\ MaxTurns \in Nat
                            /\ DOMAIN Dir = Paths

VARIABLES
  data,      \* data[i]: what a reader of file i finds
  stored,    \* stored[i]: what of it is on disk
  entry,     \* entry[p]: the file p names, and how often the name changed hands
  disk,      \* disk[p]: that entry as it is on disk
  reported,  \* reported[p]: the last change of p that a caller was told succeeded
  job        \* job[s]: what saver s is doing

fileVars == <<data, stored>>
nameVars == <<entry, disk, reported>>
storeVars == <<data, stored, entry, disk, reported, job>>

Contents == [value : Values \cup {None}, bytes : {"none", "part", "all"}, final : BOOLEAN]
Entries == [inode : Inodes \cup {None}, turn : 0..MaxTurns]
Stages == {"idle", "created", "written", "moded", "synced", "renamed"}
Jobs == [stage : Stages, path : Paths \cup {None}, value : Values \cup {None},
         inode : Inodes \cup {None}, turn : 0..MaxTurns]

Blank == [value |-> None, bytes |-> "none", final |-> FALSE]
Filled(v) == [value |-> v, bytes |-> "all", final |-> TRUE]
NoFile == [inode |-> None, turn |-> 0]
Idle == [stage |-> "idle", path |-> None, value |-> None, inode |-> None, turn |-> 0]

StoreTypeOK == /\ data \in [Inodes -> Contents] /\ stored \in [Inodes -> Contents]
               /\ entry \in [Paths -> Entries] /\ disk \in [Paths -> Entries]
               /\ reported \in [Paths -> 0..MaxTurns]
               /\ job \in [Savers -> Jobs]

StoreInit == /\ data = [i \in Inodes |-> Blank] /\ stored = data
             /\ entry = [p \in Paths |-> NoFile] /\ disk = entry
             /\ reported = [p \in Paths |-> 0]
             /\ job = [s \in Savers |-> Idle]

Named(i) == \E p \in Paths : entry[p].inode = i \/ disk[p].inode = i
Free(i) == ~Named(i) /\ \A s \in Savers : job[s].inode # i
\* Which of the free files it is makes no difference.
FreshInode == CHOOSE i \in Inodes : Free(i)

----------------------------------------------------------------------------
(* One replacement. Every step may fail, which removes the temporary file and  *)
(* reports an error; a process that is killed stops in the same place.          *)

Open(s, p, v, contents, stage) ==
  /\ job[s] = Idle
  /\ \E i \in Inodes : Free(i)
  /\ data' = [data EXCEPT ![FreshInode] = contents]
  /\ stored' = [stored EXCEPT ![FreshInode] = contents]
  /\ job' = [job EXCEPT ![s] = [stage |-> stage, path |-> p, value |-> v,
                                inode |-> FreshInode, turn |-> 0]]
  /\ UNCHANGED nameVars

\* Only the selector is a link, so the refusal to replace one does not come up.
durableWrite(s, p, v) == p \in Journal /\ Open(s, p, v, Blank, "created")
SaveMetadata(s, v) == Open(s, Metadata, v, Blank, "created")
SaveFile(s, v) == Open(s, Config, v, Blank, "created")

\* A link carries its target with it. A spare link left behind by a killed
\* process is removed first, so that making it does not fail.
setActive(s, v) == Open(s, Selector, v, Filled(v), "synced")

WriteData(s) ==
  /\ job[s].stage = "created"
  /\ data' = [data EXCEPT ![job[s].inode].value = job[s].value, ![job[s].inode].bytes = "all"]
  /\ job' = [job EXCEPT ![s].stage = "written"]
  /\ UNCHANGED <<stored, nameVars>>

Chmod(s) ==
  /\ job[s].stage = "written"
  /\ data' = [data EXCEPT ![job[s].inode].final = TRUE]
  /\ job' = [job EXCEPT ![s].stage = "moded"]
  /\ UNCHANGED <<stored, nameVars>>

Sync(s) ==
  /\ job[s].stage = "moded"
  /\ stored' = [stored EXCEPT ![job[s].inode] = data[job[s].inode]]
  /\ job' = [job EXCEPT ![s].stage = "synced"]
  /\ UNCHANGED <<data, nameVars>>

\* Mutation: the file gets its name before its data is on disk.
RenameUnsynced(s) ==
  LET p == job[s].path  turn == entry[p].turn + 1 IN
  /\ job[s].stage = "moded" /\ turn <= MaxTurns
  /\ entry' = [entry EXCEPT ![p] = [inode |-> job[s].inode, turn |-> turn]]
  /\ job' = [job EXCEPT ![s].stage = "renamed", ![s].turn = turn]
  /\ UNCHANGED <<fileVars, disk, reported>>

Rename(s) ==
  LET p == job[s].path  turn == entry[p].turn + 1 IN
  /\ job[s].stage = "synced" /\ turn <= MaxTurns
  /\ entry' = [entry EXCEPT ![p] = [inode |-> job[s].inode, turn |-> turn]]
  /\ job' = [job EXCEPT ![s].stage = "renamed", ![s].turn = turn]
  /\ UNCHANGED <<fileVars, disk, reported>>

Later(m, n) == IF m < n THEN n ELSE m

\* Mutation: the save is reported without a sync of the directory.
NoSync(s) ==
  /\ job[s].stage = "renamed"
  /\ reported' = [reported EXCEPT ![job[s].path] = Later(@, job[s].turn)]
  /\ job' = [job EXCEPT ![s] = Idle]
  /\ UNCHANGED <<fileVars, entry, disk>>

\* The directory is on disk, and the caller is told that the file is saved.
syncDir(s) ==
  LET p == job[s].path IN
  /\ job[s].stage = "renamed"
  /\ disk' = [q \in Paths |-> IF Dir[q] = Dir[p] THEN entry[q] ELSE disk[q]]
  /\ reported' = [reported EXCEPT ![p] = Later(@, job[s].turn)]
  /\ job' = [job EXCEPT ![s] = Idle]
  /\ UNCHANGED <<fileVars, entry>>

Stop(s) ==
  LET Left(contents) == IF Named(job[s].inode) THEN contents
                        ELSE [contents EXCEPT ![job[s].inode] = Blank] IN
  /\ job[s] # Idle
  /\ data' = Left(data) /\ stored' = Left(stored)
  /\ job' = [job EXCEPT ![s] = Idle]
  /\ UNCHANGED nameVars

\* The removals of a fresh install's rollback: the caller goes on at once.
Remove(p) ==
  /\ entry[p].inode # None /\ entry[p].turn < MaxTurns
  /\ entry' = [entry EXCEPT ![p] = [inode |-> None, turn |-> @.turn + 1]]
  /\ reported' = [reported EXCEPT ![p] = entry[p].turn + 1]
  /\ UNCHANGED <<fileVars, disk, job>>

----------------------------------------------------------------------------
(* The kernel. *)

WriteBack(i) ==
  /\ stored[i] # data[i]
  /\ \/ stored' = [stored EXCEPT ![i] = data[i]]
     \/ stored[i].bytes = "none" /\ stored' = [stored EXCEPT ![i].bytes = "part"]
  /\ UNCHANGED <<data, nameVars, job>>

WriteBackName(p) ==
  /\ disk[p] # entry[p]
  /\ disk' = [disk EXCEPT ![p] = entry[p]]
  /\ UNCHANGED <<fileVars, entry, reported, job>>

PowerLoss ==
  LET Survives(i) == \E p \in Paths : disk[p].inode = i IN
  /\ stored' = [i \in Inodes |-> IF Survives(i) THEN stored[i] ELSE Blank]
  /\ data' = stored' /\ entry' = disk
  /\ job' = [s \in Savers |-> Idle]
  /\ UNCHANGED <<disk, reported>>

Progress(s) == WriteData(s) \/ Chmod(s) \/ Sync(s) \/ Rename(s)
Kernel == (\E i \in Inodes : WriteBack(i)) \/ (\E p \in Paths : WriteBackName(p))

\* Any saver replaces any file with anything, whenever it likes.
FileNext ==
  \/ \E s \in Savers, v \in Values :
       \/ \E p \in Journal : durableWrite(s, p, v)
       \/ SaveMetadata(s, v) \/ SaveFile(s, v) \/ setActive(s, v)
  \/ \E s \in Savers : Progress(s) \/ syncDir(s) \/ Stop(s)
  \/ Kernel \/ PowerLoss

FileSpec == StoreInit /\ [][FileNext]_storeVars
=============================================================================
