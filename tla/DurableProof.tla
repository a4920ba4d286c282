---------------------------- MODULE DurableProof ----------------------------
(***************************************************************************)
(* DurableFile replaces files as AtomicFile says, and loses nothing it          *)
(* reported, for every set of savers, files and values. The journal of           *)
(* DurableJournal, written file by file, is ahead of every selection that a       *)
(* power loss can leave, for every set of generations and transactions.           *)
(***************************************************************************)
EXTENDS DurableProperties, JournalProperties, SequenceTheorems, TLAPS

Early == {"created", "written", "moded"}

\* A file that may have a name: whole, one of the values, and on disk as it is.
Settled(i) == Whole(data[i]) /\ data[i].value \in Values /\ stored[i] = data[i]

\* A saver that is not idle has a file and something to save in it.
JobsBusy ==
  \A s \in Savers :
    \/ job[s] = Idle
    \/ /\ job[s].stage # "idle" /\ job[s].path \in Paths
       /\ job[s].value \in Values /\ job[s].inode \in Inodes

\* It shares the file with no other saver, and with no reader until it is synced.
FilesHeld ==
  \A s \in Savers :
    /\ \A r \in Savers : (s # r /\ job[s].inode # None) => job[s].inode # job[r].inode
    /\ job[s].stage \in Early => ~Named(job[s].inode)

\* What each step leaves to the next.
FilesFilled ==
  \A s \in Savers : LET c == data[job[s].inode] IN
    /\ job[s].stage = "written" => c.bytes = "all" /\ c.value = job[s].value
    /\ job[s].stage = "moded" => Whole(c) /\ c.value = job[s].value
    /\ job[s].stage = "synced" => Settled(job[s].inode) /\ c.value = job[s].value

NamesSettled ==
  \A p \in Paths : /\ entry[p].inode # None => Settled(entry[p].inode)
                   /\ disk[p].inode # None => Settled(disk[p].inode)

TurnsInOrder ==
  /\ \A p \in Paths : reported[p] <= disk[p].turn /\ disk[p].turn <= entry[p].turn
  /\ \A s \in Savers : job[s].stage = "renamed" => job[s].turn <= entry[job[s].path].turn

FilesInv == StoreTypeOK /\ JobsBusy /\ FilesHeld /\ FilesFilled /\ NamesSettled
IInv == FilesInv /\ TurnsInOrder

----------------------------------------------------------------------------
USE DurableAssumption

LEMMA FreshIsFree ==
  ASSUME \E i \in Inodes : Free(i)
  PROVE FreshInode \in Inodes /\ Free(FreshInode)
BY DEF FreshInode

\* Records keep their type when a field changes.
LEMMA JobStage ==
  ASSUME NEW j \in Jobs, NEW st \in Stages PROVE [j EXCEPT !.stage = st] \in Jobs
BY DEF Jobs

LEMMA JobTurn ==
  ASSUME NEW j \in Jobs, NEW st \in Stages, NEW n \in 0..MaxTurns
  PROVE [j EXCEPT !.stage = st, !.turn = n] \in Jobs
BY DEF Jobs

LEMMA ContentsRecord ==
  ASSUME NEW c \in Contents, NEW v \in Values
  PROVE /\ [c EXCEPT !.value = v, !.bytes = "all"] \in Contents
        /\ [c EXCEPT !.final = TRUE] \in Contents
BY DEF Contents

LEMMA InitInv == StoreInit => IInv
BY DEF StoreInit, IInv, FilesInv, StoreTypeOK, JobsBusy, FilesHeld, FilesFilled, NamesSettled,
       TurnsInOrder, Contents, Entries, Jobs, Stages, Blank, NoFile, Idle, Early, Settled,
       Whole, Named

LEMMA OpenInv ==
  ASSUME FilesInv, NEW s \in Savers, NEW p \in Paths, NEW v \in Values,
         NEW c, NEW stage,
         \/ c = Blank /\ stage = "created"
         \/ c = Filled(v) /\ stage = "synced",
         Open(s, p, v, c, stage)
  PROVE FilesInv'
<1> DEFINE f == FreshInode
<1>1. f \in Inodes /\ Free(f) BY FreshIsFree DEF Open
<1> HIDE DEF f
<1>2. /\ data' = [data EXCEPT ![f] = c] /\ stored' = [stored EXCEPT ![f] = c]
      /\ job' = [job EXCEPT ![s] = [stage |-> stage, path |-> p, value |-> v,
                                    inode |-> f, turn |-> 0]]
      /\ job[s] = Idle /\ UNCHANGED nameVars
  BY DEF Open, f
<1>3. c \in Contents
  <2>1. CASE c = Blank BY <2>1 DEF Contents, Blank
  <2>2. CASE c = Filled(v) BY <2>2 DEF Contents, Filled
  <2> QED BY <2>1, <2>2
<1>4. StoreTypeOK'
  BY <1>1, <1>2, <1>3 DEF FilesInv, StoreTypeOK, nameVars, Jobs, Idle, Stages
<1>5. JobsBusy' BY <1>1, <1>2 DEF FilesInv, StoreTypeOK, JobsBusy, Idle
<1>6. FilesHeld'
  BY <1>1, <1>2 DEF FilesInv, StoreTypeOK, FilesHeld, Free, Named, Idle, nameVars
<1>7. FilesFilled'
  BY <1>1, <1>2 DEF FilesInv, StoreTypeOK, JobsBusy, FilesFilled, Free, Idle, Settled, Whole, Filled
<1>8. NamesSettled'
  BY <1>1, <1>2 DEF FilesInv, StoreTypeOK, NamesSettled, Free, Named, nameVars, Settled, Entries
<1> QED BY <1>4, <1>5, <1>6, <1>7, <1>8 DEF FilesInv

LEMMA WriteDataInv == ASSUME FilesInv, NEW s \in Savers, WriteData(s) PROVE FilesInv'
<1> DEFINE i == job[s].inode
<1>1. i \in Inodes /\ ~Named(i) /\ job[s].value \in Values /\ job[s] # Idle
  BY DEF WriteData, FilesInv, JobsBusy, FilesHeld, Early, Idle
<1>2. StoreTypeOK'
  <2>1. job' = [job EXCEPT ![s] = [job[s] EXCEPT !.stage = "written"]]
    BY DEF WriteData
  <2>2. data' = [data EXCEPT ![i] = [data[i] EXCEPT !.value = job[s].value, !.bytes = "all"]]
    BY <1>1 DEF WriteData, FilesInv, StoreTypeOK
  <2>3. data' \in [Inodes -> Contents] BY <1>1, <2>2, ContentsRecord DEF FilesInv, StoreTypeOK
  <2>4. stored' \in [Inodes -> Contents] BY DEF WriteData, FilesInv, StoreTypeOK
  <2>5. job' \in [Savers -> Jobs] BY <1>1, <2>1, JobStage DEF FilesInv, StoreTypeOK, Stages
  <2> QED BY <2>3, <2>4, <2>5 DEF FilesInv, StoreTypeOK, WriteData, nameVars
<1>3. JobsBusy' BY <1>1 DEF FilesInv, StoreTypeOK, JobsBusy, WriteData, Idle
<1>4. FilesHeld'
  BY <1>1 DEF FilesInv, StoreTypeOK, FilesHeld, WriteData, nameVars, Named, Early
<1>5. FilesFilled'
  BY <1>1 DEF FilesInv, StoreTypeOK, JobsBusy, FilesHeld, FilesFilled, WriteData, Settled, Whole,
              Contents, Idle
<1>6. NamesSettled'
  BY <1>1 DEF FilesInv, StoreTypeOK, NamesSettled, WriteData, nameVars, Named, Settled, Entries
<1> QED BY <1>2, <1>3, <1>4, <1>5, <1>6 DEF FilesInv

LEMMA ChmodInv == ASSUME FilesInv, NEW s \in Savers, Chmod(s) PROVE FilesInv'
<1> DEFINE i == job[s].inode
<1>1. i \in Inodes /\ ~Named(i) /\ job[s].value \in Values /\ job[s] # Idle
  BY DEF Chmod, FilesInv, JobsBusy, FilesHeld, Early, Idle
<1>2. StoreTypeOK'
  <2>1. job' = [job EXCEPT ![s] = [job[s] EXCEPT !.stage = "moded"]]
    BY DEF Chmod
  <2>2. data' = [data EXCEPT ![i] = [data[i] EXCEPT !.final = TRUE]]
    BY <1>1 DEF Chmod, FilesInv, StoreTypeOK
  <2>3. data' \in [Inodes -> Contents] BY <1>1, <2>2, ContentsRecord DEF FilesInv, StoreTypeOK
  <2>4. stored' \in [Inodes -> Contents] BY DEF Chmod, FilesInv, StoreTypeOK
  <2>5. job' \in [Savers -> Jobs] BY <1>1, <2>1, JobStage DEF FilesInv, StoreTypeOK, Stages
  <2> QED BY <2>3, <2>4, <2>5 DEF FilesInv, StoreTypeOK, Chmod, nameVars
<1>3. JobsBusy' BY <1>1 DEF FilesInv, StoreTypeOK, JobsBusy, Chmod, Idle
<1>4. FilesHeld'
  BY <1>1 DEF FilesInv, StoreTypeOK, FilesHeld, Chmod, nameVars, Named, Early
<1>5. FilesFilled'
  BY <1>1 DEF FilesInv, StoreTypeOK, JobsBusy, FilesHeld, FilesFilled, Chmod, Settled, Whole,
              Contents, Idle
<1>6. NamesSettled'
  BY <1>1 DEF FilesInv, StoreTypeOK, NamesSettled, Chmod, nameVars, Named, Settled, Entries
<1> QED BY <1>2, <1>3, <1>4, <1>5, <1>6 DEF FilesInv

LEMMA SyncInv == ASSUME FilesInv, NEW s \in Savers, Sync(s) PROVE FilesInv'
<1> DEFINE i == job[s].inode
<1>1. i \in Inodes /\ ~Named(i) /\ job[s].value \in Values /\ job[s] # Idle
  BY DEF Sync, FilesInv, JobsBusy, FilesHeld, Early, Idle
<1>2. StoreTypeOK'
  <2>1. job' = [job EXCEPT ![s] = [job[s] EXCEPT !.stage = "synced"]]
    BY DEF Sync
  <2>3. data' \in [Inodes -> Contents] BY DEF Sync, FilesInv, StoreTypeOK
  <2>4. stored' \in [Inodes -> Contents] BY <1>1 DEF Sync, FilesInv, StoreTypeOK
  <2>5. job' \in [Savers -> Jobs] BY <1>1, <2>1, JobStage DEF FilesInv, StoreTypeOK, Stages
  <2> QED BY <2>3, <2>4, <2>5 DEF FilesInv, StoreTypeOK, Sync, nameVars
<1>3. JobsBusy' BY <1>1 DEF FilesInv, StoreTypeOK, JobsBusy, Sync, Idle
<1>4. FilesHeld'
  BY <1>1 DEF FilesInv, StoreTypeOK, FilesHeld, Sync, nameVars, Named, Early
<1>5. FilesFilled'
  BY <1>1 DEF FilesInv, StoreTypeOK, JobsBusy, FilesHeld, FilesFilled, Sync, Settled, Whole,
              Contents, Idle
<1>6. NamesSettled'
  BY <1>1 DEF FilesInv, StoreTypeOK, NamesSettled, Sync, nameVars, Named, Settled, Entries
<1> QED BY <1>2, <1>3, <1>4, <1>5, <1>6 DEF FilesInv

LEMMA RenameInv == ASSUME FilesInv, NEW s \in Savers, Rename(s) PROVE FilesInv'
<1> DEFINE i == job[s].inode
<1>1. i \in Inodes /\ Settled(i) /\ job[s].path \in Paths /\ job[s] # Idle
  BY DEF Rename, FilesInv, JobsBusy, FilesFilled, Idle
<1>2. StoreTypeOK'
  <2> DEFINE p == job[s].path  turn == entry[p].turn + 1
  <2>1. turn \in 0..MaxTurns BY <1>1 DEF Rename, FilesInv, StoreTypeOK, Entries
  <2>2. job' = [job EXCEPT ![s] = [job[s] EXCEPT !.stage = "renamed", !.turn = turn]]
    BY DEF Rename
  <2>3. job' \in [Savers -> Jobs] BY <2>1, <2>2, JobTurn DEF FilesInv, StoreTypeOK, Stages
  <2>4. [inode |-> i, turn |-> turn] \in Entries BY <1>1, <2>1 DEF Entries
  <2>5. entry' \in [Paths -> Entries] BY <1>1, <2>4 DEF Rename, FilesInv, StoreTypeOK
  <2> QED BY <2>3, <2>5 DEF FilesInv, StoreTypeOK, Rename, fileVars
<1>3. JobsBusy' BY <1>1 DEF FilesInv, StoreTypeOK, JobsBusy, Rename, Idle
<1>4. FilesHeld'
  BY <1>1 DEF FilesInv, StoreTypeOK, JobsBusy, FilesHeld, Rename, Named, Early, Entries, Idle
<1>5. FilesFilled' BY <1>1 DEF FilesInv, StoreTypeOK, FilesFilled, Rename, fileVars, Settled
<1>6. NamesSettled'
  BY <1>1 DEF FilesInv, StoreTypeOK, NamesSettled, Rename, fileVars, Settled, Entries
<1> QED BY <1>2, <1>3, <1>4, <1>5, <1>6 DEF FilesInv

LEMMA SyncDirInv == ASSUME FilesInv, NEW s \in Savers, syncDir(s) PROVE FilesInv'
<1>1. job[s].path \in Paths /\ job[s] # Idle
  BY DEF syncDir, FilesInv, JobsBusy, Idle
<1>2. StoreTypeOK'
  BY <1>1 DEF FilesInv, StoreTypeOK, syncDir, fileVars, Entries, Jobs, Stages, Idle, Later
<1>3. JobsBusy' BY <1>1 DEF FilesInv, StoreTypeOK, JobsBusy, syncDir
<1>4. FilesHeld'
  BY <1>1 DEF FilesInv, StoreTypeOK, JobsBusy, FilesHeld, syncDir, Named, Early, Entries, Idle
<1>5. FilesFilled' BY <1>1 DEF FilesInv, StoreTypeOK, FilesFilled, syncDir, fileVars, Settled, Idle
<1>6. NamesSettled'
  BY <1>1 DEF FilesInv, StoreTypeOK, NamesSettled, syncDir, fileVars, Settled, Entries
<1> QED BY <1>2, <1>3, <1>4, <1>5, <1>6 DEF FilesInv

LEMMA StopInv == ASSUME FilesInv, NEW s \in Savers, Stop(s) PROVE FilesInv'
<1> DEFINE i == job[s].inode
<1>1. i \in Inodes /\ i # None BY DEF Stop, FilesInv, JobsBusy
<1>2. /\ data' = IF Named(i) THEN data ELSE [data EXCEPT ![i] = Blank]
      /\ stored' = IF Named(i) THEN stored ELSE [stored EXCEPT ![i] = Blank]
      /\ job' = [job EXCEPT ![s] = Idle] /\ UNCHANGED nameVars
  BY DEF Stop
<1>3. Blank \in Contents BY DEF Blank, Contents
<1>4. Idle \in Jobs BY DEF Idle, Jobs, Stages
<1>5. StoreTypeOK' BY <1>1, <1>2, <1>3, <1>4 DEF FilesInv, StoreTypeOK, nameVars
<1>6. JobsBusy' BY <1>2 DEF FilesInv, StoreTypeOK, JobsBusy
<1>7. FilesHeld' BY <1>1, <1>2 DEF FilesInv, StoreTypeOK, FilesHeld, Named, nameVars, Idle, Early
<1>8. FilesFilled'
  BY <1>1, <1>2 DEF FilesInv, StoreTypeOK, JobsBusy, FilesHeld, FilesFilled, Idle, Settled
<1>9. NamesSettled'
  BY <1>1, <1>2 DEF FilesInv, StoreTypeOK, NamesSettled, Named, nameVars, Settled, Entries
<1> QED BY <1>5, <1>6, <1>7, <1>8, <1>9 DEF FilesInv

LEMMA WriteBackInv == ASSUME FilesInv, NEW i \in Inodes, WriteBack(i) PROVE FilesInv'
<1>1. ~Named(i) /\ UNCHANGED <<data, nameVars, job>>
  BY DEF WriteBack, FilesInv, NamesSettled, Named, Settled, StoreTypeOK, nameVars
<1>2. \A j \in Inodes : j # i => stored'[j] = stored[j]
  BY DEF WriteBack, FilesInv, StoreTypeOK
<1>3. stored' \in [Inodes -> Contents]
  <2>1. CASE stored' = [stored EXCEPT ![i] = data[i]] BY <2>1 DEF FilesInv, StoreTypeOK
  <2>2. CASE stored' = [stored EXCEPT ![i].bytes = "part"]
    <3>1. [stored[i] EXCEPT !.bytes = "part"] \in Contents
      BY DEF FilesInv, StoreTypeOK, Contents
    <3> QED BY <2>2, <3>1 DEF FilesInv, StoreTypeOK
  <2> QED BY <2>1, <2>2 DEF WriteBack
<1>4. \A j \in Inodes : Settled(j) => Settled(j)'
  BY <1>1, <1>2 DEF WriteBack, Settled, Whole
<1>5. StoreTypeOK' BY <1>1, <1>3 DEF FilesInv, StoreTypeOK, nameVars
<1>6. JobsBusy' BY <1>1 DEF FilesInv, JobsBusy
<1>7. FilesHeld' BY <1>1 DEF FilesInv, FilesHeld, Named, nameVars
<1>8. FilesFilled' BY <1>1, <1>4 DEF FilesInv, JobsBusy, FilesFilled, Idle
<1>9. NamesSettled' BY <1>1, <1>4 DEF FilesInv, StoreTypeOK, NamesSettled, nameVars, Entries
<1> QED BY <1>5, <1>6, <1>7, <1>8, <1>9 DEF FilesInv

LEMMA WriteBackNameInv == ASSUME FilesInv, NEW p \in Paths, WriteBackName(p) PROVE FilesInv'
<1>1. /\ disk' = [disk EXCEPT ![p] = entry[p]]
      /\ UNCHANGED <<fileVars, entry, reported, job>>
  BY DEF WriteBackName
<1>2. StoreTypeOK' BY <1>1 DEF FilesInv, StoreTypeOK, fileVars
<1>3. JobsBusy' BY <1>1 DEF FilesInv, JobsBusy
<1>4. FilesHeld' BY <1>1 DEF FilesInv, StoreTypeOK, FilesHeld, Named
<1>5. FilesFilled' BY <1>1 DEF FilesInv, FilesFilled, fileVars, Settled
<1>6. NamesSettled' BY <1>1 DEF FilesInv, StoreTypeOK, NamesSettled, fileVars, Settled
<1> QED BY <1>2, <1>3, <1>4, <1>5, <1>6 DEF FilesInv

LEMMA PowerLossInv == ASSUME FilesInv, PowerLoss PROVE FilesInv'
<1>1. /\ data' = stored' /\ entry' = disk /\ UNCHANGED <<disk, reported>>
      /\ job' = [s \in Savers |-> Idle]
      /\ stored' \in [Inodes -> Contents]
  BY DEF PowerLoss, FilesInv, StoreTypeOK, Contents, Blank
<1>2. \A p \in Paths : disk[p].inode # None =>
        disk[p].inode \in Inodes /\ stored'[disk[p].inode] = data[disk[p].inode]
  BY DEF PowerLoss, FilesInv, StoreTypeOK, NamesSettled, Settled, Entries
<1>3. StoreTypeOK' BY <1>1 DEF FilesInv, StoreTypeOK, Idle, Jobs, Stages
<1>4. JobsBusy' BY <1>1 DEF JobsBusy
<1>5. FilesHeld' BY <1>1 DEF FilesHeld, Idle, Early
<1>6. FilesFilled' BY <1>1 DEF FilesFilled, Idle
<1>7. NamesSettled' BY <1>1, <1>2 DEF FilesInv, NamesSettled, Settled, Whole
<1> QED BY <1>3, <1>4, <1>5, <1>6, <1>7 DEF FilesInv

LEMMA FilesNext == ASSUME FilesInv, [FileNext]_storeVars PROVE FilesInv'
<1>1. ASSUME NEW s \in Savers, NEW v \in Values, NEW p \in Journal, durableWrite(s, p, v)
      PROVE FilesInv'
  BY <1>1, OpenInv DEF durableWrite, Paths
<1>2. ASSUME NEW s \in Savers, NEW v \in Values, SaveMetadata(s, v) PROVE FilesInv'
  BY <1>2, OpenInv DEF SaveMetadata, Paths
<1>3. ASSUME NEW s \in Savers, NEW v \in Values, SaveFile(s, v) PROVE FilesInv'
  BY <1>3, OpenInv DEF SaveFile, Paths
<1>4. ASSUME NEW s \in Savers, NEW v \in Values, setActive(s, v) PROVE FilesInv'
  BY <1>4, OpenInv DEF setActive, Paths
<1>5. ASSUME NEW s \in Savers, Progress(s) \/ syncDir(s) \/ Stop(s) PROVE FilesInv'
  BY <1>5, WriteDataInv, ChmodInv, SyncInv, RenameInv, SyncDirInv, StopInv DEF Progress
<1>6. CASE Kernel BY <1>6, WriteBackInv, WriteBackNameInv DEF Kernel
<1>7. CASE PowerLoss BY <1>7, PowerLossInv
<1>8. CASE UNCHANGED storeVars
  BY <1>8 DEF storeVars, FilesInv, StoreTypeOK, JobsBusy, FilesHeld, FilesFilled, NamesSettled,
              Settled, Named
<1> QED BY <1>1, <1>2, <1>3, <1>4, <1>5, <1>6, <1>7, <1>8 DEF FileNext

\* Entries and reports only move forward, a report no further than the disk.
LEMMA TurnsNext == ASSUME IInv, [FileNext]_storeVars PROVE TurnsInOrder'
<1> USE DEF IInv, FilesInv, StoreTypeOK, TurnsInOrder
<1>1. ASSUME NEW s \in Savers, NEW p, NEW v, NEW c, NEW st \in {"created", "synced"},
             Open(s, p, v, c, st)
      PROVE TurnsInOrder'
  BY <1>1 DEF Open, nameVars, Idle, Jobs
<1>2. ASSUME NEW s \in Savers, NEW v \in Values,
             \/ \E p \in Journal : durableWrite(s, p, v)
             \/ SaveMetadata(s, v) \/ SaveFile(s, v) \/ setActive(s, v)
      PROVE TurnsInOrder'
  BY <1>1, <1>2 DEF durableWrite, SaveMetadata, SaveFile, setActive
<1>3. ASSUME NEW s \in Savers, WriteData(s) \/ Chmod(s) \/ Sync(s) PROVE TurnsInOrder'
  <2>1. /\ UNCHANGED nameVars
        /\ \E st \in Stages : st # "renamed" /\ job' = [job EXCEPT ![s].stage = st]
    BY <1>3 DEF WriteData, Chmod, Sync, Stages
  <2> QED BY <2>1 DEF nameVars
<1>4. ASSUME NEW s \in Savers, Rename(s) PROVE TurnsInOrder'
  BY <1>4 DEF JobsBusy, Rename, Entries, Jobs, Idle
<1>5. ASSUME NEW s \in Savers, syncDir(s) PROVE TurnsInOrder'
  BY <1>5 DEF JobsBusy, syncDir, Entries, Jobs, Idle, Later
<1>6. ASSUME NEW s \in Savers, Stop(s) PROVE TurnsInOrder'
  BY <1>6 DEF Stop, nameVars, Idle
<1>7. ASSUME NEW i \in Inodes, WriteBack(i) PROVE TurnsInOrder'
  BY <1>7 DEF WriteBack, nameVars
<1>8. ASSUME NEW p \in Paths, WriteBackName(p) PROVE TurnsInOrder'
  BY <1>8 DEF WriteBackName, Entries
<1>9. CASE PowerLoss BY <1>9 DEF PowerLoss, Idle, Entries
<1>10. CASE UNCHANGED storeVars BY <1>10 DEF storeVars
<1> QED BY <1>2, <1>3, <1>4, <1>5, <1>6, <1>7, <1>8, <1>9, <1>10 DEF FileNext, Progress, Kernel

LEMMA NextInv == ASSUME IInv, [FileNext]_storeVars PROVE IInv'
BY FilesNext, TurnsNext DEF IInv

LEMMA FilesOfIInv == IInv => FilesInv
BY DEF IInv

(* Files are typed, whatever the savers, the kernel and the power do.           *)
THEOREM StoreTypeCorrect == FileSpec => []StoreTypeOK
<1>1. IInv => StoreTypeOK BY DEF IInv, FilesInv
<1> QED BY <1>1, InitInv, NextInv, PTL DEF FileSpec

(* A save that was reported, or a later one, is on disk (durableWrite and its   *)
(* siblings return what the sync of the directory returned).                    *)
THEOREM ReportedIsDurable == FileSpec => []SuccessIsDurable
<1>1. IInv => SuccessIsDurable BY DEF IInv, TurnsInOrder, SuccessIsDurable
<1> QED BY <1>1, InitInv, NextInv, PTL DEF FileSpec

----------------------------------------------------------------------------
(* Every step is one of AtomicFile, or changes nothing a reader or a boot sees. *)

\* What is found depends on the names and the files that have one.
LEMMA FoundAgain ==
  ASSUME NEW names, NEW contents, NEW names2, NEW contents2,
         \A p \in Paths : /\ names2[p].inode = names[p].inode
                          /\ names[p].inode # None
                             => contents2[names[p].inode] = contents[names[p].inode]
  PROVE Found(names2, contents2) = Found(names, contents)
BY DEF Found

LEMMA NoChange ==
  ASSUME FilesInv, UNCHANGED <<entry, disk>>,
         \A i \in Inodes : Named(i) => data'[i] = data[i] /\ stored'[i] = stored[i]
  PROVE UNCHANGED <<Now, Safe>>
<1>1. \A p \in Paths : entry[p].inode # None => data'[entry[p].inode] = data[entry[p].inode]
  BY DEF FilesInv, StoreTypeOK, Entries, Named
<1>2. \A p \in Paths : disk[p].inode # None => stored'[disk[p].inode] = stored[disk[p].inode]
  BY DEF FilesInv, StoreTypeOK, Entries, Named
<1> QED BY <1>1, <1>2 DEF Now, Safe, Found

LEMMA RenameStep ==
  ASSUME FilesInv, NEW s \in Savers, Rename(s)
  PROVE \E p \in Paths : File!Replace(p)
<1> DEFINE p == job[s].path  v == data[job[s].inode].value
<1>1. p \in Paths /\ job[s].inode \in Inodes /\ Settled(job[s].inode)
  BY DEF Rename, FilesInv, JobsBusy, FilesFilled, Idle
<1>2. Safe' = Safe BY DEF Rename, fileVars, Safe
<1>3. entry' = [entry EXCEPT ![p] = [inode |-> job[s].inode, turn |-> entry[p].turn + 1]]
  BY DEF Rename
<1>4. data' = data BY DEF Rename, fileVars
<1>5. Now' = [Now EXCEPT ![p] = v]
  BY <1>1, <1>3, <1>4 DEF Now, Found, Settled, FilesInv, StoreTypeOK
<1> QED BY <1>1, <1>2, <1>5 DEF File!Replace, Settled

LEMMA SettleStep ==
  ASSUME FilesInv, NEW P \in SUBSET Paths, UNCHANGED <<fileVars, entry>>,
         disk' = [q \in Paths |-> IF q \in P THEN entry[q] ELSE disk[q]]
  PROVE File!Settle(P)
<1>1. Now' = Now BY DEF fileVars, Now
<1>2. Safe' = [q \in Paths |-> IF q \in P THEN Now[q] ELSE Safe[q]]
  BY DEF fileVars, Now, Safe, Found, FilesInv, StoreTypeOK, NamesSettled, Settled
<1> QED BY <1>1, <1>2 DEF File!Settle

LEMMA PowerLossStep == ASSUME FilesInv, PowerLoss PROVE File!PowerLoss
<1>1. /\ data' = stored' /\ entry' = disk /\ disk' = disk
      /\ \A p \in Paths : disk[p].inode # None => stored'[disk[p].inode] = stored[disk[p].inode]
  BY DEF PowerLoss, FilesInv, StoreTypeOK, Entries
<1>2. Safe' = Safe BY <1>1 DEF Safe, Found
<1>3. Now' = Safe BY <1>1 DEF Now, Safe, Found
<1> QED BY <1>2, <1>3 DEF File!PowerLoss

LEMMA FileStep == ASSUME FilesInv, [FileNext]_storeVars PROVE [File!Next]_<<Now, Safe>>
<1>1. ASSUME NEW s \in Savers, NEW p \in Paths, NEW v, NEW c, NEW st, Open(s, p, v, c, st)
      PROVE UNCHANGED <<Now, Safe>>
  <2>1. FreshInode \in Inodes /\ ~Named(FreshInode) BY <1>1, FreshIsFree DEF Open, Free
  <2> QED BY <1>1, <2>1, NoChange DEF Open, nameVars, FilesInv, StoreTypeOK
<1>2. ASSUME NEW s \in Savers, WriteData(s) \/ Chmod(s) \/ Sync(s)
      PROVE UNCHANGED <<Now, Safe>>
  <2>1. job[s].inode \in Inodes /\ ~Named(job[s].inode)
    BY <1>2 DEF WriteData, Chmod, Sync, FilesInv, JobsBusy, FilesHeld, Early, Idle
  <2>2. CASE WriteData(s) BY <2>1, <2>2, NoChange DEF WriteData, nameVars, FilesInv, StoreTypeOK
  <2>3. CASE Chmod(s) BY <2>1, <2>3, NoChange DEF Chmod, nameVars, FilesInv, StoreTypeOK
  <2>4. CASE Sync(s) BY <2>1, <2>4, NoChange DEF Sync, nameVars, FilesInv, StoreTypeOK
  <2> QED BY <1>2, <2>2, <2>3, <2>4
<1>3. ASSUME NEW s \in Savers, Stop(s) PROVE UNCHANGED <<Now, Safe>>
  BY <1>3, NoChange DEF Stop, nameVars, FilesInv, StoreTypeOK
<1>4. ASSUME NEW s \in Savers, syncDir(s) PROVE \E P \in SUBSET Paths : File!Settle(P)
  <2> DEFINE P == {q \in Paths : Dir[q] = Dir[job[s].path]}
  <2>1. disk' = [q \in Paths |-> IF q \in P THEN entry[q] ELSE disk[q]] BY <1>4 DEF syncDir
  <2>2. File!Settle(P) BY <1>4, <2>1, SettleStep DEF syncDir
  <2> QED BY <2>2
<1>5. ASSUME NEW i \in Inodes, WriteBack(i) PROVE UNCHANGED <<Now, Safe>>
  <2>1. ~Named(i) BY <1>5 DEF WriteBack, FilesInv, NamesSettled, Named, Settled, StoreTypeOK
  <2>2. \A j \in Inodes : j # i => stored'[j] = stored[j]
    BY <1>5 DEF WriteBack, FilesInv, StoreTypeOK
  <2> QED BY <1>5, <2>1, <2>2, NoChange DEF WriteBack, nameVars
<1>6. ASSUME NEW p \in Paths, WriteBackName(p) PROVE File!Settle({p})
  <2>1. disk' = [q \in Paths |-> IF q \in {p} THEN entry[q] ELSE disk[q]]
    BY <1>6 DEF WriteBackName, FilesInv, StoreTypeOK
  <2> QED BY <1>6, <2>1, SettleStep DEF WriteBackName
<1>7. CASE PowerLoss BY <1>7, PowerLossStep DEF File!Next
<1>8. CASE UNCHANGED storeVars BY <1>8 DEF storeVars, Now, Safe
<1>9. ASSUME NEW s \in Savers, NEW v \in Values,
             \/ \E p \in Journal : durableWrite(s, p, v)
             \/ SaveMetadata(s, v) \/ SaveFile(s, v) \/ setActive(s, v)
      PROVE UNCHANGED <<Now, Safe>>
  BY <1>1, <1>9 DEF durableWrite, SaveMetadata, SaveFile, setActive, Paths
<1>10. ASSUME NEW s \in Savers, Progress(s) \/ syncDir(s) \/ Stop(s)
       PROVE [File!Next]_<<Now, Safe>>
  BY <1>2, <1>3, <1>4, <1>10, RenameStep DEF Progress, File!Next
<1>11. CASE Kernel
  <2>1. CASE \E i \in Inodes : WriteBack(i) BY <2>1, <1>5
  <2>2. CASE \E p \in Paths : WriteBackName(p) BY <2>2, <1>6 DEF File!Next
  <2> QED BY <1>11, <2>1, <2>2 DEF Kernel
<1> QED BY <1>7, <1>8, <1>9, <1>10, <1>11 DEF FileNext

LEMMA FileInit == StoreInit => File!Init
BY DEF StoreInit, File!Init, Now, Safe, Found, NoFile

(* The write protocol implements AtomicFile: no reader and no boot finds a torn *)
(* file, for every number of savers, files and values.                          *)
THEOREM ImplementsAtomicFile == FileSpec => ReplacesAtomically
BY FileInit, FileStep, InitInv, FilesNext, FilesOfIInv, PTL
   DEF FileSpec, ReplacesAtomically, File!Spec, File!vars

----------------------------------------------------------------------------
(* The journal. One process writes; what its steps change of what a reader and  *)
(* a boot find.                                                                 *)

USE JournalAssumption

LEMMA NowIsRead ==
  ASSUME FilesInv, NEW p \in Paths
  PROVE  Read(p) = Now[p] /\ OnDisk(p) = Safe[p]
BY DEF FilesInv, NamesSettled, Settled, Read, OnDisk, Now, Safe, Found

LEMMA FoundOnPaths ==
  /\ DOMAIN Now = Paths /\ Now = [p \in Paths |-> Now[p]]
  /\ DOMAIN Safe = Paths /\ Safe = [p \in Paths |-> Safe[p]]
BY DEF Now, Safe, Found

LEMMA JobOfRoot ==
  ASSUME FilesInv, job[Root] # Idle
  PROVE  job[Root].path \in Paths /\ job[Root].value \in Values /\ job[Root].stage \in Stages
BY DEF FilesInv, JobsBusy, StoreTypeOK, Jobs

\* A save begins: nothing is seen of it.
LEMMA OpenEffect ==
  ASSUME FilesInv, NEW p \in Paths, NEW v \in Values,
         (p = Selector /\ setActive(Root, v)) \/ durableWrite(Root, p, v)
  PROVE  /\ FilesInv' /\ UNCHANGED <<Now, Safe>>
         /\ job'[Root].path = p /\ job'[Root].value = v /\ job'[Root].stage # "renamed"
<1>1. PICK c \in {Blank, Filled(v)} : \E st \in {"created", "synced"} :
        /\ Open(Root, p, v, c, st)
        /\ (c = Blank /\ st = "created") \/ (c = Filled(v) /\ st = "synced")
  BY DEF setActive, durableWrite
<1>2. FilesInv' BY <1>1, OpenInv
<1>3. FreshInode \in Inodes /\ ~Named(FreshInode) BY <1>1, FreshIsFree DEF Open, Free
<1>4. UNCHANGED <<Now, Safe>>
  BY <1>1, <1>3, NoChange DEF Open, nameVars, FilesInv, StoreTypeOK
<1> QED BY <1>1, <1>2, <1>4 DEF Open, FilesInv, StoreTypeOK

\* It goes on unseen until the file is renamed.
LEMMA ProgressEffect ==
  ASSUME FilesInv, Progress(Root)
  PROVE  /\ FilesInv' /\ Safe' = Safe /\ job[Root] # Idle
         /\ job'[Root].path = job[Root].path /\ job'[Root].value = job[Root].value
         /\ job[Root].stage # "renamed"
         /\ \/ Now' = Now /\ job'[Root].stage # "renamed"
            \/ /\ Now' = [Now EXCEPT ![job[Root].path] = job[Root].value]
               /\ job'[Root].stage = "renamed"
<1>1. CASE WriteData(Root) \/ Chmod(Root) \/ Sync(Root)
  <2>1. job[Root].inode \in Inodes /\ ~Named(job[Root].inode)
    BY <1>1 DEF WriteData, Chmod, Sync, FilesInv, JobsBusy, FilesHeld, Early, Idle
  <2>2. FilesInv' BY <1>1, WriteDataInv, ChmodInv, SyncInv
  <2>3. UNCHANGED <<Now, Safe>>
    <3>1. CASE WriteData(Root) BY <2>1, <3>1, NoChange DEF WriteData, nameVars, FilesInv, StoreTypeOK
    <3>2. CASE Chmod(Root) BY <2>1, <3>2, NoChange DEF Chmod, nameVars, FilesInv, StoreTypeOK
    <3>3. CASE Sync(Root) BY <2>1, <3>3, NoChange DEF Sync, nameVars, FilesInv, StoreTypeOK
    <3> QED BY <1>1, <3>1, <3>2, <3>3
  <2>4. PICK st \in {"written", "moded", "synced"} :
          job' = [job EXCEPT ![Root].stage = st] /\ job[Root].stage \notin {"renamed", "idle"}
    BY <1>1 DEF WriteData, Chmod, Sync
  <2>5. job \in [Savers -> Jobs] BY DEF FilesInv, StoreTypeOK
  <2>6. /\ job'[Root].stage = st /\ job'[Root].path = job[Root].path
        /\ job'[Root].value = job[Root].value /\ job[Root] # Idle
    BY <2>4, <2>5 DEF Jobs, Idle
  <2> QED BY <2>2, <2>3, <2>4, <2>6
<1>2. CASE Rename(Root)
  <2>1. /\ job[Root].path \in Paths /\ job[Root].inode \in Inodes /\ job[Root] # Idle
        /\ Settled(job[Root].inode) /\ data[job[Root].inode].value = job[Root].value
    BY <1>2 DEF Rename, FilesInv, JobsBusy, FilesFilled, Idle
  <2>2. FilesInv' BY <1>2, RenameInv
  <2>3. Safe' = Safe BY <1>2 DEF Rename, fileVars, Safe
  <2>4. entry' = [entry EXCEPT ![job[Root].path] =
                    [inode |-> job[Root].inode, turn |-> entry[job[Root].path].turn + 1]]
        /\ data' = data
    BY <1>2 DEF Rename, fileVars
  <2>5. Now' = [Now EXCEPT ![job[Root].path] = job[Root].value]
    BY <2>1, <2>4 DEF Now, Found, Settled, FilesInv, StoreTypeOK
  <2>6. job' = [job EXCEPT ![Root] = [job[Root] EXCEPT !.stage = "renamed",
                                       !.turn = entry[job[Root].path].turn + 1]]
        /\ job[Root].stage = "synced"
    BY <1>2 DEF Rename
  <2>7. /\ job'[Root].path = job[Root].path /\ job'[Root].value = job[Root].value
        /\ job'[Root].stage = "renamed"
    BY <2>6 DEF FilesInv, StoreTypeOK, Jobs
  <2> QED BY <2>1, <2>2, <2>3, <2>5, <2>6, <2>7
<1> QED BY <1>1, <1>2 DEF Progress

\* The sync of the directory takes this name to disk, and perhaps others.
LEMMA SyncDirEffect ==
  ASSUME FilesInv, syncDir(Root)
  PROVE  /\ FilesInv' /\ Now' = Now /\ HalfSaved /\ job[Root] # Idle /\ job'[Root] = Idle
         /\ \A q \in Paths : Safe'[q] \in {Safe[q], Now[q]}
         /\ Safe'[job[Root].path] = Now[job[Root].path]
<1>1. /\ job[Root].stage = "renamed" /\ UNCHANGED <<fileVars, entry>>
      /\ disk' = [q \in Paths |-> IF Dir[q] = Dir[job[Root].path] THEN entry[q] ELSE disk[q]]
      /\ job' = [job EXCEPT ![Root] = Idle]
  BY DEF syncDir
<1>2. job[Root] # Idle BY <1>1 DEF Idle
<1>3. Now' = Now BY <1>1 DEF fileVars, Now
<1>4. \A q \in Paths : Safe'[q] = IF Dir[q] = Dir[job[Root].path] THEN Now[q] ELSE Safe[q]
  BY <1>1 DEF fileVars, Now, Safe, Found, FilesInv, StoreTypeOK, NamesSettled, Settled
<1>5. FilesInv' BY SyncDirInv
<1>6. job'[Root] = Idle BY <1>1 DEF FilesInv, StoreTypeOK
<1> QED BY <1>1, <1>2, <1>3, <1>4, <1>5, <1>6, JobOfRoot DEF HalfSaved

LEMMA WriteBackNameEffect ==
  ASSUME FilesInv, NEW p \in Paths, WriteBackName(p)
  PROVE  /\ FilesInv' /\ Now' = Now /\ job' = job
         /\ \A q \in Paths : Safe'[q] \in {Safe[q], Now[q]}
<1>1. FilesInv' BY WriteBackNameInv
<1>2. disk' = [disk EXCEPT ![p] = entry[p]] /\ UNCHANGED <<fileVars, entry, job>>
  BY DEF WriteBackName
<1>3. Now' = Now BY <1>2 DEF fileVars, Now
<1>4. \A q \in Paths : Safe'[q] \in {Safe[q], Now[q]}
  BY <1>2 DEF fileVars, Now, Safe, Found, FilesInv, StoreTypeOK, NamesSettled, Settled
<1> QED BY <1>1, <1>2, <1>3, <1>4

LEMMA PowerLossEffect ==
  ASSUME FilesInv, PowerLoss
  PROVE  FilesInv' /\ Safe' = Safe /\ Now' = Safe /\ job'[Root] = Idle
<1>1. File!PowerLoss BY PowerLossStep
<1> QED BY <1>1, PowerLossInv DEF File!PowerLoss, PowerLoss

LEMMA StopEffect ==
  ASSUME FilesInv, Stop(Root)
  PROVE  FilesInv' /\ UNCHANGED <<Now, Safe>> /\ job'[Root] = Idle /\ job[Root] # Idle
<1>1. UNCHANGED <<Now, Safe>> BY NoChange DEF Stop, nameVars, FilesInv, StoreTypeOK
<1> QED BY <1>1, StopInv DEF Stop, FilesInv, StoreTypeOK

LEMMA RemoveEffect ==
  ASSUME FilesInv, NEW p \in Paths, Remove(p)
  PROVE  /\ FilesInv' /\ Safe' = Safe /\ Now' = [Now EXCEPT ![p] = None] /\ job' = job
<1>1. /\ entry' = [entry EXCEPT ![p] = [inode |-> None, turn |-> entry[p].turn + 1]]
      /\ reported' = [reported EXCEPT ![p] = entry[p].turn + 1]
      /\ UNCHANGED <<fileVars, disk, job>> /\ entry[p].turn < MaxTurns
  BY DEF Remove
<1>2. StoreTypeOK'
  <2>1. entry[p].turn + 1 \in 0..MaxTurns
    BY <1>1 DEF FilesInv, StoreTypeOK, Entries
  <2>2. [inode |-> None, turn |-> entry[p].turn + 1] \in Entries BY <2>1 DEF Entries
  <2> QED BY <1>1, <2>1, <2>2 DEF FilesInv, StoreTypeOK, fileVars
<1>3. JobsBusy' BY <1>1 DEF FilesInv, JobsBusy
<1>4. FilesHeld' BY <1>1 DEF FilesInv, StoreTypeOK, JobsBusy, FilesHeld, Named, Early, Idle
<1>5. FilesFilled' BY <1>1 DEF FilesInv, FilesFilled, fileVars, Settled
<1>6. NamesSettled' BY <1>1 DEF FilesInv, StoreTypeOK, NamesSettled, fileVars, Settled
<1>7. Now' = [Now EXCEPT ![p] = None]
  BY <1>1 DEF Now, Found, fileVars, FilesInv, StoreTypeOK
<1>8. Safe' = Safe BY <1>1 DEF Safe, fileVars
<1> QED BY <1>1, <1>2, <1>3, <1>4, <1>5, <1>6, <1>7, <1>8 DEF FilesInv

----------------------------------------------------------------------------
(* The invariant of the journal, in two parts. Base holds of every transaction  *)
(* and whatever was left unsynced. LastInv is about the last transaction, and     *)
(* needs that no journal was: then the earlier transactions stay decided.         *)

Links == {Selector, Ownership}
Late(s) == s.phase \notin {"prepared", "armed"}
Decided(s) == s.phase \in {"confirmed", "rolledback"}
Writes(k, p) == k \in 1..Len(todo) /\ todo[k].path = p
Proper == {s \in States : s.prev # s.gen}

\* What a file can hold.
FileOK(p, v) ==
  \/ v = None
  \/ p \in Links /\ v \in Generations
  \/ \E u \in Txs : p = TxDir[u] /\ v \in Generations
  \/ \E u \in Txs : p = State[u] /\ v \in Proper
  \/ \E g \in Generations : p = GenDir[g] /\ v = g

TypeInv ==
  /\ \A p \in Paths : FileOK(p, Now[p]) /\ FileOK(p, Safe[p])
  /\ todo \in Seq([path : Paths, value : Values \cup {None}])
  /\ \A k \in 1..Len(todo) : /\ FileOK(todo[k].path, todo[k].value)
                             /\ todo[k].value = None => todo[k].path \in Links
  /\ tx \in [id : Nat, state : States \cup {None}, applying : BOOLEAN]
  /\ tx.applying => tx.id \in Txs /\ tx.state \in Proper /\ todo # <<>>

\* The write in progress is the first of those that remain.
JobInv ==
  /\ job[Root] # Idle => /\ todo # <<>> /\ job[Root].path = todo[1].path
                         /\ job[Root].value = todo[1].value
                         /\ tx.applying /\ todo[1].path = State[tx.id] => tx.state = todo[1].value
  /\ HalfSaved => Now[job[Root].path] = job[Root].value

\* What a reader sees is on disk, but for the write in progress, for one that
\* stopped there, and for removals.
FirmInv ==
  \A p \in Paths : \/ Now[p] = Safe[p]
                   \/ HalfSaved /\ job[Root].path = p
                   \/ p \in slipped
                   \/ p \in Links /\ Now[p] = None

\* What is on disk is seen: only a link is removed.
SeenInv == \A p \in Paths \ Links : Safe[p] # None => Now[p] # None

\* Nothing is written yet for a transaction to come.
FreshInv == \A u \in Txs : u > tx.id =>
  /\ Now[State[u]] = None /\ Safe[State[u]] = None
  /\ \A k \in 1..Len(todo) : ~Writes(k, State[u])

\* The journal of a transaction goes on from what it says: on disk, to a reader,
\* in the memory of apply and in what remains to be written.
Continues(r, s) == s.gen = r.gen /\ s.prev = r.prev /\ (Late(r) => Late(s))

ChainInv == \A u \in Txs :
  /\ Safe[State[u]] # None => Continues(Safe[State[u]], Now[State[u]])
  /\ tx.applying /\ u = tx.id /\ Now[State[u]] # None => Continues(Now[State[u]], tx.state)
  /\ \A k \in 1..Len(todo) : Writes(k, State[u]) =>
       /\ Now[State[u]] # None => Continues(Now[State[u]], todo[k].value)
       /\ tx.applying /\ u = tx.id => Continues(tx.state, todo[k].value)
       /\ \A j \in 1..(k - 1) : Writes(j, State[u]) => Continues(todo[j].value, todo[k].value)

ApplyingInv == tx.applying =>
  /\ ~Decided(tx.state)
  /\ Now[State[tx.id]] # None => ~Decided(Now[State[tx.id]])
  /\ \A k \in 1..Len(todo) :
       todo[k].value # None /\ (Writes(k, State[tx.id]) => ~Decided(todo[k].value))

\* A transaction has its directory before its journal.
DirInv == \A u \in Txs :
  /\ Now[State[u]] # None => Safe[TxDir[u]] # None
  /\ \A k \in 1..Len(todo) : Writes(k, State[u]) =>
       Safe[TxDir[u]] # None \/ \E j \in 1..(k - 1) : Writes(j, TxDir[u])

\* What the journal of a transaction says, and will say.
Recorded(u, s) ==
  \/ s = Now[State[u]] /\ s # None
  \/ \E k \in 1..Len(todo) : Writes(k, State[u]) /\ s = todo[k].value
  \/ tx.applying /\ u = tx.id /\ s = tx.state

\* A generation is on disk before it is selected, and stays there.
HasGen(g) == Safe[GenDir[g]] = g \/ GenDir[g] \in slipped

GenInv ==
  /\ \A g \in Generations : g \in {Now[Selector], Safe[Selector]} => HasGen(g)
  /\ \A g \in Generations : \A k \in 1..Len(todo) : todo[k] = Put(Selector, g) =>
       HasGen(g) \/ \E j \in 1..(k - 1) : Writes(j, GenDir[g])
  /\ \A u \in Txs : \A s \in Proper : Recorded(u, s) /\ s.prev # None => HasGen(s.prev)

\* A selection is recorded on disk before it is made.
Covers(s, g) == s # None /\ ((s.gen = g /\ Late(s)) \/ s.prev = g)
Covered(g) == \E u \in Txs : Safe[TxDir[u]] # None /\ Covers(Safe[State[u]], g)

SelectedInv ==
  /\ \A g \in Generations : g \in {Now[Selector], Safe[Selector]} => Covered(g)
  /\ \A g \in Generations : \A k \in 1..Len(todo) : todo[k] = Put(Selector, g) =>
       \/ Covered(g)
       \/ \E u \in Txs : \E j \in 1..(k - 1) : Writes(j, State[u]) /\ Covers(todo[j].value, g)
  /\ \A u \in Txs : \A s \in Proper : Recorded(u, s) /\ s.prev # None => Covered(s.prev)

Base == /\ TypeInv /\ JobInv /\ FirmInv /\ SeenInv /\ FreshInv /\ ChainInv
        /\ ApplyingInv /\ DirInv /\ GenInv /\ SelectedInv

\* No journal was left unsynced by a command that stopped.
Firm == \A u \in Txs : State[u] \notin slipped

\* Only the last transaction is undecided or written.
OthersInv ==
  \A u \in Txs : u # tx.id =>
    /\ Now[State[u]] = Safe[State[u]]
    /\ Now[State[u]] # None => Decided(Now[State[u]])
    /\ \A k \in 1..Len(todo) : ~Writes(k, State[u])

\* Nothing is changed before the journal on disk says that it is.
SaysMutated == Safe[State[tx.id]] # None /\ Late(Safe[State[tx.id]])
Restored(s) == Selector \in slipped \/ (Now[Selector] = s.prev /\ Safe[Selector] = s.prev)

AheadInv ==
  \A k \in 1..Len(todo) : todo[k].path \in Links =>
    /\ tx.id \in Txs
    /\ \/ SaysMutated
       \/ \E j \in 1..(k - 1) : Writes(j, State[tx.id]) /\ Late(todo[j].value)

UntouchedInv == tx.id \in Txs /\ ~SaysMutated =>
  \A s \in Proper : Recorded(tx.id, s) /\ s.prev # None => Restored(s)

\* Once an activation is recorded as done, a link that names its generation does so
\* on disk, and is not made to name it again.
Kept(p, g) == Now[p] = g => Safe[p] = g
NotAgain(i, g) == \A k \in 1..Len(todo) : k >= i /\ todo[k].path \in Links => todo[k].value # g

KeptInv == LET f == State[tx.id] IN tx.id \in Txs =>
  /\ \A s \in {Now[f], Safe[f]} : s # None /\ s.phase = "activated" =>
       NotAgain(1, s.gen) /\ \A p \in Links : Kept(p, s.gen)
  /\ tx.applying /\ tx.state.phase = "activated" =>
       NotAgain(1, tx.state.gen) /\ \A p \in Links : Kept(p, tx.state.gen)
  /\ \A k \in 1..Len(todo) : Writes(k, f) /\ todo[k].value.phase = "activated" =>
       /\ NotAgain(k, todo[k].value.gen)
       /\ \A p \in Links : Kept(p, todo[k].value.gen) \/ \E j \in 1..(k - 1) : Writes(j, p)

\* A decision is recorded after what it decides, and last.
Carried(s) ==
  /\ s.phase = "confirmed" => \A p \in Links : Now[p] = s.gen /\ Safe[p] = s.gen
  /\ s.phase = "rolledback" /\ s.prev # None => Restored(s)

\* The rollback that is going to be recorded at k as s: its selector is restored,
\* or is written before.
Restoring(k, s) == s.phase = "rolledback" /\ s.prev # None =>
  \/ Restored(s) /\ \A j \in 1..(k - 1) : ~Writes(j, Selector)
  \/ /\ \E j \in 1..(k - 1) : Writes(j, Selector)
     /\ \A j \in 1..(k - 1) : Writes(j, Selector) => todo[j].value = s.prev

DecidedInv == LET f == State[tx.id] IN tx.id \in Txs =>
  /\ \A s \in {Now[f], Safe[f]} : s # None /\ Decided(s) =>
       /\ Carried(s) /\ ~tx.applying
       /\ \A k \in 1..Len(todo) : Writes(k, f) /\ Decided(todo[k].value)
  /\ \A k \in 1..Len(todo) : Writes(k, f) /\ Decided(todo[k].value) =>
       /\ k = Len(todo)
       /\ todo[k].value.phase = "confirmed" => k = 1 /\ Carried(todo[k].value)
       /\ Restoring(k, todo[k].value)

LastInv == OthersInv /\ AheadInv /\ UntouchedInv /\ KeptInv /\ DecidedInv

JournalInv == Base /\ (Firm => LastInv)

----------------------------------------------------------------------------
(* Paths and what they hold.                                                    *)

LEMMA OwnNames ==
  /\ Links \subseteq Paths /\ Selector \in Links /\ Ownership \in Links /\ Selector \in Paths
  /\ \A t \in Txs : /\ TxDir[t] \in Paths \ Links /\ State[t] \in Paths \ Links
                    /\ t \in Nat /\ t # 0
  /\ \A t, u \in Txs : t # u => State[t] # State[u]
  /\ \A g \in Generations : GenDir[g] \in Paths \ Links
BY FilesAssumption DEF Links, Paths

LEMMA LinkHolds ==
  ASSUME NEW p \in Links, NEW v, FileOK(p, v)
  PROVE  v = None \/ v \in Generations
BY FilesAssumption DEF Links, FileOK

LEMMA StateHolds ==
  ASSUME NEW t \in Txs, NEW v, FileOK(State[t], v)
  PROVE  v = None \/ (v \in Proper /\ v \in States)
BY FilesAssumption, OwnNames DEF FileOK, Proper

LEMMA GenDirHolds ==
  ASSUME NEW g \in Generations, NEW v, FileOK(GenDir[g], v)
  PROVE  v = None \/ v = g
BY FilesAssumption, OwnNames DEF FileOK

LEMMA TodoHolds ==
  ASSUME TypeInv, NEW k \in 1..Len(todo)
  PROVE  /\ todo[k] = Put(todo[k].path, todo[k].value)
         /\ todo[k].path \in Paths /\ todo[k].value \in Values \cup {None}
<1> DEFINE W == [path : Paths, value : Values \cup {None}]
<1>1. todo \in Seq(W) BY DEF TypeInv
<1> HIDE DEF W
<1>2. todo[k] \in W BY <1>1
<1> QED BY <1>2 DEF Put, W

LEMMA NoneIsNothing == None \notin Generations /\ None \notin States /\ None \notin Proper
BY DEF Proper

LEMMA PutHolds ==
  ASSUME NEW p, NEW v
  PROVE  Put(p, v).path = p /\ Put(p, v).value = v
BY DEF Put

\* The disk takes over what a reader sees, here and there; what slipped is not
\* forgotten.
Settles == \A q \in Paths : Safe'[q] \in {Safe[q], Now[q]}
Remembers == \A q \in Paths : q \in slipped => q \in slipped'

LEMMA FirmStays == ASSUME Remembers, Firm' PROVE Firm
BY OwnNames DEF Remembers, Firm

LEMMA DiskGrows ==
  ASSUME FilesInv, Base, Settles, Remembers
  PROVE  /\ \A g \in Generations : HasGen(g) => HasGen(g)'
         /\ \A u \in Txs : Safe[TxDir[u]] # None => Safe'[TxDir[u]] # None
         /\ \A u \in Txs : Safe[State[u]] # None =>
              Safe'[State[u]] # None /\ Continues(Safe[State[u]], Safe'[State[u]])
         /\ \A g \in Generations : Covered(g) => Covered(g)'
         /\ tx.id \in Txs /\ tx'.id = tx.id /\ SaysMutated => SaysMutated'
<1>1. ASSUME NEW g \in Generations, HasGen(g) PROVE HasGen(g)'
  <2>1. GenDir[g] \in Paths \ Links BY OwnNames
  <2>2. CASE GenDir[g] \in slipped BY <2>1, <2>2 DEF HasGen, Remembers
  <2>3. CASE Safe[GenDir[g]] = g
    <3>1. Now[GenDir[g]] # None BY <2>1, <2>3, NoneIsNothing DEF Base, SeenInv
    <3>2. FileOK(GenDir[g], Now[GenDir[g]]) BY <2>1 DEF Base, TypeInv
    <3>3. Now[GenDir[g]] = g BY <3>1, <3>2, GenDirHolds
    <3> QED BY <2>1, <2>3, <3>3 DEF HasGen, Settles
  <2> QED BY <1>1, <2>2, <2>3 DEF HasGen
<1>2. ASSUME NEW u \in Txs, Safe[TxDir[u]] # None PROVE Safe'[TxDir[u]] # None
  <2>1. TxDir[u] \in Paths \ Links BY OwnNames
  <2> QED BY <1>2, <2>1 DEF Settles, Base, SeenInv
<1>3. ASSUME NEW u \in Txs, Safe[State[u]] # None
      PROVE  Safe'[State[u]] # None /\ Continues(Safe[State[u]], Safe'[State[u]])
  <2>1. State[u] \in Paths \ Links BY OwnNames
  <2>2. Now[State[u]] # None BY <1>3, <2>1 DEF Base, SeenInv
  <2>3. Continues(Safe[State[u]], Now[State[u]]) BY <1>3 DEF Base, ChainInv
  <2>4. Continues(Safe[State[u]], Safe[State[u]]) BY DEF Continues
  <2>5. Safe'[State[u]] \in {Safe[State[u]], Now[State[u]]} BY <2>1 DEF Settles
  <2> QED BY <1>3, <2>2, <2>3, <2>4, <2>5
<1>4. ASSUME NEW g \in Generations, Covered(g) PROVE Covered(g)'
  <2>1. PICK u \in Txs : Safe[TxDir[u]] # None /\ Covers(Safe[State[u]], g)
    BY <1>4 DEF Covered
  <2>2. Safe'[TxDir[u]] # None BY <1>2, <2>1
  <2>3. Safe'[State[u]] # None /\ Continues(Safe[State[u]], Safe'[State[u]])
    BY <1>3, <2>1 DEF Covers
  <2>4. Covers(Safe'[State[u]], g) BY <2>1, <2>3 DEF Covers, Continues
  <2> QED BY <2>2, <2>4 DEF Covered
<1>5. ASSUME tx.id \in Txs, tx'.id = tx.id, SaysMutated PROVE SaysMutated'
  BY <1>3, <1>5 DEF SaysMutated, Continues
<1> QED BY <1>1, <1>2, <1>3, <1>4, <1>5

LEMMA StaysRestored ==
  ASSUME Remembers, Settles, NEW s, Restored(s),
         Now'[Selector] = Now[Selector] \/ Selector \in slipped'
  PROVE  Restored(s)'
BY OwnNames DEF Remembers, Settles, Restored

LEMMA StaysKept ==
  ASSUME Settles, NEW p \in Links, NEW g, Kept(p, g), Now'[p] = Now[p]
  PROVE  Kept(p, g)'
BY OwnNames DEF Settles, Kept

----------------------------------------------------------------------------
(* The disk changes, and nothing else.                                          *)

SettlesStep == Settles /\ UNCHANGED <<Now, todo, tx, slipped>>

\* What a step cannot change without changing todo, tx or what is seen.
LEMMA SameRecords ==
  ASSUME UNCHANGED <<Now, todo, tx>>, NEW u, NEW s
  PROVE  Recorded(u, s)' <=> Recorded(u, s)
BY DEF Recorded, Writes

LEMMA BaseSettles ==
  ASSUME FilesInv, Base, SettlesStep, JobInv', FirmInv'
  PROVE  Base'
<1> USE DEF Writes, SettlesStep
<1>0. Remembers BY DEF Remembers
<1>1. TypeInv' BY DEF Base, TypeInv, Settles
<1>2. SeenInv' BY DEF Base, SeenInv, Settles
<1>3. FreshInv' BY OwnNames DEF Base, FreshInv, Settles
<1>4. ChainInv'
  <2> SUFFICES ASSUME NEW u \in Txs, Safe'[State[u]] # None
               PROVE  Continues(Safe'[State[u]], Now[State[u]])
    BY DEF Base, ChainInv
  <2>1. State[u] \in Paths BY OwnNames
  <2>2. \A s : Continues(s, s) BY DEF Continues
  <2> QED BY <2>1, <2>2 DEF Base, ChainInv, Settles
<1>5. ApplyingInv' BY DEF Base, ApplyingInv
<1>6. DirInv' BY <1>0, DiskGrows DEF Base, DirInv
<1>7. Selector \in Paths BY DEF Paths
<1>8. GenInv'
  <2>1. ASSUME NEW g \in Generations, g \in {Now'[Selector], Safe'[Selector]} PROVE HasGen(g)'
    BY <1>0, <1>7, <2>1, DiskGrows DEF Base, GenInv, Settles
  <2>2. ASSUME NEW g \in Generations, NEW k \in 1..Len(todo), todo[k] = Put(Selector, g)
        PROVE  HasGen(g)' \/ \E j \in 1..(k - 1) : Writes(j, GenDir[g])
    BY <1>0, <2>2, DiskGrows DEF Base, GenInv
  <2>3. ASSUME NEW u \in Txs, NEW s \in Proper, Recorded(u, s)', s.prev # None PROVE HasGen(s.prev)'
    <3>1. Recorded(u, s) /\ s.prev \in Generations BY <2>3, SameRecords DEF Proper, States
    <3> QED BY <1>0, <2>3, <3>1, DiskGrows DEF Base, GenInv
  <2> QED BY <2>1, <2>2, <2>3 DEF GenInv
<1>9. SelectedInv'
  <2>1. ASSUME NEW u \in Txs, NEW s \in Proper, Recorded(u, s)', s.prev # None PROVE Covered(s.prev)'
    <3>1. Recorded(u, s) /\ s.prev \in Generations BY <2>1, SameRecords DEF Proper, States
    <3> QED BY <1>0, <2>1, <3>1, DiskGrows DEF Base, SelectedInv
  <2>2. ASSUME NEW g \in Generations, g \in {Now'[Selector], Safe'[Selector]} PROVE Covered(g)'
    BY <1>0, <1>7, <2>2, DiskGrows DEF Base, SelectedInv, Settles
  <2>3. ASSUME NEW g \in Generations, NEW k \in 1..Len(todo), todo[k] = Put(Selector, g)
        PROVE  \/ Covered(g)'
               \/ \E u \in Txs : \E j \in 1..(k - 1) : Writes(j, State[u]) /\ Covers(todo[j].value, g)
    BY <1>0, <2>3, DiskGrows DEF Base, SelectedInv
  <2> QED BY <2>1, <2>2, <2>3 DEF SelectedInv
<1> QED BY <1>1, <1>2, <1>3, <1>4, <1>5, <1>6, <1>8, <1>9 DEF Base

LEMMA LastSettles ==
  ASSUME FilesInv, Base, LastInv, SettlesStep
  PROVE  LastInv'
<1> USE DEF Writes, SettlesStep
<1>0. Remembers BY DEF Remembers
<1>1. OthersInv' BY OwnNames DEF LastInv, OthersInv, Settles
<1>2. AheadInv' BY <1>0, DiskGrows DEF LastInv, AheadInv
<1>3. ASSUME NEW s, Restored(s) PROVE Restored(s)'
  BY <1>0, <1>3, StaysRestored
<1>4. UntouchedInv' BY <1>0, <1>3, DiskGrows, SameRecords DEF LastInv, UntouchedInv
<1>5. KeptInv'
  <2> SUFFICES ASSUME tx.id \in Txs PROVE KeptInv' BY DEF KeptInv
  <2>1. State[tx.id] \in Paths BY OwnNames
  <2>2. \A p \in Links : \A g : Kept(p, g) => Kept(p, g)' BY StaysKept
  <2>3. \A i, g : NotAgain(i, g) => NotAgain(i, g)' BY DEF NotAgain
  <2>4. \A s \in {Now'[State[tx.id]], Safe'[State[tx.id]]} :
          s \in {Now[State[tx.id]], Safe[State[tx.id]]}
    BY <2>1 DEF Settles
  <2> QED BY <2>2, <2>3, <2>4 DEF LastInv, KeptInv
<1>6. DecidedInv'
  <2> SUFFICES ASSUME tx.id \in Txs PROVE DecidedInv' BY DEF DecidedInv
  <2>1. State[tx.id] \in Paths BY OwnNames
  <2>2. ASSUME NEW s, Carried(s) PROVE Carried(s)'
    BY <1>3, <2>2, OwnNames DEF Carried, Settles
  <2>3. ASSUME NEW k, NEW s, Restoring(k, s) PROVE Restoring(k, s)'
    BY <1>3, <2>3 DEF Restoring
  <2> QED BY <2>1, <2>2, <2>3 DEF LastInv, DecidedInv, Settles
<1> QED BY <1>1, <1>2, <1>4, <1>5, <1>6 DEF LastInv

----------------------------------------------------------------------------
(* The file gets its name.                                                      *)

RenamesStep ==
  /\ UNCHANGED <<Safe, todo, tx, slipped>> /\ ~HalfSaved /\ job[Root] # Idle
  /\ job'[Root].path = job[Root].path /\ job'[Root].value = job[Root].value /\ HalfSaved'
  /\ Now' = [Now EXCEPT ![job[Root].path] = job[Root].value]

LEMMA Renamed ==
  ASSUME FilesInv, Base, RenamesStep, NEW p, p = todo[1].path, NEW v, v = todo[1].value
  PROVE  /\ p = job[Root].path /\ v = job[Root].value /\ 1 \in 1..Len(todo)
         /\ p \in Paths /\ v \in Values /\ v # None /\ FileOK(p, v) /\ todo[1] = Put(p, v)
         /\ tx.applying /\ p = State[tx.id] => tx.state = v
         /\ \A q \in Paths : Now'[q] = IF q = p THEN v ELSE Now[q]
         /\ \A u \in Txs : IF p = State[u]
              THEN Now'[State[u]] = v /\ Writes(1, State[u]) /\ v \in Proper
              ELSE Now'[State[u]] = Now[State[u]]
         /\ \A u \in Txs : p \in Links => Now'[State[u]] = Now[State[u]]
<1>1. job[Root] # Idle BY DEF RenamesStep
<1>2. /\ p = job[Root].path /\ v = job[Root].value /\ 1 \in 1..Len(todo)
      /\ tx.applying /\ p = State[tx.id] => tx.state = v
  BY <1>1 DEF Base, JobInv, TypeInv
<1>3. p \in Paths /\ v \in Values /\ v # None BY <1>1, <1>2, JobOfRoot
<1>4. FileOK(p, v) BY <1>2 DEF Base, TypeInv
<1>5. todo[1] = Put(p, v) BY <1>2, TodoHolds DEF Base
<1>6. \A q \in Paths : Now'[q] = IF q = p THEN v ELSE Now[q]
  BY <1>2, <1>3, FoundOnPaths DEF RenamesStep
<1>7. ASSUME NEW u \in Txs, p = State[u]
      PROVE  Now'[State[u]] = v /\ Writes(1, State[u]) /\ v \in Proper
  BY <1>2, <1>3, <1>4, <1>6, <1>7, StateHolds DEF Writes
<1>8. ASSUME NEW u \in Txs, p # State[u] PROVE Now'[State[u]] = Now[State[u]]
  BY <1>6, <1>8, OwnNames
<1> QED BY <1>2, <1>3, <1>4, <1>5, <1>6, <1>7, <1>8, OwnNames

LEMMA RecordedBeforeRename ==
  ASSUME FilesInv, Base, RenamesStep, NEW u \in Txs, NEW s, Recorded(u, s)'
  PROVE  Recorded(u, s)
<1>1. PICK p, v : p = todo[1].path /\ v = todo[1].value OBVIOUS
<1>2. IF p = State[u] THEN Now'[State[u]] = v /\ Writes(1, State[u])
                      ELSE Now'[State[u]] = Now[State[u]]
  BY <1>1, Renamed
<1> QED BY <1>1, <1>2 DEF Recorded, Writes, RenamesStep

LEMMA BaseRenames ==
  ASSUME FilesInv, Base, RenamesStep
  PROVE  Base'
<1>1. PICK p, v : p = todo[1].path /\ v = todo[1].value OBVIOUS
<1>2. /\ p = job[Root].path /\ v = job[Root].value /\ 1 \in 1..Len(todo)
      /\ p \in Paths /\ v \in Values /\ v # None /\ FileOK(p, v) /\ todo[1] = Put(p, v)
      /\ tx.applying /\ p = State[tx.id] => tx.state = v
      /\ \A q \in Paths : Now'[q] = IF q = p THEN v ELSE Now[q]
      /\ \A u \in Txs : IF p = State[u]
           THEN Now'[State[u]] = v /\ Writes(1, State[u]) /\ v \in Proper
           ELSE Now'[State[u]] = Now[State[u]]
  BY <1>1, Renamed
<1>3. UNCHANGED <<Safe, todo, tx, slipped>> BY DEF RenamesStep
<1>4. \A u \in Txs, k \in Nat : Writes(k, State[u])' <=> Writes(k, State[u]) BY <1>3 DEF Writes
<1>5. TypeInv' BY <1>2, <1>3 DEF Base, TypeInv
<1>6. JobInv'
  BY <1>1, <1>2, <1>3 DEF Base, JobInv, RenamesStep
<1>7. FirmInv' BY <1>2, <1>3 DEF Base, FirmInv, HalfSaved, RenamesStep
<1>8. SeenInv' BY <1>2, <1>3 DEF Base, SeenInv
<1>9. FreshInv' BY <1>1, <1>2, <1>3 DEF Base, FreshInv, Writes
<1>10. ChainInv'
  <2> SUFFICES ASSUME NEW u \in Txs
      PROVE  /\ Safe[State[u]] # None => Continues(Safe[State[u]], Now'[State[u]])
             /\ tx.applying /\ u = tx.id /\ Now'[State[u]] # None
                  => Continues(Now'[State[u]], tx.state)
             /\ \A k \in 1..Len(todo) : Writes(k, State[u]) /\ Now'[State[u]] # None
                  => Continues(Now'[State[u]], todo[k].value)
    BY <1>3 DEF Base, ChainInv, Writes
  <2>1. CASE p = State[u]
    <3>1. Now'[State[u]] = v /\ Writes(1, State[u]) BY <1>2, <2>1
    <3>2. Safe[State[u]] # None => Continues(Safe[State[u]], v)
      <4>1. Safe[State[u]] # None => Now[State[u]] # None BY OwnNames DEF Base, SeenInv
      <4>2. Now[State[u]] # None => Continues(Now[State[u]], v)
        BY <1>1, <1>2, <3>1 DEF Base, ChainInv
      <4>3. Safe[State[u]] # None => Continues(Safe[State[u]], Now[State[u]])
        BY DEF Base, ChainInv
      <4> QED BY <4>1, <4>2, <4>3 DEF Continues
    <3>3. \A k \in 1..Len(todo) : Writes(k, State[u]) => Continues(v, todo[k].value)
      <4> SUFFICES ASSUME NEW k \in 1..Len(todo), Writes(k, State[u])
                   PROVE  Continues(v, todo[k].value)
        OBVIOUS
      <4>1. CASE k = 1 BY <1>1, <4>1 DEF Continues
      <4>2. CASE k # 1
        <5>1. 1 \in 1..(k - 1) BY <4>2
        <5> QED BY <1>1, <3>1, <5>1 DEF Base, ChainInv
      <4> QED BY <4>1, <4>2
    <3>4. tx.applying /\ u = tx.id => Continues(v, tx.state) BY <1>2, <2>1 DEF Continues
    <3> QED BY <3>1, <3>2, <3>3, <3>4
  <2>2. CASE p # State[u]
    <3>1. Now'[State[u]] = Now[State[u]] BY <1>2, <2>2
    <3> QED BY <3>1 DEF Base, ChainInv
  <2> QED BY <2>1, <2>2
<1>11. ApplyingInv'
  <2>1. tx.applying => tx.id \in Txs BY DEF Base, TypeInv
  <2> QED BY <1>1, <1>2, <1>3, <2>1 DEF Base, ApplyingInv, Writes
<1>12. DirInv'
  <2> SUFFICES ASSUME NEW u \in Txs, Now'[State[u]] # None PROVE Safe[TxDir[u]] # None
    BY <1>3 DEF Base, DirInv, Writes
  <2>1. CASE p = State[u]
    <3>1. Writes(1, State[u]) /\ ~\E j \in 1..(1 - 1) : TRUE BY <1>2, <2>1
    <3> QED BY <1>2, <3>1 DEF Base, DirInv
  <2>2. CASE p # State[u] BY <1>2, <2>2 DEF Base, DirInv
  <2> QED BY <2>1, <2>2
<1>13. GenInv'
  <2>1. ASSUME NEW g \in Generations, g \in {Now'[Selector], Safe'[Selector]} PROVE HasGen(g)
    <3>1. CASE g \in {Now[Selector], Safe[Selector]} BY <3>1 DEF Base, GenInv
    <3>2. CASE p = Selector /\ g = v
      <4>1. todo[1] = Put(Selector, g) /\ ~\E j \in 1..(1 - 1) : TRUE BY <1>2, <3>2
      <4> QED BY <1>2, <4>1 DEF Base, GenInv
    <3> QED BY <1>2, <1>3, <2>1, <3>1, <3>2, OwnNames
  <2>2. ASSUME NEW g PROVE HasGen(g)' <=> HasGen(g) BY <1>3 DEF HasGen
  <2> QED BY <1>3, <2>1, <2>2, RecordedBeforeRename DEF Base, GenInv, Writes
<1>14. SelectedInv'
  <2>1. ASSUME NEW g \in Generations, g \in {Now'[Selector], Safe'[Selector]} PROVE Covered(g)
    <3>1. CASE g \in {Now[Selector], Safe[Selector]} BY <3>1 DEF Base, SelectedInv
    <3>2. CASE p = Selector /\ g = v
      <4>1. todo[1] = Put(Selector, g) /\ ~\E j \in 1..(1 - 1) : TRUE BY <1>2, <3>2
      <4> QED BY <1>2, <4>1 DEF Base, SelectedInv
    <3> QED BY <1>2, <1>3, <2>1, <3>1, <3>2, OwnNames
  <2>2. ASSUME NEW g PROVE Covered(g)' <=> Covered(g) BY <1>3 DEF Covered
  <2> QED BY <1>3, <2>1, <2>2, RecordedBeforeRename DEF Base, SelectedInv, Writes
<1> QED BY <1>5, <1>6, <1>7, <1>8, <1>9, <1>10, <1>11, <1>12, <1>13, <1>14 DEF Base

LEMMA LastRenames ==
  ASSUME FilesInv, Base, LastInv, RenamesStep
  PROVE  LastInv'
<1>1. PICK p, v : p = todo[1].path /\ v = todo[1].value OBVIOUS
<1>2. /\ 1 \in 1..Len(todo) /\ p \in Paths /\ v # None
      /\ \A q \in Paths : Now'[q] = IF q = p THEN v ELSE Now[q]
      /\ \A u \in Txs : IF p = State[u]
           THEN Now'[State[u]] = v /\ Writes(1, State[u]) /\ v \in Proper
           ELSE Now'[State[u]] = Now[State[u]]
      /\ tx.applying /\ p = State[tx.id] => tx.state = v
  BY <1>1, Renamed
<1>3. UNCHANGED <<Safe, todo, tx, slipped>> BY DEF RenamesStep
<1>4. OthersInv'
  <2> SUFFICES ASSUME NEW u \in Txs, u # tx.id PROVE Now'[State[u]] = Now[State[u]]
    BY <1>3 DEF LastInv, OthersInv, Writes
  <2>1. p # State[u] BY <1>2 DEF LastInv, OthersInv
  <2> QED BY <1>2, <2>1
<1>5. AheadInv' BY <1>3 DEF LastInv, AheadInv, SaysMutated, Writes
<1>6. p = Selector => tx.id \in Txs /\ SaysMutated
  <2>1. p = Selector => 1 \in 1..Len(todo) /\ todo[1].path \in Links /\ ~\E j \in 1..(1 - 1) : TRUE
    BY <1>1, <1>2, OwnNames
  <2> QED BY <2>1 DEF LastInv, AheadInv
<1>7. ASSUME NEW s, p # Selector, Restored(s) PROVE Restored(s)'
  BY <1>2, <1>3, <1>7, OwnNames DEF Restored
<1>8. UntouchedInv'
  BY <1>3, <1>6, <1>7, RecordedBeforeRename DEF LastInv, UntouchedInv, SaysMutated
<1>9. \A u \in Txs : p = State[u] => p \notin Links /\ p # Selector BY OwnNames
<1>10. KeptInv'
  <2> SUFFICES ASSUME tx.id \in Txs PROVE KeptInv' BY <1>3 DEF KeptInv
  <2> DEFINE f == State[tx.id]
  <2>1. \A i, g : NotAgain(i, g) => NotAgain(i, g)' BY <1>3 DEF NotAgain
  <2>2. ASSUME NEW q \in Links, NEW g, Kept(q, g), p # q PROVE Kept(q, g)'
    BY <1>2, <1>3, <2>2, OwnNames DEF Kept
  <2>3. ASSUME NEW g, NotAgain(1, g), NEW q \in Links, Kept(q, g) PROVE Kept(q, g)'
    <3>1. CASE p # q BY <2>2, <2>3, <3>1
    <3>2. CASE p = q
      <4>1. 1 \in 1..Len(todo) /\ 1 >= 1 /\ todo[1].path \in Links BY <1>1, <1>2, <3>2
      <4>2. v # g BY <1>1, <2>3, <4>1 DEF NotAgain
      <4> QED BY <1>2, <3>2, <4>2 DEF Kept
    <3> QED BY <3>1, <3>2
  <2>4. ASSUME NEW s \in {Now'[f], Safe'[f]}, s # None, s.phase = "activated"
        PROVE  NotAgain(1, s.gen) /\ \A q \in Links : Kept(q, s.gen)'
    <3>1. CASE s \in {Now[f], Safe[f]} BY <2>3, <2>4, <3>1 DEF LastInv, KeptInv
    <3>2. CASE p = f /\ s = v
      <4>1. Writes(1, f) /\ todo[1].value = s /\ ~\E j \in 1..(1 - 1) : TRUE BY <1>1, <1>2, <3>2
      <4>2. NotAgain(1, s.gen) /\ \A q \in Links : Kept(q, s.gen)
        BY <1>2, <2>4, <4>1 DEF LastInv, KeptInv
      <4> QED BY <2>3, <4>2
    <3> QED BY <1>2, <1>3, <2>4, <3>1, <3>2
  <2>5. tx.applying /\ tx.state.phase = "activated" =>
          NotAgain(1, tx.state.gen) /\ \A q \in Links : Kept(q, tx.state.gen)'
    <3>1. PICK g : g = tx.state.gen OBVIOUS
    <3>2. g' = g /\ tx'.state.gen = g BY <1>3, <3>1
    <3>3. tx.applying /\ tx.state.phase = "activated" =>
            NotAgain(1, g) /\ \A q \in Links : Kept(q, g)
      BY <3>1 DEF LastInv, KeptInv
    <3>4. tx.applying /\ tx.state.phase = "activated" => \A q \in Links : Kept(q, g)'
      BY <2>3, <3>3
    <3>5. \A q \in Links : Kept(q, g)' => Kept(q, tx.state.gen)' BY <3>1, <3>2 DEF Kept
    <3> QED BY <3>1, <3>3, <3>4, <3>5
  <2>6. ASSUME NEW k \in 1..Len(todo), Writes(k, f), todo[k].value.phase = "activated"
        PROVE  /\ NotAgain(k, todo[k].value.gen)
               /\ \A q \in Links : \/ Kept(q, todo[k].value.gen)'
                                   \/ \E j \in 1..(k - 1) : Writes(j, q)
    <3>1. PICK g : g = todo[k].value.gen OBVIOUS
    <3>2. NotAgain(k, g) /\ \A q \in Links : Kept(q, g) \/ \E j \in 1..(k - 1) : Writes(j, q)
      BY <2>6, <3>1 DEF LastInv, KeptInv
    <3>3. ASSUME NEW q \in Links, p = q PROVE \E j \in 1..(k - 1) : Writes(j, q)
      <4>1. k # 1 BY <1>1, <1>9, <2>6, <3>3 DEF Writes
      <4>2. 1 \in 1..(k - 1) BY <4>1
      <4> QED BY <1>1, <1>2, <3>3, <4>2 DEF Writes
    <3>4. ASSUME NEW q \in Links PROVE Kept(q, g)' \/ \E j \in 1..(k - 1) : Writes(j, q)
      BY <2>2, <3>2, <3>3
    <3>6. \A q \in Links : Kept(q, g)' => Kept(q, todo[k].value.gen)' BY <1>3, <3>1 DEF Kept
    <3> QED BY <3>1, <3>2, <3>4, <3>6
  <2> HIDE DEF f
  <2>7. \A k \in Nat : \A q : Writes(k, q)' <=> Writes(k, q) BY <1>3 DEF Writes
  <2> QED BY <1>3, <2>1, <2>4, <2>5, <2>6, <2>7 DEF KeptInv, Kept, f
<1>11. DecidedInv'
  <2> SUFFICES ASSUME tx.id \in Txs PROVE DecidedInv' BY <1>3 DEF DecidedInv
  <2> DEFINE f == State[tx.id]
  <2>1. ASSUME NEW s, p = f, Carried(s) PROVE Carried(s)'
    BY <1>2, <1>3, <1>7, <1>9, <2>1, OwnNames DEF Carried
  <2>2. ASSUME NEW s \in {Now'[f], Safe'[f]}, s # None, Decided(s)
        PROVE /\ Carried(s)' /\ ~tx.applying
              /\ \A k \in 1..Len(todo) : Writes(k, f) /\ Decided(todo[k].value)
    <3>1. CASE \E r \in {Now[f], Safe[f]} : r # None /\ Decided(r)
      <4>1. p = f /\ ~tx.applying /\ Decided(v)
            /\ \A k \in 1..Len(todo) : Writes(k, f) /\ Decided(todo[k].value)
        BY <1>1, <1>2, <3>1 DEF LastInv, DecidedInv, Writes
      <4>2. Carried(v)
        <5>1. Writes(1, f) /\ todo[1].value = v /\ ~\E j \in 1..(1 - 1) : TRUE BY <1>1, <1>2, <4>1
        <5>2. v.phase = "confirmed" => Carried(v) BY <1>2, <4>1, <5>1 DEF LastInv, DecidedInv
        <5>3. Restoring(1, v) BY <1>2, <4>1, <5>1 DEF LastInv, DecidedInv
        <5> QED BY <5>1, <5>2, <5>3 DEF Carried, Restoring, Decided
      <4>3. s = v \/ (s = Safe[f] /\ Carried(s))
        BY <1>2, <1>3, <2>2, <4>1 DEF LastInv, DecidedInv
      <4> QED BY <2>1, <4>1, <4>2, <4>3
    <3>2. CASE ~\E r \in {Now[f], Safe[f]} : r # None /\ Decided(r)
      <4>1. p = f /\ s = v BY <1>2, <1>3, <2>2, <3>2
      <4>2. Carried(v) /\ Len(todo) = 1
        <5>1. Writes(1, f) /\ Decided(todo[1].value) /\ todo[1].value = v
          BY <1>1, <1>2, <4>1, <2>2
        <5>2. /\ 1 = Len(todo)
              /\ v.phase = "confirmed" => Carried(v)
              /\ Restoring(1, v)
          BY <1>2, <5>1 DEF LastInv, DecidedInv
        <5>3. ~\E j \in 1..(1 - 1) : TRUE OBVIOUS
        <5> QED BY <5>1, <5>2, <5>3 DEF Carried, Restoring, Decided
      <4>3. ~tx.applying BY <1>2, <2>2, <4>1 DEF Base, ApplyingInv
      <4>4. \A k \in 1..Len(todo) : Writes(k, f) /\ Decided(todo[k].value)
        BY <1>1, <1>2, <2>2, <4>1, <4>2
      <4> QED BY <2>1, <4>1, <4>2, <4>3, <4>4
    <3> QED BY <3>1, <3>2
  <2>3. ASSUME NEW k \in 1..Len(todo), Writes(k, f), Decided(todo[k].value)
        PROVE  /\ k = Len(todo)
               /\ todo[k].value.phase = "confirmed" => k = 1 /\ Carried(todo[k].value)'
               /\ Restoring(k, todo[k].value)'
    <3>0. PICK s : s = todo[k].value OBVIOUS
    <3>1. /\ k = Len(todo)
          /\ s.phase = "confirmed" => k = 1 /\ Carried(s)
          /\ Restoring(k, s)
      BY <2>3, <3>0 DEF LastInv, DecidedInv
    <3>2. k = 1 => p = f BY <1>1, <2>3 DEF Writes
    <3>3. p = Selector => k # 1 /\ Writes(1, Selector)
      BY <1>1, <1>2, <1>9, <3>2 DEF Writes
    <3>4. (\A j \in 1..(k - 1) : ~Writes(j, Selector)) => p # Selector
      BY <2>3, <3>3
    <3>5. Restoring(k, s)'
      <4>1. \A j \in Nat : Writes(j, Selector)' <=> Writes(j, Selector) BY <1>3 DEF Writes
      <4> QED BY <1>3, <1>7, <3>1, <3>4, <4>1 DEF Restoring
    <3>6. s.phase = "confirmed" => k = 1 /\ Carried(s)' BY <2>1, <3>1, <3>2
    <3>7. (Carried(s)' => Carried(todo[k].value)') /\ (Restoring(k, s)' => Restoring(k, todo[k].value)')
      BY <1>3, <3>0
    <3> QED BY <3>0, <3>1, <3>5, <3>6, <3>7
  <2> QED BY <1>3, <2>2, <2>3 DEF DecidedInv, Writes
<1> QED BY <1>4, <1>5, <1>8, <1>10, <1>11 DEF LastInv

----------------------------------------------------------------------------
(* A write is done: the next one is the first.                                  *)

LEMMA TailOf ==
  ASSUME TypeInv, todo # <<>>, todo' = Tail(todo)
  PROVE  /\ 1 \in 1..Len(todo) /\ Len(todo) \in Nat /\ Len(todo') = Len(todo) - 1
         /\ \A k \in 1..Len(todo') : k + 1 \in 1..Len(todo) /\ todo'[k] = todo[k + 1]
         /\ todo' \in Seq([path : Paths, value : Values \cup {None}])
<1> DEFINE W == [path : Paths, value : Values \cup {None}]
<1>1. todo \in Seq(W) BY DEF TypeInv
<1> HIDE DEF W
<1>2. /\ 1 \in 1..Len(todo) /\ Len(todo) \in Nat /\ Len(todo') = Len(todo) - 1
      /\ \A k \in 1..Len(todo') : k + 1 \in 1..Len(todo) /\ todo'[k] = todo[k + 1]
      /\ todo' \in Seq(W)
  BY <1>1
<1> QED BY <1>2 DEF W

LEMMA Predecessor ==
  ASSUME NEW k \in Nat, NEW m \in Nat, NEW n \in Nat, k + 1 = m, n = m - 1
  PROVE  k = n
OBVIOUS

\* A write before another one is done, or is still before it.
LEMMA TailShift ==
  ASSUME TypeInv, todo # <<>>, todo' = Tail(todo),
         NEW k \in 1..Len(todo'), NEW j \in 1..k, j # 1
  PROVE  /\ j - 1 \in 1..(k - 1) /\ todo'[j - 1] = todo[j]
         /\ \A q : Writes(j, q) => Writes(j - 1, q)'
<1>1. j - 1 \in 1..(k - 1) /\ j - 1 \in 1..Len(todo') /\ (j - 1) + 1 = j /\ j \in 1..Len(todo)
  BY TailOf
<1>2. todo'[j - 1] = todo[(j - 1) + 1] BY <1>1, TailOf
<1> QED BY <1>1, <1>2 DEF Writes

LEMMA TailWrites ==
  ASSUME TypeInv, todo # <<>>, todo' = Tail(todo), NEW k \in 1..Len(todo')
  PROVE  /\ k + 1 \in 1..Len(todo) /\ todo'[k] = todo[k + 1]
         /\ \A q : Writes(k, q)' <=> Writes(k + 1, q)
         /\ \A j \in 1..(k - 1) : /\ j + 1 \in 1..((k + 1) - 1) /\ todo'[j] = todo[j + 1]
                                  /\ \A q : Writes(j, q)' <=> Writes(j + 1, q)
BY TailOf DEF Writes

\* What was to be written before the write that is done comes first now.
LEMMA TailBefore ==
  ASSUME TypeInv, todo # <<>>, todo' = Tail(todo), NEW k \in 1..Len(todo'), NEW q,
         ~\E j \in 1..(k - 1) : Writes(j, q)'
  PROVE  \A j \in 1..((k + 1) - 1) : Writes(j, q) => j = 1
<1> SUFFICES ASSUME NEW j \in 1..((k + 1) - 1), Writes(j, q), j # 1 PROVE FALSE OBVIOUS
<1>1. j \in 1..k BY TailOf
<1> QED BY <1>1, TailShift

LEMMA TailNotAgain ==
  ASSUME TypeInv, todo # <<>>, todo' = Tail(todo), NEW g
  PROVE  /\ NotAgain(1, g) => NotAgain(1, g)'
         /\ \A k \in 1..Len(todo') : NotAgain(k + 1, g) => NotAgain(k, g)'
<1>1. ASSUME NEW k \in 1..Len(todo'), NEW i \in 1..Len(todo'), i >= k, NotAgain(k + 1, g),
             todo'[i].path \in Links
      PROVE  todo'[i].value # g
  <2>1. i + 1 \in 1..Len(todo) /\ todo'[i] = todo[i + 1] /\ i + 1 >= k + 1 BY <1>1, TailOf
  <2> QED BY <1>1, <2>1 DEF NotAgain
<1>2. ASSUME NEW i \in 1..Len(todo'), NotAgain(1, g), todo'[i].path \in Links
      PROVE  todo'[i].value # g
  <2>1. i + 1 \in 1..Len(todo) /\ todo'[i] = todo[i + 1] /\ i + 1 >= 1 BY <1>2, TailOf
  <2> QED BY <1>2, <2>1 DEF NotAgain
<1> QED BY <1>1, <1>2 DEF NotAgain

LEMMA TailRecorded ==
  ASSUME TypeInv, todo # <<>>, todo' = Tail(todo), NEW u \in Txs, Now'[State[u]] = Now[State[u]],
         tx'.id = tx.id, tx'.state = tx.state, tx'.applying => tx.applying,
         NEW s, Recorded(u, s)'
  PROVE  Recorded(u, s)
BY TailOf DEF Recorded, Writes

----------------------------------------------------------------------------
(* The directory is synced.                                                     *)

SyncsStep ==
  /\ Settles /\ UNCHANGED <<Now, slipped>> /\ HalfSaved /\ job[Root] # Idle
  /\ job'[Root] = Idle /\ Safe'[job[Root].path] = Now[job[Root].path]
  /\ todo' = Tail(todo) /\ tx' = [tx EXCEPT !.applying = @ /\ todo' # <<>>]

LEMMA Synced ==
  ASSUME FilesInv, Base, SyncsStep, NEW p, p = todo[1].path, NEW v, v = todo[1].value
  PROVE  /\ p = job[Root].path /\ todo # <<>> /\ TypeInv /\ todo' = Tail(todo)
         /\ 1 \in 1..Len(todo) /\ FileOK(p, v)
         /\ p \in Paths /\ v # None /\ Now[p] = v /\ Safe'[p] = v /\ todo[1] = Put(p, v)
         /\ tx' \in [id : Nat, state : States \cup {None}, applying : BOOLEAN]
         /\ tx'.id = tx.id /\ tx'.state = tx.state
         /\ tx'.applying => tx.applying /\ todo' # <<>>
         /\ Settles /\ Remembers /\ UNCHANGED <<Now, slipped>>
<1>1. /\ p = job[Root].path /\ v = job[Root].value /\ todo # <<>>
      /\ p \in Paths /\ v \in Values /\ v # None /\ Now[p] = v /\ Safe'[p] = v
  BY JobOfRoot DEF Base, JobInv, SyncsStep
<1>2. 1 \in 1..Len(todo) BY <1>1, TailOf DEF Base, SyncsStep
<1>3. todo[1] = Put(p, v) /\ FileOK(p, v) BY <1>2, TodoHolds DEF Base, TypeInv
<1>4. /\ tx' \in [id : Nat, state : States \cup {None}, applying : BOOLEAN]
      /\ tx'.id = tx.id /\ tx'.state = tx.state
      /\ tx'.applying => tx.applying /\ todo' # <<>>
  BY DEF Base, TypeInv, SyncsStep
<1> QED BY <1>1, <1>2, <1>3, <1>4 DEF Base, SyncsStep, Remembers

LEMMA BaseSyncs ==
  ASSUME FilesInv, Base, SyncsStep
  PROVE  Base'
<1>1. PICK p, v : p = todo[1].path /\ v = todo[1].value OBVIOUS
<1>2. /\ p = job[Root].path /\ todo # <<>> /\ TypeInv /\ todo' = Tail(todo) /\ 1 \in 1..Len(todo)
      /\ p \in Paths /\ v # None /\ Now[p] = v /\ Safe'[p] = v /\ todo[1] = Put(p, v)
      /\ FileOK(p, v)
  BY <1>1, Synced
<1>3. /\ tx' \in [id : Nat, state : States \cup {None}, applying : BOOLEAN]
      /\ tx'.id = tx.id /\ tx'.state = tx.state
      /\ tx'.applying => tx.applying /\ todo' # <<>>
      /\ Settles /\ Remembers /\ UNCHANGED <<Now, slipped>>
  BY <1>1, Synced
<1>4. /\ Len(todo) \in Nat /\ Len(todo') = Len(todo) - 1
      /\ \A k \in 1..Len(todo') : k + 1 \in 1..Len(todo) /\ todo'[k] = todo[k + 1]
      /\ todo' \in Seq([path : Paths, value : Values \cup {None}])
  BY <1>2, TailOf
<1>5. TypeInv'
  <2>1. \A q \in Paths : FileOK(q, Now'[q]) /\ FileOK(q, Safe'[q])
    BY <1>3 DEF Base, TypeInv, Settles
  <2>2. \A k \in 1..Len(todo') : /\ FileOK(todo'[k].path, todo'[k].value)
                                 /\ todo'[k].value = None => todo'[k].path \in Links
    BY <1>4 DEF Base, TypeInv
  <2>3. tx'.applying => tx'.id \in Txs /\ tx'.state \in Proper /\ todo' # <<>>
    BY <1>3 DEF Base, TypeInv
  <2> QED BY <1>3, <1>4, <2>1, <2>2, <2>3 DEF TypeInv
<1>6. JobInv' BY DEF JobInv, HalfSaved, Idle, SyncsStep
<1>7. FirmInv' BY <1>2, <1>3 DEF Base, FirmInv, Settles
<1>8. SeenInv' BY <1>3 DEF Base, SeenInv, Settles
<1>9. FreshInv'
  BY <1>3, <1>4, OwnNames DEF Base, FreshInv, Settles, Writes
<1>10. ChainInv'
  <2> SUFFICES ASSUME NEW u \in Txs
      PROVE  /\ Safe'[State[u]] # None => Continues(Safe'[State[u]], Now[State[u]])
             /\ \A k \in 1..Len(todo') : Writes(k, State[u])' =>
                  /\ Now[State[u]] # None => Continues(Now[State[u]], todo'[k].value)
                  /\ tx.applying /\ u = tx.id => Continues(tx.state, todo'[k].value)
                  /\ \A j \in 1..(k - 1) : Writes(j, State[u])'
                        => Continues(todo'[j].value, todo'[k].value)
    BY <1>3 DEF Base, ChainInv
  <2>1. State[u] \in Paths \ Links BY OwnNames
  <2>2. \A s : Continues(s, s) BY DEF Continues
  <2>3. Safe'[State[u]] # None => Continues(Safe'[State[u]], Now[State[u]])
    BY <1>3, <2>1, <2>2 DEF Base, ChainInv, Settles
  <2>4. ASSUME NEW k \in 1..Len(todo'), Writes(k, State[u])'
        PROVE  /\ Now[State[u]] # None => Continues(Now[State[u]], todo'[k].value)
               /\ tx.applying /\ u = tx.id => Continues(tx.state, todo'[k].value)
               /\ \A j \in 1..(k - 1) : Writes(j, State[u])'
                     => Continues(todo'[j].value, todo'[k].value)
    <3>1. /\ k + 1 \in 1..Len(todo) /\ Writes(k + 1, State[u]) /\ todo'[k] = todo[k + 1]
          /\ \A j \in 1..(k - 1) : /\ j + 1 \in 1..((k + 1) - 1) /\ todo'[j] = todo[j + 1]
                                   /\ (Writes(j, State[u])' <=> Writes(j + 1, State[u]))
      BY <1>2, <2>4, TailWrites
    <3> QED BY <3>1 DEF Base, ChainInv
  <2> QED BY <2>3, <2>4
<1>11. ApplyingInv' BY <1>3, <1>4 DEF Base, ApplyingInv, Writes
<1>12. DirInv'
  <2>1. ASSUME NEW u \in Txs, NEW k \in 1..Len(todo'), Writes(k, State[u])', Safe'[TxDir[u]] = None
        PROVE  \E j \in 1..(k - 1) : Writes(j, TxDir[u])'
    <3>1. Writes(k + 1, State[u]) /\ k + 1 \in 1..Len(todo) BY <1>2, <2>1, TailWrites
    <3>2. Safe[TxDir[u]] = None BY <1>3, <2>1, DiskGrows
    <3>3. PICK j \in 1..((k + 1) - 1) : Writes(j, TxDir[u])
      BY <3>1, <3>2 DEF Base, DirInv
    <3>4. j # 1 BY <1>1, <1>2, <2>1, <3>3 DEF Writes
    <3> QED BY <1>2, <2>1, <3>3, <3>4, TailBefore
  <2>2. \A u \in Txs : Now[State[u]] # None => Safe'[TxDir[u]] # None
    BY <1>3, DiskGrows DEF Base, DirInv
  <2> QED BY <1>3, <2>1, <2>2 DEF DirInv
<1>13. ASSUME NEW u \in Txs, NEW s, Recorded(u, s)' PROVE Recorded(u, s)
  BY <1>2, <1>3, <1>13, TailRecorded
<1>14. GenInv'
  <2>1. ASSUME NEW g \in Generations, g \in {Now'[Selector], Safe'[Selector]} PROVE HasGen(g)'
    BY <1>3, <2>1, DiskGrows, OwnNames DEF Base, GenInv, Settles
  <2>2. ASSUME NEW g \in Generations, NEW k \in 1..Len(todo'), todo'[k] = Put(Selector, g), ~HasGen(g)'
        PROVE  \E j \in 1..(k - 1) : Writes(j, GenDir[g])'
    <3>1. k + 1 \in 1..Len(todo) /\ todo[k + 1] = Put(Selector, g) BY <1>4, <2>2
    <3>2. ~HasGen(g) BY <1>3, <2>2, DiskGrows
    <3>3. PICK j \in 1..((k + 1) - 1) : Writes(j, GenDir[g])
      BY <3>1, <3>2 DEF Base, GenInv
    <3>4. j # 1
      <4>1. j = 1 => v = g BY <1>1, <1>2, <3>3, GenDirHolds DEF Writes
      <4> QED BY <1>1, <1>2, <2>2, <3>3, <4>1 DEF Writes, HasGen
    <3> QED BY <1>2, <2>2, <3>3, <3>4, TailBefore
  <2>3. ASSUME NEW u \in Txs, NEW s \in Proper, Recorded(u, s)', s.prev # None PROVE HasGen(s.prev)'
    <3>1. Recorded(u, s) /\ s.prev \in Generations BY <1>13, <2>3 DEF Proper, States
    <3> QED BY <1>3, <2>3, <3>1, DiskGrows DEF Base, GenInv
  <2> QED BY <2>1, <2>2, <2>3 DEF GenInv
<1>15. SelectedInv'
  <2>1. ASSUME NEW g \in Generations, g \in {Now'[Selector], Safe'[Selector]} PROVE Covered(g)'
    BY <1>3, <2>1, DiskGrows, OwnNames DEF Base, SelectedInv, Settles
  <2>2. ASSUME NEW g \in Generations, NEW k \in 1..Len(todo'), todo'[k] = Put(Selector, g), ~Covered(g)'
        PROVE  \E u \in Txs : \E j \in 1..(k - 1) : Writes(j, State[u])' /\ Covers(todo'[j].value, g)
    <3>1. k + 1 \in 1..Len(todo) /\ todo[k + 1] = Put(Selector, g) BY <1>4, <2>2
    <3>2. ~Covered(g) BY <1>3, <2>2, DiskGrows
    <3>3. PICK u \in Txs, j \in 1..((k + 1) - 1) : Writes(j, State[u]) /\ Covers(todo[j].value, g)
      BY <3>1, <3>2 DEF Base, SelectedInv
    <3>4. j # 1
      <4> SUFFICES ASSUME j = 1 PROVE FALSE OBVIOUS
      <4>1. p = State[u] /\ Covers(v, g) BY <1>1, <3>3 DEF Writes
      <4>2. Safe[TxDir[u]] # None
        <5>1. Writes(1, State[u]) /\ ~\E i \in 1..(1 - 1) : TRUE BY <3>3
        <5> QED BY <1>2, <5>1 DEF Base, DirInv
      <4>3. Safe'[TxDir[u]] # None BY <1>3, <4>2, DiskGrows
      <4> QED BY <1>2, <2>2, <4>1, <4>3 DEF Covered
    <3>5. j \in 1..k BY <1>4
    <3>6. j - 1 \in 1..(k - 1) /\ Writes(j - 1, State[u])' /\ todo'[j - 1] = todo[j]
      BY <1>2, <3>3, <3>4, <3>5, TailShift
    <3> QED BY <3>3, <3>6
  <2>3. ASSUME NEW u \in Txs, NEW s \in Proper, Recorded(u, s)', s.prev # None PROVE Covered(s.prev)'
    <3>1. Recorded(u, s) /\ s.prev \in Generations BY <1>13, <2>3 DEF Proper, States
    <3> QED BY <1>3, <2>3, <3>1, DiskGrows DEF Base, SelectedInv
  <2> QED BY <2>1, <2>2, <2>3 DEF SelectedInv
<1> QED BY <1>5, <1>6, <1>7, <1>8, <1>9, <1>10, <1>11, <1>12, <1>14, <1>15 DEF Base

LEMMA LastSyncs ==
  ASSUME FilesInv, Base, LastInv, SyncsStep
  PROVE  LastInv'
<1>1. PICK p, v : p = todo[1].path /\ v = todo[1].value OBVIOUS
<1>2. /\ todo # <<>> /\ TypeInv /\ todo' = Tail(todo) /\ 1 \in 1..Len(todo)
      /\ p \in Paths /\ v # None /\ Now[p] = v /\ Safe'[p] = v
  BY <1>1, Synced
<1>3. /\ tx'.id = tx.id /\ tx'.state = tx.state /\ (tx'.applying => tx.applying)
      /\ Settles /\ Remembers /\ UNCHANGED <<Now, slipped>>
  BY <1>1, Synced
<1>4. /\ Len(todo) \in Nat /\ Len(todo') = Len(todo) - 1
      /\ \A k \in 1..Len(todo') : k + 1 \in 1..Len(todo) /\ todo'[k] = todo[k + 1]
  BY <1>2, TailOf
<1>5. OthersInv' BY <1>3, <1>4, OwnNames DEF LastInv, OthersInv, Settles, Writes
<1>0. PICK f : f = State[tx.id] OBVIOUS
<1>6. AheadInv'
  <2> SUFFICES ASSUME NEW k \in 1..Len(todo'), todo'[k].path \in Links
               PROVE  /\ tx.id \in Txs
                      /\ \/ SaysMutated'
                         \/ \E j \in 1..(k - 1) : Writes(j, f)' /\ Late(todo'[j].value)
    BY <1>0, <1>3 DEF AheadInv, Writes
  <2>1. k + 1 \in 1..Len(todo) /\ todo[k + 1].path \in Links BY <1>4
  <2>2. tx.id \in Txs BY <2>1 DEF LastInv, AheadInv
  <2>3. CASE SaysMutated BY <1>3, <2>2, <2>3, DiskGrows
  <2>4. ASSUME NEW j \in 1..((k + 1) - 1), Writes(j, f), Late(todo[j].value), ~SaysMutated'
        PROVE  \E i \in 1..(k - 1) : Writes(i, f)' /\ Late(todo'[i].value)
    <3>1. j # 1 BY <1>0, <1>1, <1>2, <1>3, <2>4 DEF Writes, SaysMutated
    <3>2. j \in 1..k BY <1>4
    <3>3. j - 1 \in 1..(k - 1) /\ Writes(j - 1, f)' /\ todo'[j - 1] = todo[j]
      BY <1>2, <2>4, <3>1, <3>2, TailShift
    <3> QED BY <2>4, <3>3
  <2> QED BY <1>0, <2>1, <2>2, <2>3, <2>4 DEF LastInv, AheadInv
<1>7. ASSUME NEW s, Restored(s) PROVE Restored(s)' BY <1>3, <1>7, StaysRestored
<1>8. ASSUME NEW u \in Txs, NEW s, Recorded(u, s)' PROVE Recorded(u, s)
  BY <1>2, <1>3, <1>8, TailRecorded
<1>9. UntouchedInv'
  <2>1. PICK t : t = tx.id OBVIOUS
  <2>2. t' = t /\ tx'.id = t BY <1>3, <2>1
  <2>3. ASSUME NEW s \in Proper, t \in Txs, ~SaysMutated', Recorded(t, s)', s.prev # None
        PROVE  Restored(s)'
    <3>1. Recorded(t, s) BY <1>8, <2>1, <2>3
    <3>2. ~SaysMutated BY <1>3, <2>1, <2>3, DiskGrows
    <3> QED BY <1>7, <2>1, <2>3, <3>1, <3>2 DEF LastInv, UntouchedInv
  <2> QED BY <2>1, <2>2, <2>3 DEF UntouchedInv, Recorded
<1>10. KeptInv'
  <2> SUFFICES ASSUME tx.id \in Txs PROVE KeptInv' BY <1>3 DEF KeptInv
  <2>0. f \in Paths BY <1>0, OwnNames
  <2>1. \A q \in Links : \A g : Kept(q, g) => Kept(q, g)' BY <1>3, StaysKept
  <2>2. \A g : NotAgain(1, g) => NotAgain(1, g)' BY <1>2, TailNotAgain
  <2>3. ASSUME NEW s \in {Now'[f], Safe'[f]}, s # None, s.phase = "activated"
        PROVE  NotAgain(1, s.gen)' /\ \A q \in Links : Kept(q, s.gen)'
    <3>1. s \in {Now[f], Safe[f]} BY <1>3, <2>0, <2>3 DEF Settles
    <3> QED BY <1>0, <2>1, <2>2, <2>3, <3>1 DEF LastInv, KeptInv
  <2>4. ASSUME tx'.applying, tx.state.phase = "activated"
        PROVE  NotAgain(1, tx.state.gen)' /\ \A q \in Links : Kept(q, tx.state.gen)'
    <3>1. PICK g : g = tx.state.gen OBVIOUS
    <3>2. g' = g /\ tx'.state.gen = g BY <1>3, <3>1
    <3>3. NotAgain(1, g) /\ \A q \in Links : Kept(q, g)
      BY <1>3, <2>4, <3>1 DEF LastInv, KeptInv
    <3>4. NotAgain(1, g)' /\ \A q \in Links : Kept(q, g)' BY <2>1, <2>2, <3>3
    <3> QED BY <3>2, <3>4 DEF Kept, NotAgain
  <2>5. ASSUME NEW k \in 1..Len(todo'), Writes(k, f)', todo'[k].value.phase = "activated", NEW g,
               g = todo'[k].value.gen
        PROVE  /\ NotAgain(k, g)'
               /\ \A q \in Links : Kept(q, g)' \/ \E j \in 1..(k - 1) : Writes(j, q)'
    <3>1. k + 1 \in 1..Len(todo) /\ todo'[k] = todo[k + 1] /\ Writes(k + 1, f)
      BY <1>2, <2>5, TailWrites
    <3>2. /\ NotAgain(k + 1, g)
          /\ \A q \in Links : Kept(q, g) \/ \E j \in 1..((k + 1) - 1) : Writes(j, q)
      BY <1>0, <2>5, <3>1 DEF LastInv, KeptInv
    <3>3. NotAgain(k, g)' BY <1>2, <3>2, TailNotAgain
    <3>4. ASSUME NEW q \in Links, ~\E j \in 1..(k - 1) : Writes(j, q)' PROVE Kept(q, g)'
      <4>1. CASE Kept(q, g) BY <2>1, <4>1
      <4>2. ASSUME NEW j \in 1..((k + 1) - 1), Writes(j, q) PROVE Kept(q, g)'
        <5>1. j = 1 BY <1>2, <3>4, <4>2, TailBefore
        <5>2. p = q BY <1>1, <4>2, <5>1 DEF Writes
        <5> QED BY <1>2, <1>3, <5>2 DEF Kept
      <4> QED BY <3>2, <4>1, <4>2
    <3> QED BY <3>3, <3>4
  <2> QED BY <1>0, <1>3, <2>3, <2>4, <2>5 DEF KeptInv, Kept, NotAgain, Writes
<1>11. DecidedInv'
  <2> SUFFICES ASSUME tx.id \in Txs PROVE DecidedInv' BY <1>3 DEF DecidedInv
  <2>1. f \in Paths BY <1>0, OwnNames
  <2>2. ASSUME NEW s, Carried(s) PROVE Carried(s)'
    BY <1>3, <1>7, <2>2, OwnNames DEF Carried, Settles
  <2>3. ASSUME NEW s \in {Now'[f], Safe'[f]}, s # None, Decided(s)
        PROVE  /\ Carried(s)' /\ ~tx'.applying
               /\ \A k \in 1..Len(todo') : Writes(k, f)' /\ Decided(todo'[k].value)
    <3>1. s \in {Now[f], Safe[f]} BY <1>3, <2>1, <2>3 DEF Settles
    <3> QED BY <1>0, <1>3, <1>4, <2>2, <2>3, <3>1 DEF LastInv, DecidedInv, Writes
  <2>4. ASSUME NEW k \in 1..Len(todo'), Writes(k, f)', NEW s, s = todo'[k].value, Decided(s)
        PROVE  k = Len(todo') /\ s.phase # "confirmed" /\ Restoring(k, s)'
    <3>1. /\ k + 1 \in 1..Len(todo) /\ Writes(k + 1, f) /\ todo[k + 1].value = s
          /\ \A j \in 1..(k - 1) : /\ j + 1 \in 1..((k + 1) - 1) /\ todo'[j] = todo[j + 1]
                                   /\ (Writes(j, Selector)' <=> Writes(j + 1, Selector))
      BY <1>2, <2>4, TailWrites
    <3>2. /\ k + 1 = Len(todo)
          /\ s.phase = "confirmed" => k + 1 = 1
          /\ Restoring(k + 1, s)
      BY <1>0, <2>4, <3>1 DEF LastInv, DecidedInv
    <3>3. ASSUME \A j \in 1..((k + 1) - 1) : Writes(j, Selector) => todo[j].value = s.prev,
                 \E j \in 1..((k + 1) - 1) : Writes(j, Selector),
                 ~\E j \in 1..(k - 1) : Writes(j, Selector)'
          PROVE  Restored(s)'
      <4>1. PICK j \in 1..((k + 1) - 1) : Writes(j, Selector) BY <3>3
      <4>2. j = 1 BY <1>2, <3>3, <4>1, TailBefore
      <4>3. p = Selector /\ v = s.prev BY <1>1, <3>3, <4>1, <4>2 DEF Writes
      <4> QED BY <1>2, <1>3, <4>3 DEF Restored
    <3>4. Restoring(k, s)'
      <4> SUFFICES ASSUME s.phase = "rolledback", s.prev # None
          PROVE  \/ Restored(s)' /\ \A j \in 1..(k - 1) : ~Writes(j, Selector)'
                 \/ /\ \E j \in 1..(k - 1) : Writes(j, Selector)'
                    /\ \A j \in 1..(k - 1) : Writes(j, Selector)' => todo'[j].value = s.prev
        BY DEF Restoring
      <4>1. CASE Restored(s) /\ \A j \in 1..((k + 1) - 1) : ~Writes(j, Selector)
        BY <1>7, <3>1, <4>1
      <4>2. CASE /\ \E j \in 1..((k + 1) - 1) : Writes(j, Selector)
                 /\ \A j \in 1..((k + 1) - 1) : Writes(j, Selector) => todo[j].value = s.prev
        BY <3>1, <3>3, <4>2
      <4> QED BY <3>2, <4>1, <4>2 DEF Restoring
    <3>5. k = Len(todo') /\ s.phase # "confirmed"
      <4>1. Len(todo') \in Nat /\ k \in Nat /\ k # 0 BY <1>4
      <4>2. k = Len(todo') BY <1>4, <3>2, <4>1, Predecessor
      <4> QED BY <3>2, <4>1, <4>2
    <3> QED BY <3>4, <3>5
  <2> QED BY <1>0, <1>3, <2>3, <2>4 DEF DecidedInv, Restoring, Restored, Carried, Writes
<1> QED BY <1>5, <1>6, <1>9, <1>10, <1>11 DEF LastInv

----------------------------------------------------------------------------
(* A command ends, by an error, a kill or a power loss. What stops with a name   *)
(* changed and unsynced has slipped.                                             *)

StopsStep ==
  /\ UNCHANGED Safe /\ Remembers /\ job'[Root] = Idle
  /\ Now' = Safe \/ (UNCHANGED Now /\ (HalfSaved => job[Root].path \in slipped'))
  /\ todo' = <<>> /\ tx' = [tx EXCEPT !.applying = FALSE]

LEMMA Stopped ==
  ASSUME FilesInv, Base, StopsStep
  PROVE  /\ tx' \in [id : Nat, state : States \cup {None}, applying : BOOLEAN]
         /\ tx'.id = tx.id /\ ~tx'.applying /\ Len(todo') = 0
         /\ todo' \in Seq([path : Paths, value : Values \cup {None}])
         /\ \A k : k \notin 1..Len(todo')
         /\ Settles
         /\ \A u \in Txs : /\ State[u] \in Paths \ Links
                           /\ Now'[State[u]] \in {Now[State[u]], Safe[State[u]]}
                           /\ Safe'[State[u]] = Safe[State[u]]
<1>1. /\ tx' \in [id : Nat, state : States \cup {None}, applying : BOOLEAN]
      /\ tx'.id = tx.id /\ ~tx'.applying
  BY DEF Base, TypeInv, StopsStep
<1>2. Len(todo') = 0 /\ todo' \in Seq([path : Paths, value : Values \cup {None}])
  BY DEF StopsStep
<1>3. \A k : k \notin 1..0 OBVIOUS
<1> QED BY <1>1, <1>2, <1>3, OwnNames DEF Settles, StopsStep

\* What is recorded now follows from what a reader could see before.
LEMMA StoppedRecords ==
  ASSUME FilesInv, Base, StopsStep, NEW u \in Txs, NEW s \in Proper, Recorded(u, s)'
  PROVE  \E r \in Proper : Recorded(u, r) /\ r.prev = s.prev
<1>1. s = Now'[State[u]] /\ s # None BY Stopped DEF Recorded
<1>2. CASE s = Now[State[u]] BY <1>1, <1>2 DEF Recorded
<1>3. CASE s = Safe[State[u]]
  <2>1. PICK r : r = Now[State[u]] OBVIOUS
  <2>2. r # None BY <1>1, <1>3, <2>1, Stopped DEF Base, SeenInv
  <2>3. Continues(s, r) BY <1>1, <1>3, <2>1 DEF Base, ChainInv
  <2>4. r \in Proper BY <2>1, <2>2, OwnNames, StateHolds DEF Base, TypeInv
  <2> QED BY <2>1, <2>2, <2>3, <2>4 DEF Recorded, Continues
<1> QED BY <1>1, <1>2, <1>3, Stopped

LEMMA BaseStops ==
  ASSUME FilesInv, Base, StopsStep
  PROVE  Base'
<1>1. /\ tx' \in [id : Nat, state : States \cup {None}, applying : BOOLEAN]
      /\ tx'.id = tx.id /\ ~tx'.applying /\ Len(todo') = 0
      /\ todo' \in Seq([path : Paths, value : Values \cup {None}])
      /\ \A k : k \notin 1..Len(todo')
      /\ Settles
      /\ \A u \in Txs : /\ State[u] \in Paths \ Links
                        /\ Now'[State[u]] \in {Now[State[u]], Safe[State[u]]}
                        /\ Safe'[State[u]] = Safe[State[u]]
  BY Stopped
<1>2. Safe' = Safe /\ (Now' = Safe \/ Now' = Now) /\ Remembers BY DEF StopsStep
<1>3. TypeInv'
  <2>1. \A q \in Paths : FileOK(q, Now'[q]) /\ FileOK(q, Safe'[q])
    BY <1>2 DEF Base, TypeInv
  <2> QED BY <1>1, <2>1 DEF TypeInv
<1>4. JobInv' BY DEF JobInv, HalfSaved, Idle, StopsStep
<1>5. FirmInv' BY DEF Base, FirmInv, StopsStep, Remembers
<1>6. SeenInv' BY <1>2 DEF Base, SeenInv
<1>7. FreshInv' BY <1>1 DEF Base, FreshInv
<1>8. ChainInv'
  <2>1. \A s : Continues(s, s) BY DEF Continues
  <2> QED BY <1>1, <1>2, <2>1 DEF Base, ChainInv
<1>9. ApplyingInv' BY <1>1 DEF ApplyingInv
<1>10. DirInv' BY <1>1, <1>2, OwnNames DEF Base, DirInv, SeenInv
<1>11. \A g \in Generations : (HasGen(g) => HasGen(g)') /\ (Covered(g) => Covered(g)')
  BY <1>1, <1>2, DiskGrows
<1>12. GenInv'
  <2>1. ASSUME NEW g \in Generations, g \in {Now'[Selector], Safe'[Selector]} PROVE HasGen(g)'
    BY <1>2, <1>11, <2>1 DEF Base, GenInv
  <2>2. ASSUME NEW u \in Txs, NEW s \in Proper, Recorded(u, s)', s.prev # None PROVE HasGen(s.prev)'
    BY <1>11, <2>2, StoppedRecords DEF Base, GenInv, Proper, States
  <2> QED BY <1>1, <2>1, <2>2 DEF GenInv
<1>13. SelectedInv'
  <2>1. ASSUME NEW g \in Generations, g \in {Now'[Selector], Safe'[Selector]} PROVE Covered(g)'
    BY <1>2, <1>11, <2>1 DEF Base, SelectedInv
  <2>2. ASSUME NEW u \in Txs, NEW s \in Proper, Recorded(u, s)', s.prev # None PROVE Covered(s.prev)'
    BY <1>11, <2>2, StoppedRecords DEF Base, SelectedInv, Proper, States
  <2> QED BY <1>1, <2>1, <2>2 DEF SelectedInv
<1> QED BY <1>3, <1>4, <1>5, <1>6, <1>7, <1>8, <1>9, <1>10, <1>12, <1>13 DEF Base

LEMMA LastStops ==
  ASSUME FilesInv, Base, LastInv, StopsStep
  PROVE  LastInv'
<1>1. /\ tx'.id = tx.id /\ ~tx'.applying /\ \A k : k \notin 1..Len(todo')
      /\ \A u \in Txs : /\ State[u] \in Paths \ Links
                        /\ Now'[State[u]] \in {Now[State[u]], Safe[State[u]]}
                        /\ Safe'[State[u]] = Safe[State[u]]
  BY Stopped
<1>2. Safe' = Safe /\ (Now' = Safe \/ Now' = Now) /\ Remembers BY DEF StopsStep
<1>3. OthersInv' BY <1>1 DEF LastInv, OthersInv
<1>4. AheadInv' BY <1>1 DEF AheadInv
<1>5. ASSUME NEW s, NEW r, s.prev = r.prev, Restored(r) PROVE Restored(s)'
  BY <1>2, <1>5, OwnNames DEF Restored, Remembers
<1>6. UntouchedInv'
  <2>1. PICK t : t = tx.id OBVIOUS
  <2>2. tx'.id = t BY <1>1, <2>1
  <2>3. ASSUME NEW s \in Proper, t \in Txs, ~SaysMutated', Recorded(t, s)', s.prev # None
        PROVE  Restored(s)'
    <3>1. PICK r \in Proper : Recorded(t, r) /\ r.prev = s.prev BY <2>3, StoppedRecords
    <3>2. ~SaysMutated BY <1>1, <1>2, <2>3 DEF SaysMutated
    <3> QED BY <1>5, <2>1, <2>3, <3>1, <3>2 DEF LastInv, UntouchedInv
  <2> QED BY <2>1, <2>2, <2>3 DEF UntouchedInv, Recorded
<1>7. KeptInv'
  <2>1. \A q \in Links : \A g : Kept(q, g) => Kept(q, g)' BY <1>2 DEF Kept
  <2>2. \A g : NotAgain(1, g)' BY <1>1 DEF NotAgain
  <2>3. PICK t : t = tx.id OBVIOUS
  <2>4. ASSUME t \in Txs, NEW s \in {Now'[State[t]], Safe'[State[t]]}, s # None, s.phase = "activated"
        PROVE  \A q \in Links : Kept(q, s.gen)'
    BY <1>1, <2>1, <2>3, <2>4 DEF LastInv, KeptInv
  <2> QED BY <1>1, <2>2, <2>3, <2>4 DEF KeptInv, Kept, NotAgain
<1>8. DecidedInv'
  <2>1. PICK t : t = tx.id OBVIOUS
  <2>2. ASSUME NEW s, Carried(s) PROVE Carried(s)'
    BY <1>2, <1>5, <2>2 DEF Carried
  <2>3. ASSUME t \in Txs, NEW s \in {Now'[State[t]], Safe'[State[t]]}, s # None, Decided(s)
        PROVE  Carried(s)'
    BY <1>1, <2>1, <2>2, <2>3 DEF LastInv, DecidedInv
  <2> QED BY <1>1, <2>1, <2>3 DEF DecidedInv, Carried, Restored
<1> QED BY <1>3, <1>4, <1>6, <1>7, <1>8 DEF LastInv

----------------------------------------------------------------------------
(* A save begins; apply remembers what it is about to record.                   *)

OpensStep ==
  /\ UNCHANGED <<Now, Safe, todo, slipped>> /\ job[Root] = Idle
  /\ todo # <<>> /\ todo[1].value # None
  /\ job'[Root].path = todo[1].path /\ job'[Root].value = todo[1].value /\ ~HalfSaved'
  /\ tx' = IF tx.applying /\ todo[1].path = State[tx.id]
           THEN [tx EXCEPT !.state = todo[1].value] ELSE tx

LEMMA Opened ==
  ASSUME FilesInv, Base, OpensStep
  PROVE  /\ 1 \in 1..Len(todo) /\ ~HalfSaved
         /\ tx' \in [id : Nat, state : States \cup {None}, applying : BOOLEAN]
         /\ tx'.id = tx.id /\ (tx'.applying <=> tx.applying)
         /\ tx.applying => tx.id \in Txs /\ tx'.state \in Proper
         /\ IF tx.applying /\ todo[1].path = State[tx.id]
            THEN tx'.state = todo[1].value ELSE tx'.state = tx.state
<1>1. ~HalfSaved BY DEF HalfSaved, Idle, OpensStep
<1>2. 1 \in 1..Len(todo) BY DEF Base, TypeInv, OpensStep
<1>3. FileOK(todo[1].path, todo[1].value) BY <1>2 DEF Base, TypeInv
<1>4. tx.applying => tx.id \in Txs /\ tx.state \in Proper BY DEF Base, TypeInv
<1>5. tx.applying /\ todo[1].path = State[tx.id] => todo[1].value \in Proper /\ todo[1].value \in States
  BY <1>3, <1>4, StateHolds DEF OpensStep
<1> QED BY <1>1, <1>2, <1>4, <1>5 DEF Base, TypeInv, OpensStep

LEMMA OpenedRecords ==
  ASSUME FilesInv, Base, OpensStep, NEW u \in Txs, NEW s, Recorded(u, s)'
  PROVE  Recorded(u, s)
BY Opened DEF Recorded, Writes, OpensStep

LEMMA BaseOpens ==
  ASSUME FilesInv, Base, OpensStep
  PROVE  Base'
<1>1. /\ 1 \in 1..Len(todo) /\ ~HalfSaved
      /\ tx' \in [id : Nat, state : States \cup {None}, applying : BOOLEAN]
      /\ tx'.id = tx.id /\ (tx'.applying <=> tx.applying)
      /\ tx.applying => tx.id \in Txs /\ tx'.state \in Proper
      /\ IF tx.applying /\ todo[1].path = State[tx.id]
         THEN tx'.state = todo[1].value ELSE tx'.state = tx.state
  BY Opened
<1>2. UNCHANGED <<Now, Safe, todo, slipped>> BY DEF OpensStep
<1>3. TypeInv' BY <1>1, <1>2 DEF Base, TypeInv
<1>4. JobInv' BY <1>1, <1>2 DEF JobInv, OpensStep
<1>5. FirmInv' BY <1>1, <1>2 DEF Base, FirmInv
<1>6. SeenInv' BY <1>2 DEF Base, SeenInv
<1>7. FreshInv' BY <1>1, <1>2 DEF Base, FreshInv, Writes
<1>8. ChainInv'
  <2>1. ASSUME NEW u \in Txs, tx.applying, u = tx.id, todo[1].path = State[u]
        PROVE  /\ Now[State[u]] # None => Continues(Now[State[u]], tx'.state)
               /\ \A k \in 1..Len(todo) : Writes(k, State[u]) => Continues(tx'.state, todo[k].value)
    <3>1. Writes(1, State[u]) /\ tx'.state = todo[1].value BY <1>1, <2>1 DEF Writes
    <3>2. Now[State[u]] # None => Continues(Now[State[u]], tx'.state)
      BY <1>1, <3>1 DEF Base, ChainInv
    <3>3. ASSUME NEW k \in 1..Len(todo), Writes(k, State[u])
          PROVE  Continues(tx'.state, todo[k].value)
      <4>1. CASE k = 1 BY <3>1, <4>1 DEF Continues
      <4>2. CASE k # 1
        <5>1. 1 \in 1..(k - 1) BY <4>2
        <5> QED BY <3>1, <3>3, <5>1 DEF Base, ChainInv
      <4> QED BY <4>1, <4>2
    <3> QED BY <3>2, <3>3
  <2> QED BY <1>1, <1>2, <2>1 DEF Base, ChainInv, Writes
<1>9. ApplyingInv' BY <1>1, <1>2 DEF Base, ApplyingInv, Writes
<1>10. DirInv' BY <1>2 DEF Base, DirInv, Writes
<1>11. GenInv' BY <1>2, OpenedRecords DEF Base, GenInv, HasGen, Writes
<1>12. SelectedInv' BY <1>2, OpenedRecords DEF Base, SelectedInv, Covered, Writes
<1> QED BY <1>3, <1>4, <1>5, <1>6, <1>7, <1>8, <1>9, <1>10, <1>11, <1>12 DEF Base

LEMMA LastOpens ==
  ASSUME FilesInv, Base, LastInv, OpensStep
  PROVE  LastInv'
<1>1. /\ 1 \in 1..Len(todo)
      /\ tx'.id = tx.id /\ (tx'.applying <=> tx.applying)
      /\ tx.applying => tx.id \in Txs /\ tx'.state \in Proper
      /\ IF tx.applying /\ todo[1].path = State[tx.id]
         THEN tx'.state = todo[1].value ELSE tx'.state = tx.state
  BY Opened
<1>2. UNCHANGED <<Now, Safe, todo, slipped>> BY DEF OpensStep
<1>3. OthersInv' BY <1>1, <1>2 DEF LastInv, OthersInv, Writes
<1>4. AheadInv' BY <1>1, <1>2 DEF LastInv, AheadInv, SaysMutated, Writes
<1>5. \A s : Restored(s)' <=> Restored(s) BY <1>2 DEF Restored
<1>6. UntouchedInv'
  <2>1. PICK t : t = tx.id OBVIOUS
  <2>2. ASSUME NEW s \in Proper, t \in Txs, ~SaysMutated', Recorded(t, s)', s.prev # None
        PROVE  Restored(s)'
    BY <1>1, <1>2, <1>5, <2>1, <2>2, OpenedRecords DEF LastInv, UntouchedInv, SaysMutated
  <2> QED BY <1>1, <2>1, <2>2 DEF UntouchedInv, Recorded
<1>7. KeptInv'
  <2>1. PICK t : t = tx.id OBVIOUS
  <2>2. ASSUME t \in Txs, tx.applying, todo[1].path = State[t], tx'.state.phase = "activated"
        PROVE  NotAgain(1, tx'.state.gen) /\ \A q \in Links : Kept(q, tx'.state.gen)
    <3>1. Writes(1, State[t]) /\ tx'.state = todo[1].value /\ ~\E j \in 1..(1 - 1) : TRUE
      BY <1>1, <2>1, <2>2 DEF Writes
    <3> QED BY <1>1, <2>1, <2>2, <3>1 DEF LastInv, KeptInv
  <2> QED BY <1>1, <1>2, <2>1, <2>2 DEF LastInv, KeptInv, Kept, NotAgain, Writes
<1>8. DecidedInv'
  BY <1>1, <1>2 DEF LastInv, DecidedInv, Carried, Restoring, Restored, Writes
<1> QED BY <1>3, <1>4, <1>6, <1>7, <1>8 DEF LastInv

----------------------------------------------------------------------------
(* A link is removed, which no sync follows.                                    *)

RemovesStep ==
  /\ UNCHANGED <<Safe, job, tx, slipped>> /\ job[Root] = Idle
  /\ todo # <<>> /\ todo[1].value = None
  /\ Now' = [Now EXCEPT ![todo[1].path] = None] /\ todo' = Tail(todo)

LEMMA Removed ==
  ASSUME FilesInv, Base, RemovesStep, NEW p, p = todo[1].path
  PROVE  /\ p \in Links /\ p \in Paths /\ ~tx.applying
         /\ TypeInv /\ todo # <<>> /\ todo' = Tail(todo)
         /\ 1 \in 1..Len(todo) /\ Len(todo) \in Nat /\ Len(todo') = Len(todo) - 1
         /\ \A k \in 1..Len(todo') : k + 1 \in 1..Len(todo) /\ todo'[k] = todo[k + 1]
         /\ todo' \in Seq([path : Paths, value : Values \cup {None}])
         /\ \A q \in Paths : Now'[q] = IF q = p THEN None ELSE Now[q]
         /\ \A u \in Txs : /\ State[u] \in Paths \ Links /\ Now'[State[u]] = Now[State[u]]
                           /\ ~Writes(1, State[u]) /\ ~Writes(1, TxDir[u])
         /\ todo[1].value = None
<1>1. TypeInv /\ todo # <<>> /\ todo' = Tail(todo) BY DEF Base, RemovesStep
<1>2. /\ 1 \in 1..Len(todo) /\ Len(todo) \in Nat /\ Len(todo') = Len(todo) - 1
      /\ \A k \in 1..Len(todo') : k + 1 \in 1..Len(todo) /\ todo'[k] = todo[k + 1]
      /\ todo' \in Seq([path : Paths, value : Values \cup {None}])
  BY <1>1, TailOf
<1>3. p \in Links /\ ~tx.applying BY <1>2 DEF Base, TypeInv, ApplyingInv, RemovesStep
<1>4. \A q \in Paths : Now'[q] = IF q = p THEN None ELSE Now[q]
  BY <1>3, FoundOnPaths DEF RemovesStep
<1>5. \A u \in Txs : /\ State[u] \in Paths \ Links /\ Now'[State[u]] = Now[State[u]]
                     /\ ~Writes(1, State[u]) /\ ~Writes(1, TxDir[u])
  BY <1>3, <1>4, OwnNames DEF Writes
<1>6. todo[1].value = None BY DEF RemovesStep
<1> QED BY <1>1, <1>2, <1>3, <1>4, <1>5, <1>6, OwnNames

LEMMA RemovedRecords ==
  ASSUME FilesInv, Base, RemovesStep, NEW u \in Txs, NEW s, Recorded(u, s)'
  PROVE  Recorded(u, s)
<1>1. PICK p : p = todo[1].path OBVIOUS
<1>2. TypeInv /\ todo # <<>> /\ todo' = Tail(todo) /\ Now'[State[u]] = Now[State[u]]
  BY <1>1, Removed
<1> QED BY <1>2, TailRecorded DEF RemovesStep

LEMMA BaseRemoves ==
  ASSUME FilesInv, Base, RemovesStep
  PROVE  Base'
<1>1. PICK p : p = todo[1].path OBVIOUS
<1>2. /\ p \in Links /\ p \in Paths /\ ~tx.applying
      /\ TypeInv /\ todo # <<>> /\ todo' = Tail(todo)
      /\ 1 \in 1..Len(todo) /\ Len(todo) \in Nat /\ Len(todo') = Len(todo) - 1
      /\ \A k \in 1..Len(todo') : k + 1 \in 1..Len(todo) /\ todo'[k] = todo[k + 1]
      /\ \A q \in Paths : Now'[q] = IF q = p THEN None ELSE Now[q]
      /\ \A u \in Txs : /\ State[u] \in Paths \ Links /\ Now'[State[u]] = Now[State[u]]
                        /\ ~Writes(1, State[u]) /\ ~Writes(1, TxDir[u])
      /\ todo[1].value = None
  BY <1>1, Removed DEF Writes
<1> todo' \in Seq([path : Paths, value : Values \cup {None}]) BY <1>2, TailOf
<1>3. UNCHANGED <<Safe, job, tx, slipped>> /\ job[Root] = Idle /\ ~HalfSaved /\ ~HalfSaved'
  BY DEF RemovesStep, HalfSaved, Idle
<1>4. TypeInv'
  <2>1. \A q \in Paths : FileOK(q, Now'[q]) /\ FileOK(q, Safe'[q])
    BY <1>2, <1>3 DEF Base, TypeInv, FileOK
  <2>2. \A k \in 1..Len(todo') : /\ FileOK(todo'[k].path, todo'[k].value)
                                 /\ todo'[k].value = None => todo'[k].path \in Links
    BY <1>2 DEF TypeInv
  <2> QED BY <1>2, <1>3, <2>1, <2>2 DEF Base, TypeInv
<1>5. JobInv' BY <1>2, <1>3 DEF JobInv
<1>6. FirmInv' BY <1>2, <1>3 DEF Base, FirmInv
<1>7. SeenInv' BY <1>2, <1>3 DEF Base, SeenInv
<1>8. FreshInv' BY <1>2, <1>3 DEF Base, FreshInv, Writes
<1>9. ChainInv'
  <2> SUFFICES ASSUME NEW u \in Txs, NEW k \in 1..Len(todo'), Writes(k, State[u])'
      PROVE  /\ Now[State[u]] # None => Continues(Now[State[u]], todo'[k].value)
             /\ \A j \in 1..(k - 1) : Writes(j, State[u])'
                  => Continues(todo'[j].value, todo'[k].value)
    BY <1>2, <1>3 DEF Base, ChainInv
  <2>1. /\ k + 1 \in 1..Len(todo) /\ Writes(k + 1, State[u]) /\ todo'[k] = todo[k + 1]
        /\ \A j \in 1..(k - 1) : /\ j + 1 \in 1..((k + 1) - 1) /\ todo'[j] = todo[j + 1]
                                 /\ (Writes(j, State[u])' <=> Writes(j + 1, State[u]))
    BY <1>2, TailWrites
  <2> QED BY <2>1 DEF Base, ChainInv
<1>10. ApplyingInv' BY <1>2, <1>3 DEF ApplyingInv
<1>11. DirInv'
  <2>1. ASSUME NEW u \in Txs, NEW k \in 1..Len(todo'), Writes(k, State[u])', Safe[TxDir[u]] = None
        PROVE  \E j \in 1..(k - 1) : Writes(j, TxDir[u])'
    <3>1. Writes(k + 1, State[u]) /\ k + 1 \in 1..Len(todo) BY <1>2, <2>1, TailWrites
    <3>2. PICK j \in 1..((k + 1) - 1) : Writes(j, TxDir[u])
      BY <2>1, <3>1 DEF Base, DirInv
    <3>3. j # 1 BY <1>2, <3>2
    <3> QED BY <1>2, <2>1, <3>2, <3>3, TailBefore
  <2> QED BY <1>2, <1>3, <2>1 DEF Base, DirInv
<1>12. \A g : (HasGen(g)' <=> HasGen(g)) /\ (Covered(g)' <=> Covered(g))
  BY <1>3 DEF HasGen, Covered
<1>13. GenInv'
  <2>1. ASSUME NEW g \in Generations, g \in {Now'[Selector], Safe'[Selector]} PROVE HasGen(g)
    BY <1>2, <1>3, <2>1, NoneIsNothing, OwnNames DEF Base, GenInv
  <2>2. ASSUME NEW g \in Generations, NEW k \in 1..Len(todo'), todo'[k] = Put(Selector, g), ~HasGen(g)
        PROVE  \E j \in 1..(k - 1) : Writes(j, GenDir[g])'
    <3>1. k + 1 \in 1..Len(todo) /\ todo[k + 1] = Put(Selector, g) BY <1>2, <2>2
    <3>2. PICK j \in 1..((k + 1) - 1) : Writes(j, GenDir[g])
      BY <2>2, <3>1 DEF Base, GenInv
    <3>3. j # 1 BY <1>1, <1>2, <3>2, OwnNames DEF Writes
    <3> QED BY <1>2, <2>2, <3>2, <3>3, TailBefore
  <2> QED BY <1>12, <2>1, <2>2, RemovedRecords DEF Base, GenInv
<1>14. SelectedInv'
  <2>1. ASSUME NEW g \in Generations, g \in {Now'[Selector], Safe'[Selector]} PROVE Covered(g)
    BY <1>2, <1>3, <2>1, NoneIsNothing, OwnNames DEF Base, SelectedInv
  <2>2. ASSUME NEW g \in Generations, NEW k \in 1..Len(todo'), todo'[k] = Put(Selector, g), ~Covered(g)
        PROVE  \E u \in Txs : \E j \in 1..(k - 1) : Writes(j, State[u])' /\ Covers(todo'[j].value, g)
    <3>1. k + 1 \in 1..Len(todo) /\ todo[k + 1] = Put(Selector, g) BY <1>2, <2>2
    <3>2. PICK u \in Txs, j \in 1..((k + 1) - 1) : Writes(j, State[u]) /\ Covers(todo[j].value, g)
      BY <2>2, <3>1 DEF Base, SelectedInv
    <3>3. j # 1 /\ j \in 1..k BY <1>2, <3>2
    <3>4. j - 1 \in 1..(k - 1) /\ Writes(j - 1, State[u])' /\ todo'[j - 1] = todo[j]
      BY <1>2, <3>2, <3>3, TailShift
    <3> QED BY <3>2, <3>4
  <2> QED BY <1>12, <2>1, <2>2, RemovedRecords DEF Base, SelectedInv
<1> QED BY <1>4, <1>5, <1>6, <1>7, <1>8, <1>9, <1>10, <1>11, <1>13, <1>14 DEF Base

LEMMA LastRemoves ==
  ASSUME FilesInv, Base, LastInv, RemovesStep
  PROVE  LastInv'
<1>1. PICK p : p = todo[1].path OBVIOUS
<1>2. /\ p \in Links /\ p \in Paths /\ ~tx.applying
      /\ TypeInv /\ todo # <<>> /\ todo' = Tail(todo)
      /\ 1 \in 1..Len(todo) /\ Len(todo) \in Nat /\ Len(todo') = Len(todo) - 1
      /\ \A k \in 1..Len(todo') : k + 1 \in 1..Len(todo) /\ todo'[k] = todo[k + 1]
      /\ \A q \in Paths : Now'[q] = IF q = p THEN None ELSE Now[q]
      /\ \A u \in Txs : /\ State[u] \in Paths \ Links /\ Now'[State[u]] = Now[State[u]]
                        /\ ~Writes(1, State[u]) /\ ~Writes(1, TxDir[u])
      /\ todo[1].value = None
  BY <1>1, Removed DEF Writes
<1>3. UNCHANGED <<Safe, job, tx, slipped>> BY DEF RemovesStep
<1>4. PICK t : t = tx.id OBVIOUS
<1>5. t \in Txs /\ SaysMutated
  <2>1. todo[1].path \in Links /\ ~\E j \in 1..(1 - 1) : TRUE BY <1>1, <1>2
  <2> QED BY <1>2, <1>4, <2>1 DEF LastInv, AheadInv
<1>6. OthersInv' BY <1>2, <1>3 DEF LastInv, OthersInv, Writes
<1>7. AheadInv' BY <1>3, <1>4, <1>5 DEF AheadInv, SaysMutated
<1>8. UntouchedInv' BY <1>3, <1>4, <1>5 DEF UntouchedInv, SaysMutated
<1>9. PICK f : f = State[t] OBVIOUS
<1>10. KeptInv'
  <2>1. ASSUME NEW q \in Links, NEW g \in Generations, Kept(q, g) PROVE Kept(q, g)'
    BY <1>2, <1>3, <2>1, OwnNames, NoneIsNothing DEF Kept
  <2>2. \A g : NotAgain(1, g) => NotAgain(1, g)' BY <1>2, TailNotAgain
  <2>3. ASSUME NEW s \in {Now[f], Safe[f]}, s # None PROVE s.gen \in Generations
    BY <1>5, <1>9, <2>3, StateHolds, OwnNames DEF Base, TypeInv, States
  <2>4. ASSUME NEW s \in {Now[f], Safe[f]}, s # None, s.phase = "activated"
        PROVE  NotAgain(1, s.gen)' /\ \A q \in Links : Kept(q, s.gen)'
    BY <1>4, <1>5, <1>9, <2>1, <2>2, <2>3, <2>4 DEF LastInv, KeptInv
  <2>5. ASSUME NEW k \in 1..Len(todo'), Writes(k, f)', todo'[k].value.phase = "activated", NEW g,
               g = todo'[k].value.gen
        PROVE  /\ NotAgain(k, g)'
               /\ \A q \in Links : Kept(q, g)' \/ \E j \in 1..(k - 1) : Writes(j, q)'
    <3>1. k + 1 \in 1..Len(todo) /\ todo'[k] = todo[k + 1] /\ Writes(k + 1, f)
      BY <1>2, <2>5, TailWrites
    <3>2. /\ NotAgain(k + 1, g)
          /\ \A q \in Links : Kept(q, g) \/ \E j \in 1..((k + 1) - 1) : Writes(j, q)
      BY <1>4, <1>5, <1>9, <2>5, <3>1 DEF LastInv, KeptInv
    <3>3. NotAgain(k, g)' BY <1>2, <3>2, TailNotAgain
    <3>4. g \in Generations
      <4>1. FileOK(f, todo[k + 1].value) /\ todo[k + 1].value # None
        BY <1>2, <1>5, <1>9, <3>1 DEF TypeInv, Writes
      <4> QED BY <1>5, <1>9, <2>5, <3>1, <4>1, StateHolds DEF States
    <3>5. ASSUME NEW q \in Links, ~\E j \in 1..(k - 1) : Writes(j, q)' PROVE Kept(q, g)'
      <4>1. CASE Kept(q, g) BY <2>1, <3>4, <4>1
      <4>2. ASSUME NEW j \in 1..((k + 1) - 1), Writes(j, q) PROVE Kept(q, g)'
        <5>1. j = 1 BY <1>2, <3>5, <4>2, TailBefore
        <5>2. p = q BY <1>1, <4>2, <5>1 DEF Writes
        <5> QED BY <1>2, <3>4, <5>2, NoneIsNothing DEF Kept
      <4> QED BY <3>2, <4>1, <4>2
    <3> QED BY <3>3, <3>5
  <2>6. State[tx'.id] = f /\ Now'[f] = Now[f] /\ Safe'[f] = Safe[f] /\ ~tx'.applying
    BY <1>2, <1>3, <1>4, <1>5, <1>9
  <2> QED BY <2>4, <2>5, <2>6 DEF KeptInv, Kept, NotAgain, Writes
<1>11. DecidedInv'
  <2>1. ASSUME NEW s \in {Now[f], Safe[f]}, s # None, Decided(s) PROVE FALSE
    BY <1>2, <1>4, <1>5, <1>9, <2>1 DEF LastInv, DecidedInv
  <2>2. ASSUME NEW s, p # Selector, Restored(s) PROVE Restored(s)'
    BY <1>2, <1>3, <2>2, OwnNames DEF Restored
  <2>3. ASSUME NEW k \in 1..Len(todo'), Writes(k, f)', NEW s, s = todo'[k].value, Decided(s)
        PROVE  k = Len(todo') /\ s.phase # "confirmed" /\ Restoring(k, s)'
    <3>1. /\ k + 1 \in 1..Len(todo) /\ Writes(k + 1, f) /\ todo[k + 1].value = s
          /\ \A j \in 1..(k - 1) : /\ j + 1 \in 1..((k + 1) - 1) /\ todo'[j] = todo[j + 1]
                                   /\ (Writes(j, Selector)' <=> Writes(j + 1, Selector))
      BY <1>2, <2>3, TailWrites
    <3>2. /\ k + 1 = Len(todo)
          /\ s.phase = "confirmed" => k + 1 = 1
          /\ Restoring(k + 1, s)
      BY <1>4, <1>5, <1>9, <2>3, <3>1 DEF LastInv, DecidedInv
    <3>3. 1 \in 1..((k + 1) - 1) /\ (p = Selector => Writes(1, Selector))
      BY <1>1, <1>2, <2>3 DEF Writes
    <3>4. ASSUME \A j \in 1..((k + 1) - 1) : Writes(j, Selector) => todo[j].value = s.prev,
                 \E j \in 1..((k + 1) - 1) : Writes(j, Selector), s.prev # None
          PROVE  \E j \in 1..(k - 1) : Writes(j, Selector)'
      <4>1. PICK j \in 1..((k + 1) - 1) : Writes(j, Selector) BY <3>4
      <4>2. j # 1 BY <1>2, <3>4, <4>1
      <4> QED BY <1>2, <2>3, <4>1, <4>2, TailBefore
    <3>5. Restoring(k, s)'
      <4> SUFFICES ASSUME s.phase = "rolledback", s.prev # None
          PROVE  \/ Restored(s)' /\ \A j \in 1..(k - 1) : ~Writes(j, Selector)'
                 \/ /\ \E j \in 1..(k - 1) : Writes(j, Selector)'
                    /\ \A j \in 1..(k - 1) : Writes(j, Selector)' => todo'[j].value = s.prev
        BY DEF Restoring
      <4>1. CASE Restored(s) /\ \A j \in 1..((k + 1) - 1) : ~Writes(j, Selector)
        BY <2>2, <3>1, <3>3, <4>1
      <4>2. CASE /\ \E j \in 1..((k + 1) - 1) : Writes(j, Selector)
                 /\ \A j \in 1..((k + 1) - 1) : Writes(j, Selector) => todo[j].value = s.prev
        BY <3>1, <3>4, <4>2
      <4> QED BY <3>2, <4>1, <4>2 DEF Restoring
    <3>6. k = Len(todo') /\ s.phase # "confirmed"
      <4>1. Len(todo') \in Nat /\ k \in Nat /\ k # 0 BY <1>2
      <4>2. Len(todo) \in Nat /\ Len(todo') = Len(todo) - 1 BY <1>2
      <4>3. k = Len(todo') BY <3>2, <4>1, <4>2, Predecessor
      <4> QED BY <3>2, <4>1, <4>3
    <3> QED BY <3>5, <3>6
  <2>4. State[tx'.id] = f /\ Now'[f] = Now[f] /\ Safe'[f] = Safe[f]
    BY <1>2, <1>3, <1>4, <1>5, <1>9
  <2> QED BY <2>1, <2>3, <2>4 DEF DecidedInv, Restoring, Restored, Carried, Writes
<1> QED BY <1>6, <1>7, <1>8, <1>10, <1>11 DEF LastInv

----------------------------------------------------------------------------
(* Commands begin: what they are going to write.                                *)

\* A rollback restores what is not as it was, and then records itself.
LEMMA Concatenations ==
  ASSUME NEW A, NEW B, NEW F
  PROVE  /\ (<<>> \o <<>>) \o <<F>> = <<F>> /\ (<<A>> \o <<>>) \o <<F>> = <<A, F>>
         /\ (<<>> \o <<B>>) \o <<F>> = <<B, F>> /\ (<<A>> \o <<B>>) \o <<F>> = <<A, B, F>>
         /\ <<>> \o <<F>> = <<F>>
<1>1. PICK S : S = {A, B, F} OBVIOUS
<1>2. \A x \in S : <<x>> \in Seq(S) OBVIOUS
<1>3. \A x \in S : <<>> \o <<x>> = <<x>> /\ <<x>> \o <<>> = <<x>> BY <1>2
<1>4. ASSUME NEW x \in S, NEW y \in S PROVE <<x>> \o <<y>> = <<x, y>> /\ <<x, y>> \in Seq(S)
  <2>1. PICK r : r = <<x>> \o <<y>> OBVIOUS
  <2>2. r \in Seq(S) /\ Len(r) = 2 /\ r[1] = x /\ r[2] = y BY <1>2, <2>1
  <2>3. r = <<x, y>> BY <2>2
  <2> QED BY <2>1, <2>2, <2>3
<1>5. <<A, B>> \o <<F>> = <<A, B, F>>
  <2>1. PICK r : r = <<A, B>> \o <<F>> OBVIOUS
  <2>2. r \in Seq(S) /\ Len(r) = 3 /\ r[1] = A /\ r[2] = B /\ r[3] = F BY <1>1, <1>2, <1>4, <2>1
  <2>3. r = <<A, B, F>> BY <2>2
  <2> QED BY <2>1, <2>3
<1>6. <<>> \o <<>> = <<>> OBVIOUS
<1> QED BY <1>1, <1>3, <1>4, <1>5, <1>6

LEMMA RollbackForms ==
  ASSUME NEW t, NEW s
  PROVE  LET A == Put(Selector, s.prev)
             B == Put(Ownership, s.prev)
             F == Put(State[t], [s EXCEPT !.phase = "rolledback"])
             a == Mutated(s) /\ Read(Selector) # s.prev
             b == Mutated(s) /\ Read(Ownership) # s.prev
         IN  RollbackWrites(t, s) = IF a THEN IF b THEN <<A, B, F>> ELSE <<A, F>>
                                         ELSE IF b THEN <<B, F>> ELSE <<F>>
<1> DEFINE A == Put(Selector, s.prev)
           B == Put(Ownership, s.prev)
           F == Put(State[t], [s EXCEPT !.phase = "rolledback"])
           X == IF Read(Selector) # s.prev THEN <<A>> ELSE <<>>
           Y == IF Read(Ownership) # s.prev THEN <<B>> ELSE <<>>
<1>1. CASE ~Mutated(s)
  BY <1>1, Concatenations DEF RollbackWrites, writeTransaction
<1>2. CASE Mutated(s)
  <2>1. RollbackWrites(t, s) = (X \o Y) \o <<F>>
    BY <1>2 DEF RollbackWrites, Removals, Restores, writeTransaction
  <2> HIDE DEF A, B, F
  <2>2. (X \o Y) \o <<F>> =
          IF Read(Selector) # s.prev THEN IF Read(Ownership) # s.prev THEN <<A, B, F>> ELSE <<A, F>>
                                     ELSE IF Read(Ownership) # s.prev THEN <<B, F>> ELSE <<F>>
    BY Concatenations
  <2> QED BY <1>2, <2>1, <2>2 DEF A, B, F
<1> QED BY <1>1, <1>2

\* d: the journal is written again, a and b: the selector and the ownership record
\* are restored, e: the rollback is recorded.
Undoes(w, t, s, d, a, b, e) ==
  /\ w \in Seq([path : Paths, value : Values \cup {None}]) /\ Len(w) = d + a + b + e
  /\ d = 1 => w[1] = Put(State[t], s)
  /\ a = 1 => w[d + 1] = Put(Selector, s.prev) /\ e = 1 /\ Mutated(s)
  /\ b = 1 => w[d + a + 1] = Put(Ownership, s.prev) /\ e = 1 /\ Mutated(s)
  /\ e = 1 => w[d + a + b + 1] = Put(State[t], [s EXCEPT !.phase = "rolledback"])
  /\ e = 1 /\ Mutated(s) /\ a = 0 => Now[Selector] = s.prev

\* A command ends, and the rollback of t follows.
UndoesStep(t, s, d, a, b, e) ==
  /\ UNCHANGED <<Now, Safe>> /\ Remembers /\ job'[Root] = Idle
  /\ HalfSaved => job[Root].path \in slipped'
  /\ tx' = [tx EXCEPT !.applying = FALSE]
  /\ t \in Txs /\ s \in Proper /\ s \in States /\ ~Decided(s)
  /\ Now[State[t]] # None /\ ~Decided(Now[State[t]]) /\ Continues(Now[State[t]], s)
  /\ d = 0 => s = Now[State[t]]
  /\ d = 1 => tx.id = t /\ tx.applying /\ tx.state = s
  /\ Undoes(todo', t, s, d, a, b, e)

LEMMA Undone ==
  ASSUME FilesInv, Base, NEW t, NEW s, NEW a \in {0, 1}, NEW b \in {0, 1}, NEW d \in {0, 1},
         NEW e \in {0, 1}, UndoesStep(t, s, d, a, b, e),
         NEW f, f = State[t], NEW r, r = Now[f], NEW z, z = [s EXCEPT !.phase = "rolledback"]
  PROVE  /\ tx' \in [id : Nat, state : States \cup {None}, applying : BOOLEAN]
         /\ tx'.id = tx.id /\ ~tx'.applying
         /\ f \in Paths \ Links /\ \A u \in Txs : u # t => State[u] # f
         /\ r \in Proper /\ r # None /\ r.prev = s.prev /\ r.gen = s.gen /\ (Late(r) => Late(s))
         /\ ~Decided(r) /\ ~Decided(s)
         /\ z \in Proper /\ z \in States /\ z.prev = s.prev /\ z.gen = s.gen
         /\ z.phase = "rolledback" /\ Late(z)
         /\ s.prev \in Generations \cup {None} /\ s.phase \in Phases /\ s.prev # s.gen
         /\ Settles /\ Recorded(t, r)
<1>1. UndoesStep(t, s, d, a, b, e) /\ Undoes(todo', t, s, d, a, b, e) BY DEF UndoesStep
<1>2. /\ tx' \in [id : Nat, state : States \cup {None}, applying : BOOLEAN]
      /\ tx'.id = tx.id /\ ~tx'.applying
  BY <1>1 DEF Base, TypeInv, UndoesStep
<1>3. f \in Paths \ Links /\ \A u \in Txs : u # t => State[u] # f
  BY <1>1, OwnNames DEF UndoesStep
<1>4. r \in Proper /\ r # None /\ r.prev = s.prev /\ r.gen = s.gen /\ (Late(r) => Late(s))
  BY <1>1, <1>3, StateHolds DEF Base, TypeInv, UndoesStep, Continues
<1>5. /\ z \in Proper /\ z \in States /\ z.prev = s.prev /\ z.gen = s.gen
      /\ z.phase = "rolledback" /\ Late(z)
      /\ s.prev \in Generations \cup {None} /\ s.phase \in Phases /\ s.prev # s.gen
  BY <1>1 DEF UndoesStep, Proper, States, Phases, Late
<1>6. ~Decided(r) /\ ~Decided(s) /\ Settles BY <1>1 DEF UndoesStep, Settles
<1>7. Recorded(t, r) BY <1>4 DEF Recorded
<1> QED BY <1>2, <1>3, <1>4, <1>5, <1>6, <1>7

\* What there is to write then.
UndoWrites(w, f, s, z, d, a, b, e) ==
  /\ \A k \in 1..Len(w) :
       \/ d = 1 /\ k = 1 /\ w[k].path = f /\ w[k].value = s
       \/ /\ w[k].path = Selector /\ w[k].value = s.prev
          /\ a = 1 /\ k = d + 1 /\ Mutated(s)
       \/ /\ w[k].path = Ownership /\ w[k].value = s.prev
          /\ b = 1 /\ k = d + a + 1 /\ Mutated(s)
       \/ w[k].path = f /\ w[k].value = z /\ e = 1 /\ k = Len(w)
  /\ a = 1 => d + 1 \in 1..(Len(w) - 1) /\ d + 1 \in 1..Len(w) /\ w[d + 1].path = Selector
  /\ \A k \in 1..Len(w) : w[k].path = f =>
       \/ d = 1 /\ k = 1 /\ w[k].value = s
       \/ e = 1 /\ k = Len(w) /\ w[k].value = z
  /\ \A k \in 1..Len(w) : w[k].path \in Links =>
       w[k].value = s.prev /\ Mutated(s) /\ k \in {d + 1, d + a + 1} /\ k > d

LEMMA UndoneWrites ==
  ASSUME FilesInv, Base, NEW t, NEW s, NEW a \in {0, 1}, NEW b \in {0, 1}, NEW d \in {0, 1},
         NEW e \in {0, 1}, UndoesStep(t, s, d, a, b, e),
         NEW f, f = State[t], NEW z, z = [s EXCEPT !.phase = "rolledback"]
  PROVE  UndoWrites(todo', f, s, z, d, a, b, e)
<1>1. Undoes(todo', t, s, d, a, b, e) BY DEF UndoesStep
<1>2. ASSUME NEW k \in 1..Len(todo')
      PROVE  \/ d = 1 /\ k = 1 /\ todo'[k].path = f /\ todo'[k].value = s
             \/ /\ todo'[k].path = Selector /\ todo'[k].value = s.prev
                /\ a = 1 /\ k = d + 1 /\ Mutated(s)
             \/ /\ todo'[k].path = Ownership /\ todo'[k].value = s.prev
                /\ b = 1 /\ k = d + a + 1 /\ Mutated(s)
             \/ todo'[k].path = f /\ todo'[k].value = z /\ e = 1 /\ k = Len(todo')
  BY <1>1, <1>2, PutHolds DEF Undoes
<1>3. a = 1 => /\ d + 1 \in 1..(Len(todo') - 1) /\ d + 1 \in 1..Len(todo')
               /\ todo'[d + 1].path = Selector
  BY <1>1, PutHolds DEF Undoes
<1>4. PICK r : r = Now[f] OBVIOUS
<1>5. f \in Paths \ Links /\ Selector \in Links /\ Ownership \in Links
  BY <1>4, Undone, OwnNames
<1>6. \A k \in 1..Len(todo') : todo'[k].path = f =>
        \/ d = 1 /\ k = 1 /\ todo'[k].value = s
        \/ e = 1 /\ k = Len(todo') /\ todo'[k].value = z
  BY <1>2, <1>5
<1>7. \A k \in 1..Len(todo') : todo'[k].path \in Links =>
        todo'[k].value = s.prev /\ Mutated(s) /\ k \in {d + 1, d + a + 1} /\ k > d
  BY <1>2, <1>5
<1> QED BY <1>2, <1>3, <1>6, <1>7 DEF UndoWrites

LEMMA BaseUndoes ==
  ASSUME FilesInv, Base, NEW t, NEW s, NEW a \in {0, 1}, NEW b \in {0, 1}, NEW d \in {0, 1},
         NEW e \in {0, 1}, UndoesStep(t, s, d, a, b, e)
  PROVE  Base'
<1>1. PICK f : f = State[t] OBVIOUS
<1>2. PICK r : r = Now[f] OBVIOUS
<1>3. PICK z : z = [s EXCEPT !.phase = "rolledback"] OBVIOUS
<1>4. /\ tx' \in [id : Nat, state : States \cup {None}, applying : BOOLEAN]
      /\ tx'.id = tx.id /\ ~tx'.applying
      /\ f \in Paths \ Links /\ \A u \in Txs : u # t => State[u] # f
      /\ r \in Proper /\ r # None /\ r.prev = s.prev /\ r.gen = s.gen /\ (Late(r) => Late(s))
      /\ z \in Proper /\ z \in States /\ z.prev = s.prev /\ z.gen = s.gen /\ Late(z)
      /\ s.prev \in Generations \cup {None} /\ Settles /\ Recorded(t, r)
  BY <1>1, <1>2, <1>3, Undone
<1> todo' \in Seq([path : Paths, value : Values \cup {None}]) BY DEF UndoesStep, Undoes
<1>5. /\ UNCHANGED <<Now, Safe>> /\ Remembers /\ t \in Txs /\ s \in Proper /\ s \in States
      /\ job'[Root] = Idle
  BY DEF UndoesStep
<1>6. \A k \in 1..Len(todo') :
         \/ todo'[k].path = f /\ todo'[k].value \in {s, z}
         \/ todo'[k].path \in {Selector, Ownership} /\ todo'[k].value = s.prev
  <2>1. UndoWrites(todo', f, s, z, d, a, b, e) BY <1>1, <1>3, UndoneWrites
  <2> QED BY <2>1 DEF UndoWrites
<1>7. \A u \in Txs : u # t => \A k \in 1..Len(todo') : ~Writes(k, State[u])'
  BY <1>1, <1>4, <1>6, OwnNames DEF Writes
<1>8. TypeInv'
  <2>1. \A q \in Paths : FileOK(q, Now'[q]) /\ FileOK(q, Safe'[q])
    BY <1>5 DEF Base, TypeInv
  <2>2. FileOK(f, s) /\ FileOK(f, z) /\ FileOK(Selector, s.prev) /\ FileOK(Ownership, s.prev)
    BY <1>1, <1>4, <1>5, OwnNames DEF FileOK
  <2>3. s # None /\ z # None BY <1>4, <1>5, NoneIsNothing
  <2>4. \A k \in 1..Len(todo') : /\ FileOK(todo'[k].path, todo'[k].value)
                                 /\ todo'[k].value = None => todo'[k].path \in Links
    BY <1>6, <2>2, <2>3, OwnNames
  <2> QED BY <1>4, <2>1, <2>4 DEF TypeInv
<1>9. JobInv' BY <1>5 DEF JobInv, HalfSaved, Idle
<1>10. FirmInv' BY DEF Base, FirmInv, UndoesStep, Remembers
<1>11. SeenInv' BY <1>5 DEF Base, SeenInv
<1>12. FreshInv'
  <2>1. ~(t > tx.id) BY <1>1, <1>2, <1>4, <1>5 DEF Base, FreshInv
  <2> QED BY <1>4, <1>5, <1>7, <2>1 DEF Base, FreshInv
<1>13. ChainInv'
  <2>1. ASSUME NEW k \in 1..Len(todo'), todo'[k].path = f
        PROVE  /\ Continues(r, todo'[k].value)
               /\ \A j \in 1..(k - 1) : todo'[j].path = f => Continues(todo'[j].value, todo'[k].value)
    <3>0. UndoWrites(todo', f, s, z, d, a, b, e) BY <1>1, <1>3, UndoneWrites
    <3>1. todo'[k].value \in {s, z} BY <2>1, <3>0 DEF UndoWrites
    <3>2. Continues(r, s) /\ Continues(r, z) /\ Continues(s, s) /\ Continues(s, z)
      BY <1>4 DEF Continues
    <3>3. ASSUME NEW j \in 1..(k - 1), todo'[j].path = f PROVE todo'[j].value = s
      <4>1. j \in 1..Len(todo') /\ j # Len(todo') OBVIOUS
      <4> QED BY <3>0, <3>3, <4>1 DEF UndoWrites
    <3> QED BY <3>1, <3>2, <3>3
  <2>2. ASSUME NEW u \in Txs, Safe[State[u]] # None PROVE Continues(Safe[State[u]], Now[State[u]])
    BY <2>2 DEF Base, ChainInv
  <2> QED BY <1>1, <1>2, <1>4, <1>5, <1>7, <2>1, <2>2 DEF ChainInv, Writes
<1>14. ApplyingInv' BY <1>4 DEF ApplyingInv
<1>15. DirInv'
  <2>1. \A u \in Txs : Now[State[u]] # None => Safe[TxDir[u]] # None BY DEF Base, DirInv
  <2>2. Safe[TxDir[t]] # None BY <1>1, <1>2, <1>4, <1>5, <2>1
  <2> QED BY <1>5, <1>7, <2>1, <2>2 DEF DirInv
<1>16. ASSUME NEW u \in Txs, NEW x \in Proper, Recorded(u, x)'
       PROVE  Recorded(u, x) \/ x.prev = r.prev
  <2>1. CASE u = t
    BY <1>1, <1>2, <1>4, <1>5, <1>6, <1>16, <2>1, OwnNames DEF Recorded, Writes
  <2>2. CASE u # t BY <1>4, <1>5, <1>7, <1>16, <2>2 DEF Recorded
  <2> QED BY <2>1, <2>2
<1>17. ASSUME NEW g \in Generations, NEW k \in 1..Len(todo'), todo'[k] = Put(Selector, g)
       PROVE  g = r.prev /\ r.prev # None
  BY <1>4, <1>6, <1>17, OwnNames, PutHolds, NoneIsNothing
<1>18. r.prev # None => r.prev \in Generations /\ HasGen(r.prev)' /\ Covered(r.prev)'
  <2>1. r.prev # None => r.prev \in Generations /\ HasGen(r.prev) /\ Covered(r.prev)
    BY <1>4, <1>5 DEF Base, GenInv, SelectedInv
  <2> QED BY <1>4, <1>5, <2>1, DiskGrows
<1>19. \A g \in Generations : (HasGen(g) => HasGen(g)') /\ (Covered(g) => Covered(g)')
  BY <1>4, <1>5, DiskGrows
<1>20. \A x \in Proper : x.prev # None => x.prev \in Generations BY DEF Proper, States
<1>21. GenInv'
  <2>1. ASSUME NEW u \in Txs, NEW x \in Proper, Recorded(u, x)', x.prev # None PROVE HasGen(x.prev)'
    BY <1>16, <1>18, <1>19, <1>20, <2>1 DEF Base, GenInv
  <2>2. ASSUME NEW g \in Generations, g \in {Now'[Selector], Safe'[Selector]} PROVE HasGen(g)'
    BY <1>5, <1>19, <2>2 DEF Base, GenInv
  <2>3. ASSUME NEW g \in Generations, NEW k \in 1..Len(todo'), todo'[k] = Put(Selector, g)
        PROVE HasGen(g)'
    BY <1>17, <1>18, <2>3
  <2> QED BY <2>1, <2>2, <2>3 DEF GenInv
<1>22. SelectedInv'
  <2>1. ASSUME NEW u \in Txs, NEW x \in Proper, Recorded(u, x)', x.prev # None PROVE Covered(x.prev)'
    BY <1>16, <1>18, <1>19, <1>20, <2>1 DEF Base, SelectedInv
  <2>2. ASSUME NEW g \in Generations, g \in {Now'[Selector], Safe'[Selector]} PROVE Covered(g)'
    BY <1>5, <1>19, <2>2 DEF Base, SelectedInv
  <2>3. ASSUME NEW g \in Generations, NEW k \in 1..Len(todo'), todo'[k] = Put(Selector, g)
        PROVE Covered(g)'
    BY <1>17, <1>18, <2>3
  <2> QED BY <2>1, <2>2, <2>3 DEF SelectedInv
<1> QED BY <1>8, <1>9, <1>10, <1>11, <1>12, <1>13, <1>14, <1>15, <1>21, <1>22 DEF Base

LEMMA LastUndoes ==
  ASSUME FilesInv, Base, LastInv, Firm', NEW t, NEW s, NEW a \in {0, 1}, NEW b \in {0, 1},
         NEW d \in {0, 1}, NEW e \in {0, 1}, UndoesStep(t, s, d, a, b, e)
  PROVE  LastInv'
<1>1. PICK f : f = State[t] OBVIOUS
<1>2. PICK r : r = Now[f] OBVIOUS
<1>3. PICK z : z = [s EXCEPT !.phase = "rolledback"] OBVIOUS
<1>4. /\ tx'.id = tx.id /\ ~tx'.applying
      /\ f \in Paths \ Links /\ \A u \in Txs : u # t => State[u] # f
      /\ r \in Proper /\ r # None /\ r.prev = s.prev /\ r.gen = s.gen /\ (Late(r) => Late(s))
      /\ ~Decided(r) /\ ~Decided(s)
      /\ z.prev = s.prev /\ z.gen = s.gen /\ z.phase = "rolledback"
      /\ s.phase \in Phases /\ s.prev # s.gen /\ Recorded(t, r)
  BY <1>1, <1>2, <1>3, Undone
<1> /\ Len(todo') = d + a + b + e
    /\ e = 1 /\ Mutated(s) /\ a = 0 => Now[Selector] = s.prev
  BY DEF UndoesStep, Undoes
<1>5. UNCHANGED <<Now, Safe>> /\ Remembers /\ t \in Txs /\ (d = 0 => s = r)
  BY <1>1, <1>2 DEF UndoesStep
<1>6. \A u \in Txs : Now[State[u]] = Safe[State[u]]
  BY OwnNames DEF Base, FirmInv, Firm, UndoesStep, Remembers
<1>7. t = tx.id BY <1>1, <1>2, <1>4, <1>5 DEF LastInv, OthersInv
<1>8. Safe[f] = r BY <1>1, <1>2, <1>5, <1>6
<1>9. /\ \A k \in 1..Len(todo') :
           \/ d = 1 /\ k = 1 /\ todo'[k].path = f /\ todo'[k].value = s
           \/ todo'[k].path = Selector /\ todo'[k].value = s.prev /\ a = 1
           \/ todo'[k].path = Ownership /\ todo'[k].value = s.prev
           \/ todo'[k].path = f /\ todo'[k].value = z /\ e = 1 /\ k = Len(todo')
      /\ a = 1 => /\ d + 1 \in 1..(Len(todo') - 1) /\ d + 1 \in 1..Len(todo')
                  /\ todo'[d + 1].path = Selector
      /\ \A k \in 1..Len(todo') : todo'[k].path = f =>
           \/ d = 1 /\ k = 1 /\ todo'[k].value = s
           \/ e = 1 /\ k = Len(todo') /\ todo'[k].value = z
      /\ \A k \in 1..Len(todo') : todo'[k].path \in Links =>
           todo'[k].value = s.prev /\ Mutated(s) /\ k > d
  <2>1. UndoWrites(todo', f, s, z, d, a, b, e) BY <1>1, <1>3, UndoneWrites
  <2> QED BY <2>1 DEF UndoWrites
<1>10. OthersInv'
  <2>1. ASSUME NEW u \in Txs, u # t, NEW k \in 1..Len(todo') PROVE todo'[k].path # State[u]
    BY <1>4, <1>9, <2>1, OwnNames
  <2> QED BY <1>4, <1>5, <1>6, <1>7, <2>1 DEF LastInv, OthersInv, Writes
<1>11. AheadInv'
  <2> SUFFICES ASSUME NEW k \in 1..Len(todo'), todo'[k].path \in Links
               PROVE  \/ SaysMutated'
                      \/ \E j \in 1..(k - 1) : Writes(j, f)' /\ Late(todo'[j].value)
    BY <1>1, <1>4, <1>5, <1>7 DEF AheadInv, Writes
  <2>1. Late(s) /\ k > d BY <1>9 DEF Mutated, Late
  <2>2. CASE d = 0 BY <1>1, <1>4, <1>5, <1>7, <1>8, <2>1, <2>2 DEF SaysMutated
  <2>3. CASE d = 1
    <3>1. 1 \in 1..(k - 1) /\ 1 \in 1..Len(todo') BY <2>1, <2>3
    <3>2. todo'[1].path = f /\ todo'[1].value = s
      <4>1. todo'[1] = Put(f, s) BY <1>1, <2>3 DEF UndoesStep, Undoes
      <4> QED BY <4>1, PutHolds
    <3> QED BY <2>1, <3>1, <3>2 DEF Writes
  <2> QED BY <2>2, <2>3
<1>12. ASSUME NEW x, NEW y, x.prev = y.prev, Restored(x) PROVE Restored(y)'
  BY <1>5, <1>12, OwnNames DEF Restored, Remembers
<1>13. SaysMutated' <=> SaysMutated BY <1>4, <1>5 DEF SaysMutated
<1>14. ~SaysMutated /\ s.prev # None => Restored(r)
  BY <1>4, <1>5, <1>7 DEF LastInv, UntouchedInv
<1>15. UntouchedInv'
  <2>1. ASSUME NEW x \in Proper, Recorded(t, x)' PROVE x.prev = r.prev
    BY <1>1, <1>2, <1>4, <1>5, <1>9, <2>1 DEF Recorded, Writes
  <2>2. ASSUME NEW x \in Proper, ~SaysMutated', Recorded(t, x)', x.prev # None PROVE Restored(x)'
    BY <1>4, <1>12, <1>13, <1>14, <2>1, <2>2
  <2> QED BY <1>4, <1>7, <2>2 DEF UntouchedInv, Recorded
<1>16. KeptInv'
  <2>1. \A i : NotAgain(i, s.gen)'
    BY <1>4, <1>9 DEF NotAgain
  <2>2. r.phase = "activated" => \A q \in Links : Kept(q, s.gen)'
    BY <1>1, <1>2, <1>4, <1>5, <1>7 DEF LastInv, KeptInv, Kept
  <2>3. ASSUME NEW k \in 1..Len(todo'), Writes(k, f)', todo'[k].value.phase = "activated"
        PROVE  todo'[k].value = s /\ \A q \in Links : Kept(q, s.gen)'
    <3>1. todo'[k].value = s /\ d = 1 BY <1>4, <1>9, <2>3 DEF Writes
    <3>2. tx.applying /\ tx.state = s /\ s.phase = "activated" BY <2>3, <3>1 DEF UndoesStep
    <3>3. \A q \in Links : Kept(q, s.gen) BY <1>5, <1>7, <3>2 DEF LastInv, KeptInv
    <3> QED BY <1>5, <3>1, <3>3 DEF Kept
  <2>4. State[tx'.id] = f /\ Now'[f] = r /\ Safe'[f] = r BY <1>1, <1>2, <1>4, <1>5, <1>7, <1>8
  <2> QED BY <1>4, <2>1, <2>2, <2>3, <2>4 DEF KeptInv, Kept, NotAgain, Writes
<1>17. DecidedInv'
  <2>1. ASSUME e = 1, a = 0, s.prev # None PROVE Restored(s)'
    <3>1. CASE Mutated(s)
      <4>1. Now[Selector] = s.prev BY <1>4, <2>1, <3>1
      <4> QED BY <1>5, <2>1, <4>1, OwnNames
              DEF Base, FirmInv, Restored, UndoesStep, Remembers
    <3>2. CASE ~Mutated(s)
      <4>1. ~Late(s) BY <1>4, <3>2 DEF Mutated, Late, Decided, Phases
      <4>2. ~SaysMutated BY <1>1, <1>4, <1>7, <1>8, <4>1 DEF SaysMutated
      <4> QED BY <1>4, <1>12, <1>14, <2>1, <4>2
    <3> QED BY <3>1, <3>2
  <2>2. ASSUME NEW k \in 1..Len(todo'), Writes(k, f)', NEW x, x = todo'[k].value, Decided(x)
        PROVE  k = Len(todo') /\ x.phase = "rolledback" /\ Restoring(k, x)'
    <3>1. k = Len(todo') /\ x = z /\ e = 1 BY <1>4, <1>9, <2>2 DEF Writes
    <3>2. \A j \in 1..Len(todo') : Writes(j, Selector)' => a = 1 /\ todo'[j].value = s.prev
      BY <1>4, <1>9, OwnNames, FilesAssumption DEF Writes
    <3>3. a = 1 => \E j \in 1..(k - 1) : Writes(j, Selector)'
      BY <1>9, <3>1 DEF Writes
    <3>4. \A j \in 1..(k - 1) : j \in 1..Len(todo') OBVIOUS
    <3>5. CASE a = 1 BY <1>4, <3>1, <3>2, <3>3, <3>4, <3>5 DEF Restoring
    <3>6. CASE a = 0
      <4>1. s.prev # None => Restored(x)' BY <1>4, <2>1, <3>1, <3>6 DEF Restored
      <4> QED BY <1>4, <3>1, <3>2, <3>4, <3>6, <4>1 DEF Restoring
    <3> QED BY <1>4, <3>1, <3>5, <3>6
  <2>3. State[tx'.id] = f /\ Now'[f] = r /\ Safe'[f] = r BY <1>1, <1>2, <1>4, <1>5, <1>7, <1>8
  <2> QED BY <1>4, <2>2, <2>3 DEF DecidedInv, Restoring, Restored, Writes
<1> QED BY <1>10, <1>11, <1>15, <1>16, <1>17 DEF LastInv

\* What apply has to write: d, the generation, when it is not there yet.
AppliesStep(t, s, d) ==
  /\ UNCHANGED <<Now, Safe, job, slipped>> /\ job[Root] = Idle /\ todo = <<>>
  /\ s \in Proper /\ s \in States /\ s.phase = "prepared" /\ t \in Txs /\ t = tx.id + 1
  /\ s.prev \in {None, Now[Selector]}
  /\ \A u \in Txs : Now[State[u]] # None => Decided(Now[State[u]])
  /\ tx' = [id |-> t, state |-> s, applying |-> TRUE]
  /\ todo' \in Seq([path : Paths, value : Values \cup {None}]) /\ Len(todo') = d + 7
  /\ IF d = 1 THEN todo'[1] = Put(GenDir[s.gen], s.gen) ELSE Now[GenDir[s.gen]] = s.gen
  /\ todo'[d + 1] = Put(TxDir[t], s.gen)
  /\ todo'[d + 2] = Put(State[t], s)
  /\ todo'[d + 3] = Put(State[t], [s EXCEPT !.phase = "armed"])
  /\ todo'[d + 4] = Put(State[t], [s EXCEPT !.phase = "activating"])
  /\ todo'[d + 5] = Put(Selector, s.gen)
  /\ todo'[d + 6] = Put(Ownership, s.gen)
  /\ todo'[d + 7] = Put(State[t], [s EXCEPT !.phase = "activated"])

ApplyWritesThen(w, f, t, s, d) ==
  /\ Len(w) = d + 7
  /\ \A k \in 1..Len(w) :
       \/ d = 1 /\ k = 1 /\ w[k].path = GenDir[s.gen] /\ w[k].value = s.gen
       \/ k = d + 1 /\ w[k].path = TxDir[t] /\ w[k].value = s.gen
       \/ k \in {d + 5, d + 6} /\ w[k].path \in Links /\ w[k].value = s.gen
       \/ k \in {d + 2, d + 3, d + 4, d + 7} /\ w[k].path = f
  \* The states of the journal, in their order.
  /\ \A k \in 1..Len(w) : w[k].path = f =>
       /\ k > d + 1 /\ w[k].value \in Proper
       /\ w[k].value.gen = s.gen /\ w[k].value.prev = s.prev
       /\ ~Decided(w[k].value) /\ (Late(w[k].value) <=> k > d + 3)
       /\ w[k].value.phase = "activated" => k = d + 7
  /\ \A k \in 1..Len(w) : w[k].path \in Links => k > d + 4 /\ k < d + 7 /\ w[k].value = s.gen
  /\ d + 1 \in 1..Len(w) /\ w[d + 1].path = TxDir[t]
  /\ d + 4 \in 1..Len(w) /\ w[d + 4].path = f
  /\ w[d + 4].value.gen = s.gen /\ Late(w[d + 4].value) /\ w[d + 4].value # None
  /\ d + 5 \in 1..Len(w) /\ w[d + 5].path = Selector
  /\ d + 6 \in 1..Len(w) /\ w[d + 6].path = Ownership
  /\ IF d = 1 THEN 1 \in 1..Len(w) /\ w[1].path = GenDir[s.gen] ELSE Now[GenDir[s.gen]] = s.gen

LEMMA AppliesWrites ==
  ASSUME FilesInv, Base, NEW t, NEW s, NEW d \in {0, 1}, AppliesStep(t, s, d), NEW f, f = State[t]
  PROVE  ApplyWritesThen(todo', f, t, s, d)
<1> DEFINE In(ph) == [s EXCEPT !.phase = ph]
<1>1. AppliesStep(t, s, d) /\ s \in States /\ s \in Proper /\ t \in Txs BY DEF AppliesStep
<1>2. /\ f \in Paths \ Links /\ TxDir[t] \in Paths \ Links /\ GenDir[s.gen] \in Paths \ Links
      /\ f # TxDir[t] /\ f # GenDir[s.gen] /\ Selector \in Links /\ Ownership \in Links
      /\ s.gen \in Generations /\ s.prev \in Generations \cup {None} /\ s.prev # s.gen
  BY <1>1, FilesAssumption, OwnNames DEF States, Proper
<1>3. \A ph \in Phases : /\ In(ph) \in Proper /\ In(ph).phase = ph
                         /\ In(ph).gen = s.gen /\ In(ph).prev = s.prev
  BY <1>1, <1>2 DEF States, Proper
<1>4. {"armed", "activating", "activated"} \subseteq Phases BY DEF Phases
<1>5. ~Decided(s) /\ ~Late(s) /\ s.phase # "activated" BY <1>1 DEF Decided, Late, AppliesStep
<1>6. /\ ~Decided(In("armed")) /\ ~Late(In("armed")) /\ In("armed").phase # "activated"
      /\ ~Decided(In("activating")) /\ Late(In("activating")) /\ In("activating").phase # "activated"
      /\ ~Decided(In("activated")) /\ Late(In("activated"))
  BY <1>3, <1>4 DEF Decided, Late
<1>7. /\ Len(todo') = d + 7
      /\ IF d = 1 THEN todo'[1].path = GenDir[s.gen] /\ todo'[1].value = s.gen
                  ELSE Now[GenDir[s.gen]] = s.gen
      /\ todo'[d + 1].path = TxDir[t] /\ todo'[d + 1].value = s.gen
      /\ todo'[d + 2].path = f /\ todo'[d + 2].value = s
      /\ todo'[d + 3].path = f /\ todo'[d + 3].value = In("armed")
      /\ todo'[d + 4].path = f /\ todo'[d + 4].value = In("activating")
      /\ todo'[d + 5].path = Selector /\ todo'[d + 5].value = s.gen
      /\ todo'[d + 6].path = Ownership /\ todo'[d + 6].value = s.gen
      /\ todo'[d + 7].path = f /\ todo'[d + 7].value = In("activated")
  BY <1>1, PutHolds DEF AppliesStep
<1> HIDE DEF In
<1>8. \A k \in 1..Len(todo') :
        (d = 1 /\ k = 1) \/ k = d + 1 \/ k = d + 2 \/ k = d + 3
        \/ k = d + 4 \/ k = d + 5 \/ k = d + 6 \/ k = d + 7
  BY <1>7
<1>9. \A k \in 1..Len(todo') :
        \/ d = 1 /\ k = 1 /\ todo'[k].path = GenDir[s.gen] /\ todo'[k].value = s.gen
        \/ k = d + 1 /\ todo'[k].path = TxDir[t] /\ todo'[k].value = s.gen
        \/ k = d + 2 /\ todo'[k].path = f /\ todo'[k].value = s
        \/ k = d + 3 /\ todo'[k].path = f /\ todo'[k].value = In("armed")
        \/ k = d + 4 /\ todo'[k].path = f /\ todo'[k].value = In("activating")
        \/ k = d + 5 /\ todo'[k].path \in Links /\ todo'[k].value = s.gen
        \/ k = d + 6 /\ todo'[k].path \in Links /\ todo'[k].value = s.gen
        \/ k = d + 7 /\ todo'[k].path = f /\ todo'[k].value = In("activated")
  BY <1>2, <1>7, <1>8
<1>10. \A k \in 1..Len(todo') :
         \/ d = 1 /\ k = 1 /\ todo'[k].path = GenDir[s.gen] /\ todo'[k].value = s.gen
         \/ k = d + 1 /\ todo'[k].path = TxDir[t] /\ todo'[k].value = s.gen
         \/ k \in {d + 5, d + 6} /\ todo'[k].path \in Links /\ todo'[k].value = s.gen
         \/ k \in {d + 2, d + 3, d + 4, d + 7} /\ todo'[k].path = f
  BY <1>9
<1>11. ASSUME NEW k \in 1..Len(todo'), todo'[k].path = f
       PROVE  /\ k > d + 1 /\ todo'[k].value \in Proper
              /\ todo'[k].value.gen = s.gen /\ todo'[k].value.prev = s.prev
              /\ ~Decided(todo'[k].value) /\ (Late(todo'[k].value) <=> k > d + 3)
              /\ todo'[k].value.phase = "activated" => k = d + 7
  <2>1. \/ k = d + 2 /\ todo'[k].value = s
        \/ k = d + 3 /\ todo'[k].value = In("armed")
        \/ k = d + 4 /\ todo'[k].value = In("activating")
        \/ k = d + 7 /\ todo'[k].value = In("activated")
    BY <1>2, <1>9, <1>11
  <2>2. k \in Nat /\ Len(todo') \in Nat BY <1>7
  <2> QED BY <1>1, <1>3, <1>4, <1>5, <1>6, <2>1, <2>2
<1>12. \A k \in 1..Len(todo') : todo'[k].path \in Links =>
         k > d + 4 /\ k < d + 7 /\ todo'[k].value = s.gen
  BY <1>2, <1>9
<1>13. /\ d + 1 \in 1..Len(todo') /\ d + 4 \in 1..Len(todo')
       /\ d + 5 \in 1..Len(todo') /\ d + 6 \in 1..Len(todo')
       /\ d = 1 => 1 \in 1..Len(todo')
  BY <1>7
<1>14. In("activating") # None BY <1>3, <1>4, NoneIsNothing
<1> QED BY <1>3, <1>4, <1>6, <1>7, <1>10, <1>11, <1>12, <1>13, <1>14 DEF ApplyWritesThen

LEMMA BaseApplies ==
  ASSUME FilesInv, Base, NEW t, NEW s, NEW d \in {0, 1}, AppliesStep(t, s, d)
  PROVE  Base'
<1>0. PICK f : f = State[t] OBVIOUS
<1>1. ApplyWritesThen(todo', f, t, s, d) BY <1>0, AppliesWrites
<1>2. /\ UNCHANGED <<Now, Safe, job, slipped>> /\ job[Root] = Idle /\ todo = <<>>
      /\ s \in Proper /\ s \in States /\ s.phase = "prepared" /\ t \in Txs /\ t = tx.id + 1
      /\ s.prev \in {None, Now[Selector]}
      /\ tx' = [id |-> t, state |-> s, applying |-> TRUE]
      /\ todo' \in Seq([path : Paths, value : Values \cup {None}])
  BY DEF AppliesStep
<1>3. /\ tx'.id = t /\ tx'.state = s /\ tx'.applying
      /\ tx.id \in Nat /\ t \in Nat /\ t > tx.id /\ ~tx.applying
      /\ tx' \in [id : Nat, state : States \cup {None}, applying : BOOLEAN]
  BY <1>2, OwnNames DEF Base, TypeInv
<1>4. /\ f \in Paths \ Links /\ \A u \in Txs : u # t => State[u] # f
      /\ TxDir[t] \in Paths \ Links /\ GenDir[s.gen] \in Paths \ Links
      /\ \A u \in Txs : State[u] \notin Links /\ State[u] # TxDir[t] /\ State[u] # GenDir[s.gen]
      /\ s.gen \in Generations /\ s.prev \in Generations \cup {None} /\ Selector \in Links
      /\ Ownership \in Links /\ Links \subseteq Paths
  BY <1>0, <1>2, FilesAssumption, OwnNames DEF States
<1>5. Now[f] = None /\ Safe[f] = None BY <1>0, <1>2, <1>3 DEF Base, FreshInv
<1>6. ~HalfSaved BY <1>2 DEF HalfSaved, Idle
<1>7. \A u \in Txs : u # t => \A k \in 1..Len(todo') : ~Writes(k, State[u])'
  BY <1>1, <1>4 DEF ApplyWritesThen, Writes
<1>8. \A k \in 1..Len(todo') : todo'[k].path = f =>
        /\ todo'[k].value \in Proper /\ todo'[k].value # None /\ ~Decided(todo'[k].value)
        /\ todo'[k].value.prev = s.prev
  BY <1>1, NoneIsNothing DEF ApplyWritesThen
<1>9. TypeInv'
  <2>1. \A q \in Paths : FileOK(q, Now'[q]) /\ FileOK(q, Safe'[q]) BY <1>2 DEF Base, TypeInv
  <2>2. /\ FileOK(GenDir[s.gen], s.gen) /\ FileOK(TxDir[t], s.gen)
        /\ \A q \in Links : FileOK(q, s.gen)
        /\ \A x \in Proper : FileOK(f, x)
    BY <1>0, <1>2, <1>4 DEF FileOK
  <2>3. \A k \in 1..Len(todo') : FileOK(todo'[k].path, todo'[k].value) /\ todo'[k].value # None
    BY <1>1, <1>4, <1>8, <2>2, NoneIsNothing DEF ApplyWritesThen
  <2>4. todo' # <<>> BY <1>1 DEF ApplyWritesThen
  <2> QED BY <1>2, <1>3, <2>1, <2>3, <2>4 DEF TypeInv
<1>10. JobInv' BY <1>2 DEF JobInv, HalfSaved, Idle
<1>11. FirmInv' BY <1>2, <1>6 DEF Base, FirmInv
<1>12. SeenInv' BY <1>2 DEF Base, SeenInv
<1>13. FreshInv'
  <2> SUFFICES ASSUME NEW u \in Txs, u > t
      PROVE  /\ Now[State[u]] = None /\ Safe[State[u]] = None
             /\ \A k \in 1..Len(todo') : ~Writes(k, State[u])'
    BY <1>2, <1>3 DEF FreshInv
  <2>1. u \in Nat /\ u # t /\ u > tx.id BY <1>3, OwnNames
  <2> QED BY <1>7, <2>1 DEF Base, FreshInv
<1>14. ChainInv'
  <2>1. ASSUME NEW k \in 1..Len(todo'), todo'[k].path = f
        PROVE  /\ Continues(s, todo'[k].value)
               /\ \A j \in 1..(k - 1) : todo'[j].path = f => Continues(todo'[j].value, todo'[k].value)
    <3>1. Continues(s, todo'[k].value) BY <1>1, <1>2, <2>1 DEF Continues, Late, ApplyWritesThen
    <3>2. ASSUME NEW j \in 1..(k - 1), todo'[j].path = f
          PROVE  Continues(todo'[j].value, todo'[k].value)
      <4>1. j \in 1..Len(todo') /\ j < k OBVIOUS
      <4> QED BY <1>1, <2>1, <3>2, <4>1 DEF Continues, ApplyWritesThen
    <3> QED BY <3>1, <3>2
  <2>2. ASSUME NEW u \in Txs, Safe[State[u]] # None PROVE Continues(Safe[State[u]], Now[State[u]])
    BY <2>2 DEF Base, ChainInv
  <2> QED BY <1>0, <1>2, <1>3, <1>5, <1>7, <2>1, <2>2 DEF ChainInv, Writes
<1>15. ApplyingInv'
  <2>1. \A k \in 1..Len(todo') : todo'[k].value # None
    BY <1>1, <1>4, <1>8, NoneIsNothing DEF ApplyWritesThen
  <2>2. ~Decided(s) BY <1>2 DEF Decided
  <2> QED BY <1>0, <1>2, <1>3, <1>5, <1>8, <2>1, <2>2 DEF ApplyingInv, Writes
<1>16. DirInv'
  <2>1. ASSUME NEW k \in 1..Len(todo'), todo'[k].path = f
        PROVE  \E j \in 1..(k - 1) : Writes(j, TxDir[t])'
    <3>1. d + 1 \in 1..(k - 1) /\ d + 1 \in 1..Len(todo') /\ todo'[d + 1].path = TxDir[t]
      BY <1>1, <2>1 DEF ApplyWritesThen
    <3> QED BY <3>1 DEF Writes
  <2>2. \A u \in Txs : Now[State[u]] # None => Safe[TxDir[u]] # None BY DEF Base, DirInv
  <2> QED BY <1>0, <1>2, <1>5, <1>7, <2>1, <2>2 DEF DirInv, Writes
<1>17. \A g : (HasGen(g)' <=> HasGen(g)) /\ (Covered(g)' <=> Covered(g))
  BY <1>2 DEF HasGen, Covered
<1>18. ASSUME NEW u \in Txs, NEW x \in Proper, Recorded(u, x)'
       PROVE  Recorded(u, x) \/ x.prev = s.prev
  <2>1. CASE u = t BY <1>0, <1>2, <1>3, <1>5, <1>8, <1>18, <2>1 DEF Recorded, Writes
  <2>2. CASE u # t BY <1>2, <1>3, <1>7, <1>18, <2>2 DEF Recorded
  <2> QED BY <2>1, <2>2
<1>19. s.prev # None => HasGen(s.prev) /\ Covered(s.prev)
  BY <1>2, <1>4 DEF Base, GenInv, SelectedInv
<1>20. ASSUME NEW g \in Generations, NEW k \in 1..Len(todo'), todo'[k] = Put(Selector, g)
       PROVE  g = s.gen /\ k > d + 4
  <2>1. todo'[k].path = Selector /\ todo'[k].value = g BY <1>20, PutHolds
  <2> QED BY <1>1, <1>4, <2>1 DEF ApplyWritesThen
<1>21. GenInv'
  <2>1. ASSUME NEW g \in Generations, NEW k \in 1..Len(todo'), todo'[k] = Put(Selector, g)
        PROVE  HasGen(g) \/ \E j \in 1..(k - 1) : Writes(j, GenDir[g])'
    <3>1. CASE d = 0
      <4>1. Now[GenDir[g]] = g BY <1>1, <1>20, <2>1, <3>1 DEF ApplyWritesThen
      <4> QED BY <1>4, <1>6, <1>20, <2>1, <4>1 DEF Base, FirmInv, HasGen
    <3>2. CASE d = 1
      <4>1. 1 \in 1..(k - 1) /\ 1 \in 1..Len(todo') /\ todo'[1].path = GenDir[g]
        BY <1>1, <1>20, <2>1, <3>2 DEF ApplyWritesThen
      <4> QED BY <4>1 DEF Writes
    <3> QED BY <3>1, <3>2
  <2>2. ASSUME NEW u \in Txs, NEW x \in Proper, Recorded(u, x)', x.prev # None PROVE HasGen(x.prev)
    BY <1>18, <1>19, <2>2 DEF Base, GenInv
  <2> QED BY <1>2, <1>17, <2>1, <2>2 DEF Base, GenInv
<1>22. SelectedInv'
  <2>1. ASSUME NEW g \in Generations, NEW k \in 1..Len(todo'), todo'[k] = Put(Selector, g)
        PROVE  \E j \in 1..(k - 1) : Writes(j, State[t])' /\ Covers(todo'[j].value, g)
    <3>1. d + 4 \in 1..(k - 1) /\ g = s.gen BY <1>20, <2>1
    <3>2. d + 4 \in 1..Len(todo') /\ todo'[d + 4].path = f /\ Covers(todo'[d + 4].value, g)
      BY <1>1, <3>1 DEF Covers, ApplyWritesThen
    <3> QED BY <1>0, <3>1, <3>2 DEF Writes
  <2>2. ASSUME NEW u \in Txs, NEW x \in Proper, Recorded(u, x)', x.prev # None PROVE Covered(x.prev)
    BY <1>18, <1>19, <2>2 DEF Base, SelectedInv
  <2> QED BY <1>2, <1>17, <2>1, <2>2 DEF Base, SelectedInv
<1> QED BY <1>9, <1>10, <1>11, <1>12, <1>13, <1>14, <1>15, <1>16, <1>21, <1>22 DEF Base

LEMMA LastApplies ==
  ASSUME FilesInv, Base, Firm, NEW t, NEW s, NEW d \in {0, 1}, AppliesStep(t, s, d)
  PROVE  LastInv'
<1>0. PICK f : f = State[t] OBVIOUS
<1>1. ApplyWritesThen(todo', f, t, s, d) BY <1>0, AppliesWrites
<1>2. /\ UNCHANGED <<Now, Safe, slipped>> /\ s.phase = "prepared" /\ t \in Txs /\ t = tx.id + 1
      /\ s.prev \in {None, Now[Selector]} /\ tx' = [id |-> t, state |-> s, applying |-> TRUE]
      /\ \A u \in Txs : Now[State[u]] # None => Decided(Now[State[u]])
      /\ s \in States
  BY DEF AppliesStep
<1>3. tx'.id = t /\ tx'.state = s /\ tx'.applying BY <1>2
<1>4. /\ f \in Paths \ Links /\ \A u \in Txs : u # t => State[u] # f
      /\ \A u \in Txs : State[u] \notin Links /\ State[u] # TxDir[t] /\ State[u] # GenDir[s.gen]
      /\ Selector \in Links /\ Links = {Selector, Ownership}
  BY <1>0, <1>2, FilesAssumption, OwnNames DEF States, Links
<1>5. Now[f] = None /\ Safe[f] = None
  <2>1. tx.id \in Nat /\ t \in Nat /\ t > tx.id BY <1>2, OwnNames DEF Base, TypeInv
  <2> QED BY <1>0, <1>2, <2>1 DEF Base, FreshInv
<1>6. ~HalfSaved BY DEF HalfSaved, Idle, AppliesStep
<1>7. OthersInv'
  <2>1. \A u \in Txs : Now[State[u]] = Safe[State[u]]
    BY <1>6, OwnNames DEF Base, FirmInv, Firm
  <2>2. \A u \in Txs : u # t => \A k \in 1..Len(todo') : ~Writes(k, State[u])'
    BY <1>1, <1>4 DEF ApplyWritesThen, Writes
  <2> QED BY <1>2, <1>3, <2>1, <2>2 DEF OthersInv
<1>8. AheadInv'
  <2>1. ASSUME NEW k \in 1..Len(todo'), todo'[k].path \in Links
        PROVE  \E j \in 1..(k - 1) : Writes(j, f)' /\ Late(todo'[j].value)
    <3>1. /\ d + 4 \in 1..(k - 1) /\ d + 4 \in 1..Len(todo') /\ todo'[d + 4].path = f
          /\ Late(todo'[d + 4].value)
      BY <1>1, <2>1 DEF ApplyWritesThen
    <3> QED BY <3>1 DEF Writes
  <2> QED BY <1>0, <1>2, <1>3, <2>1 DEF AheadInv, Writes
<1>9. UntouchedInv'
  <2>1. ASSUME NEW x \in Proper, Recorded(t, x)' PROVE x.prev = s.prev
    <3>1. \A k \in 1..Len(todo') : todo'[k].path = f => todo'[k].value.prev = s.prev
      BY <1>1 DEF ApplyWritesThen
    <3> QED BY <1>0, <1>2, <1>3, <1>5, <2>1, <3>1 DEF Recorded, Writes
  <2>2. s.prev # None => \/ Selector \in slipped
                         \/ Now[Selector] = s.prev /\ Safe[Selector] = s.prev
    BY <1>2, <1>6, OwnNames DEF Base, FirmInv
  <2>3. ASSUME NEW x \in Proper, Recorded(t, x)', x.prev # None PROVE Restored(x)'
    BY <1>2, <2>1, <2>2, <2>3 DEF Restored
  <2> QED BY <1>3, <2>3 DEF UntouchedInv, Recorded
<1>10. KeptInv'
  <2>1. ASSUME NEW k \in 1..Len(todo'), Writes(k, f)', todo'[k].value.phase = "activated"
        PROVE  /\ \A g : NotAgain(k, g)'
               /\ \A q \in Links : \E j \in 1..(k - 1) : Writes(j, q)'
    <3>1. k = d + 7 BY <1>1, <2>1 DEF ApplyWritesThen, Writes
    <3>2. \A g : NotAgain(k, g)'
      <4>1. ASSUME NEW i \in 1..Len(todo'), i >= k, todo'[i].path \in Links PROVE FALSE
        <5>1. i < d + 7 BY <1>1, <4>1 DEF ApplyWritesThen
        <5> QED BY <3>1, <4>1, <5>1
      <4> QED BY <4>1 DEF NotAgain
    <3>3. /\ d + 5 \in 1..(k - 1) /\ d + 6 \in 1..(k - 1)
          /\ Writes(d + 5, Selector)' /\ Writes(d + 6, Ownership)'
      BY <1>1, <3>1 DEF ApplyWritesThen, Writes
    <3> QED BY <1>4, <3>2, <3>3
  <2>2. State[tx'.id] = f /\ Now'[f] = None /\ Safe'[f] = None /\ tx'.state.phase # "activated"
    BY <1>0, <1>2, <1>3, <1>5
  <2> QED BY <2>1, <2>2 DEF KeptInv, Kept, NotAgain, Writes
<1>11. DecidedInv'
  <2>1. \A k \in 1..Len(todo') : todo'[k].path = f => ~Decided(todo'[k].value)
    BY <1>1 DEF ApplyWritesThen
  <2>2. State[tx'.id] = f /\ Now'[f] = None /\ Safe'[f] = None
    BY <1>0, <1>2, <1>3, <1>5
  <2> QED BY <2>1, <2>2 DEF DecidedInv, Writes
<1> QED BY <1>7, <1>8, <1>9, <1>10, <1>11 DEF LastInv

ConfirmsStep(t, s) ==
  /\ UNCHANGED <<Now, Safe, job, tx, slipped>> /\ job[Root] = Idle
  /\ todo = <<>> /\ t \in Txs /\ s = Now[State[t]] /\ s \in Proper /\ s \in States
  /\ s.phase = "activated" /\ Now[Selector] = s.gen /\ Now[Ownership] = s.gen
  /\ todo' = << Put(State[t], [s EXCEPT !.phase = "confirmed"]) >>

LEMMA Confirmed ==
  ASSUME FilesInv, Base, NEW t, NEW s, ConfirmsStep(t, s), NEW f, f = State[t],
         NEW z, z = [s EXCEPT !.phase = "confirmed"]
  PROVE  /\ ~tx.applying /\ ~HalfSaved
         /\ f \in Paths \ Links /\ \A u \in Txs : u # t => State[u] # f
         /\ z \in Proper /\ z \in States /\ z.prev = s.prev /\ z.gen = s.gen
         /\ z.phase = "confirmed" /\ Late(z) /\ Decided(z) /\ Late(s) /\ ~Decided(s)
         /\ s # None /\ z # None /\ Len(todo') = 1 /\ (\A k : k \in 1..Len(todo') <=> k = 1)
         /\ todo'[1].path = f /\ todo'[1].value = z
<1>1. /\ todo = <<>> /\ t \in Txs /\ s \in Proper /\ s \in States
      /\ s.phase = "activated" /\ todo' = <<Put(f, z)>> /\ job[Root] = Idle
  BY DEF ConfirmsStep
<1>2. ~tx.applying /\ ~HalfSaved BY <1>1 DEF Base, TypeInv, HalfSaved, Idle
<1>3. f \in Paths \ Links /\ \A u \in Txs : u # t => State[u] # f BY <1>1, OwnNames
<1>4. /\ z \in Proper /\ z \in States /\ z.prev = s.prev /\ z.gen = s.gen
      /\ z.phase = "confirmed" /\ Late(z) /\ Decided(z) /\ Late(s) /\ ~Decided(s)
  BY <1>1 DEF States, Phases, Late, Decided, Proper
<1>5. Len(todo') = 1 /\ todo'[1] = Put(f, z) BY <1>1
<1>6. todo'[1].path = f /\ todo'[1].value = z BY <1>5, PutHolds
<1>7. \A k : k \in 1..Len(todo') <=> k = 1 BY <1>5
<1> QED BY <1>1, <1>2, <1>3, <1>4, <1>5, <1>6, <1>7, NoneIsNothing

LEMMA BaseConfirms ==
  ASSUME FilesInv, Base, NEW t, NEW s, ConfirmsStep(t, s)
  PROVE  Base'
<1> DEFINE W == [path : Paths, value : Values \cup {None}]
<1>0. PICK f : f = State[t] OBVIOUS
<1>1. PICK z : z = [s EXCEPT !.phase = "confirmed"] OBVIOUS
<1>2. /\ ~tx.applying /\ ~HalfSaved
      /\ f \in Paths \ Links /\ \A u \in Txs : u # t => State[u] # f
      /\ z \in Proper /\ z \in States /\ z.prev = s.prev /\ z.gen = s.gen /\ Late(z)
      /\ s # None /\ z # None /\ (\A k : k \in 1..Len(todo') <=> k = 1)
      /\ todo'[1].path = f /\ todo'[1].value = z
  BY <1>0, <1>1, Confirmed
<1>3. /\ UNCHANGED <<Now, Safe, job, tx, slipped>> /\ job[Root] = Idle
      /\ t \in Txs /\ s = Now[f] /\ s \in Proper /\ todo' = <<Put(f, z)>>
  BY <1>0, <1>1 DEF ConfirmsStep
<1>4. TypeInv'
  <2>1. todo' \in Seq(W)
    <3>1. Put(f, z) \in W BY <1>2, JournalAssumption DEF Put
    <3> HIDE DEF W
    <3> QED BY <1>3, <3>1
  <2>2. FileOK(f, z) BY <1>0, <1>2, <1>3 DEF FileOK
  <2>3. \A q \in Paths : FileOK(q, Now'[q]) /\ FileOK(q, Safe'[q]) BY <1>3 DEF Base, TypeInv
  <2> QED BY <1>2, <1>3, <2>1, <2>2, <2>3 DEF Base, TypeInv
<1>5. JobInv' BY <1>3 DEF JobInv, HalfSaved, Idle
<1>6. FirmInv' BY <1>2, <1>3 DEF Base, FirmInv
<1>7. SeenInv' BY <1>3 DEF Base, SeenInv
<1>8. FreshInv'
  <2>1. ~(t > tx.id) BY <1>0, <1>2, <1>3 DEF Base, FreshInv
  <2> QED BY <1>2, <1>3, <2>1 DEF Base, FreshInv, Writes
<1>9. ChainInv'
  <2>1. Continues(s, z) BY <1>2 DEF Continues
  <2>2. \A j : j \notin 1..(1 - 1) OBVIOUS
  <2>3. ASSUME NEW u \in Txs, Safe[State[u]] # None PROVE Continues(Safe[State[u]], Now[State[u]])
    BY <2>3 DEF Base, ChainInv
  <2> QED BY <1>0, <1>2, <1>3, <2>1, <2>2, <2>3 DEF ChainInv, Writes
<1>10. ApplyingInv' BY <1>2, <1>3 DEF ApplyingInv
<1>11. DirInv' BY <1>0, <1>2, <1>3 DEF Base, DirInv, Writes
<1>12. ASSUME NEW u \in Txs, NEW x, Recorded(u, x)'
       PROVE  Recorded(u, x) \/ (u = t /\ x.prev = s.prev /\ Recorded(t, s))
  BY <1>0, <1>2, <1>3, <1>12 DEF Recorded, Writes
<1>13. \A g \in Generations : \A k \in 1..Len(todo') : todo'[k] # Put(Selector, g)
  BY <1>2, OwnNames, PutHolds
<1>14. \A g : (HasGen(g)' <=> HasGen(g)) /\ (Covered(g)' <=> Covered(g))
  BY <1>3 DEF HasGen, Covered
<1>15. GenInv'
  <2>1. ASSUME NEW u \in Txs, NEW x \in Proper, Recorded(u, x)', x.prev # None PROVE HasGen(x.prev)
    BY <1>3, <1>12, <2>1 DEF Base, GenInv
  <2> QED BY <1>3, <1>13, <1>14, <2>1 DEF Base, GenInv
<1>16. SelectedInv'
  <2>1. ASSUME NEW u \in Txs, NEW x \in Proper, Recorded(u, x)', x.prev # None PROVE Covered(x.prev)
    BY <1>3, <1>12, <2>1 DEF Base, SelectedInv
  <2> QED BY <1>3, <1>13, <1>14, <2>1 DEF Base, SelectedInv
<1> QED BY <1>4, <1>5, <1>6, <1>7, <1>8, <1>9, <1>10, <1>11, <1>15, <1>16 DEF Base

LEMMA LastConfirms ==
  ASSUME FilesInv, Base, LastInv, Firm, NEW t, NEW s, ConfirmsStep(t, s)
  PROVE  LastInv'
<1>0. PICK f : f = State[t] OBVIOUS
<1>1. PICK z : z = [s EXCEPT !.phase = "confirmed"] OBVIOUS
<1>2. /\ ~tx.applying /\ ~HalfSaved
      /\ f \in Paths \ Links /\ \A u \in Txs : u # t => State[u] # f
      /\ z.prev = s.prev /\ z.gen = s.gen /\ z.phase = "confirmed" /\ Decided(z) /\ ~Decided(s)
      /\ s # None /\ Len(todo') = 1 /\ (\A k : k \in 1..Len(todo') <=> k = 1)
      /\ todo'[1].path = f /\ todo'[1].value = z
  BY <1>0, <1>1, Confirmed
<1>3. /\ UNCHANGED <<Now, Safe, job, tx, slipped>>
      /\ t \in Txs /\ s = Now[f] /\ s \in Proper /\ s.phase = "activated"
      /\ \A q \in Links : Now[q] = s.gen
  BY <1>0 DEF ConfirmsStep, Links
<1>4. t = tx.id BY <1>0, <1>2, <1>3 DEF LastInv, OthersInv
<1>5. Safe[f] = s BY <1>0, <1>2, <1>3 DEF Base, FirmInv, Firm
<1>6. \A q \in Links : Kept(q, s.gen) /\ Safe[q] = s.gen
  BY <1>0, <1>2, <1>3, <1>4 DEF LastInv, KeptInv, Kept
<1>7. OthersInv' BY <1>0, <1>2, <1>3, <1>4 DEF LastInv, OthersInv, Writes
<1>8. AheadInv' BY <1>2 DEF AheadInv
<1>9. UntouchedInv'
  <2>1. ASSUME NEW x, Recorded(t, x)' PROVE Recorded(t, x) \/ (x.prev = s.prev /\ Recorded(t, s))
    BY <1>0, <1>2, <1>3, <2>1 DEF Recorded, Writes
  <2>2. ASSUME NEW x \in Proper, ~SaysMutated', Recorded(t, x)', x.prev # None PROVE Restored(x)'
    BY <1>3, <1>4, <2>1, <2>2 DEF LastInv, UntouchedInv, SaysMutated, Restored
  <2> QED BY <1>3, <1>4, <2>2 DEF UntouchedInv, Recorded
<1>10. KeptInv'
  <2>1. State[tx'.id] = f /\ Now'[f] = s /\ Safe'[f] = s /\ ~tx'.applying
    BY <1>0, <1>2, <1>3, <1>4, <1>5
  <2>2. NotAgain(1, s.gen)' BY <1>2 DEF NotAgain
  <2>3. \A k \in 1..Len(todo') : todo'[k].value.phase # "activated"
    BY <1>2
  <2>4. \A q \in Links : Kept(q, s.gen)' BY <1>3, <1>6 DEF Kept
  <2> QED BY <2>1, <2>2, <2>3, <2>4 DEF KeptInv, Kept, NotAgain
<1>11. DecidedInv'
  <2>1. State[tx'.id] = f /\ Now'[f] = s /\ Safe'[f] = s BY <1>0, <1>3, <1>4, <1>5
  <2>2. \A q \in Links : Now'[q] = z.gen /\ Safe'[q] = z.gen BY <1>2, <1>3, <1>6
  <2> QED BY <1>2, <2>1, <2>2 DEF DecidedInv, Carried, Restoring, Writes
<1> QED BY <1>7, <1>8, <1>9, <1>10, <1>11 DEF LastInv

----------------------------------------------------------------------------
(* The steps of the module.                                                     *)

\* Every step keeps the invariant in its two parts.
LEMMA InTwoParts ==
  ASSUME JournalInv, Base', Remembers, Firm /\ LastInv /\ Firm' => LastInv'
  PROVE  JournalInv'
BY FirmStays DEF JournalInv

LEMMA LastUndecided ==
  ASSUME FilesInv, Base, NEW t \in Txs, Undecided(t)
  PROVE  /\ Read(State[t]) = Now[State[t]] /\ Now[State[t]] \in Proper /\ Now[State[t]] \in States
         /\ Now[State[t]] # None /\ ~Decided(Now[State[t]])
<1>1. Read(State[t]) = Now[State[t]] BY OwnNames, NowIsRead
<1>2. FileOK(State[t], Now[State[t]]) BY OwnNames DEF Base, TypeInv
<1>3. Now[State[t]] # None /\ ~Decided(Now[State[t]]) BY <1>1 DEF Undecided, Decided
<1> QED BY <1>1, <1>2, <1>3, StateHolds

LEMMA StoreStays ==
  ASSUME FilesInv, UNCHANGED storeVars
  PROVE  FilesInv' /\ UNCHANGED <<Now, Safe, job>>
BY FilesNext DEF storeVars, Now, Safe

LEMMA ConfirmKeeps ==
  ASSUME FilesInv, JournalInv, NEW t \in Txs, Confirm(t)
  PROVE  FilesInv' /\ JournalInv'
<1>1. FilesInv' /\ UNCHANGED <<Now, Safe, job, tx, slipped>> BY StoreStays DEF Confirm
<1>2. PICK s : s = Now[State[t]] OBVIOUS
<1>3. Read(State[t]) = s /\ s \in Proper /\ s \in States
  BY <1>2, LastUndecided DEF Confirm, JournalInv
<1>4. Read(Selector) = Now[Selector] /\ Read(Ownership) = Now[Ownership]
  BY NowIsRead, OwnNames
<1>5. ConfirmsStep(t, s)
  BY <1>1, <1>2, <1>3, <1>4 DEF ConfirmsStep, Confirm, Waiting, writeTransaction
<1>6. Base' BY <1>5, BaseConfirms DEF JournalInv
<1>7. Firm /\ LastInv => LastInv' BY <1>5, LastConfirms DEF JournalInv
<1>8. Remembers BY <1>1 DEF Remembers
<1> QED BY <1>1, <1>6, <1>7, <1>8, InTwoParts

LEMMA AfterFirst ==
  ASSUME NEW S, NEW a \in Seq(S), NEW w \in Seq(S), Len(a) = 1
  PROVE  /\ a \o w \in Seq(S) /\ Len(a \o w) = Len(w) + 1 /\ (a \o w)[1] = a[1]
         /\ \A i \in 1..Len(w) : (a \o w)[1 + i] = w[i]
<1>1. a \o w \in Seq(S) /\ Len(a \o w) = Len(w) + 1 /\ (a \o w)[1] = a[1]
  BY ConcatProperties
<1>2. ASSUME NEW i \in 1..Len(w) PROVE (a \o w)[1 + i] = w[i]
  <2>1. 1 + i \in 1..(Len(a) + Len(w)) /\ ~(1 + i <= Len(a)) /\ (1 + i) - Len(a) = i OBVIOUS
  <2>2. (a \o w)[1 + i] = IF 1 + i <= Len(a) THEN a[1 + i] ELSE w[(1 + i) - Len(a)]
    BY <2>1, ConcatProperties
  <2> QED BY <2>1, <2>2
<1> QED BY <1>1, <1>2

\* An apply begins when every transaction is decided.
LEMMA ApplyKeeps ==
  ASSUME FilesInv, JournalInv, NEW g \in Generations, Apply(g)
  PROVE  FilesInv' /\ JournalInv'
<1> DEFINE W == [path : Paths, value : Values \cup {None}]
           t == tx.id + 1
           s == [phase |-> "prepared", gen |-> g,
                 prev |-> IF Read(Selector) = g THEN None ELSE Read(Selector)]
           d == IF Read(GenDir[g]) = g THEN 0 ELSE 1
           w == ApplyWrites(t, s)
<1>1. FilesInv' /\ UNCHANGED <<Now, Safe, job, slipped>>
  BY StoreStays DEF Apply
<1>2. /\ todo = <<>> /\ job[Root] = Idle /\ t \in Txs /\ \A u \in Txs : ~Undecided(u)
      /\ todo' = writeGeneration(g) \o w /\ tx' = [id |-> t, state |-> s, applying |-> TRUE]
  BY DEF Apply, Waiting
<1>3. Read(Selector) = Now[Selector] /\ Read(GenDir[g]) = Now[GenDir[g]] /\ Selector \in Paths
      /\ GenDir[g] \in Paths /\ Ownership \in Paths /\ TxDir[t] \in Paths /\ State[t] \in Paths
  BY <1>2, NowIsRead, OwnNames 
<1>4. \A u \in Txs : Now[State[u]] # None => Decided(Now[State[u]])
  BY <1>2, NowIsRead, OwnNames DEF Undecided, Decided
<1>5. Now[Selector] = None \/ Now[Selector] \in Generations
  <2>1. FileOK(Selector, Now[Selector]) BY <1>3 DEF JournalInv, Base, TypeInv
  <2> QED BY <2>1, OwnNames, LinkHolds
<1>6. /\ s \in States /\ s \in Proper /\ s.phase = "prepared" /\ s.gen = g
      /\ s.prev \in {None, Now[Selector]}
  BY <1>3, <1>5, NoneIsNothing DEF States, Phases, Proper
<1>7. [s EXCEPT !.phase = "prepared"] = s OBVIOUS
<1>8. \A ph \in Phases : [s EXCEPT !.phase = ph] \in States BY <1>6 DEF States
<1>9. {"prepared", "armed", "activating", "activated"} \subseteq Phases BY DEF Phases
<1>10. s.gen \in Values BY <1>6, JournalAssumption
<1> HIDE DEF s, t
<1>11. ASSUME NEW p \in Paths, NEW v \in Values PROVE Put(p, v) \in W BY DEF Put
<1>12. \A ph \in {"prepared", "armed", "activating", "activated"} :
         Put(State[t], [s EXCEPT !.phase = ph]) \in W
  BY <1>3, <1>8, <1>9, <1>11, JournalAssumption
<1>13. /\ Put(GenDir[g], g) \in W /\ Put(TxDir[t], s.gen) \in W
       /\ Put(Selector, s.gen) \in W /\ Put(Ownership, s.gen) \in W
  BY <1>3, <1>6, <1>10, <1>11
<1> HIDE DEF W
<1>14. /\ w \in Seq(W) /\ Len(w) = 7
       /\ w[1] = Put(TxDir[t], s.gen)
       /\ w[2] = Put(State[t], s)
       /\ w[3] = Put(State[t], [s EXCEPT !.phase = "armed"])
       /\ w[4] = Put(State[t], [s EXCEPT !.phase = "activating"])
       /\ w[5] = Put(Selector, s.gen)
       /\ w[6] = Put(Ownership, s.gen)
       /\ w[7] = Put(State[t], [s EXCEPT !.phase = "activated"])
  BY <1>7, <1>12, <1>13 DEF ApplyWrites, writeTransaction
<1> HIDE DEF w
<1>15. /\ d \in {0, 1} /\ todo' \in Seq(W) /\ Len(todo') = d + 7
       /\ IF d = 1 THEN todo'[1] = Put(GenDir[g], g) ELSE Now[GenDir[g]] = g
       /\ \A i \in 1..7 : todo'[d + i] = w[i]
  <2>1. CASE Read(GenDir[g]) = g
    <3>1. todo' = <<>> \o w /\ d = 0 BY <1>2, <2>1 DEF writeGeneration
    <3>2. todo' = w BY <1>14, <3>1
    <3> QED BY <1>3, <1>14, <2>1, <3>1, <3>2
  <2>2. CASE Read(GenDir[g]) # g
    <3>1. todo' = <<Put(GenDir[g], g)>> \o w /\ d = 1 BY <1>2, <2>2 DEF writeGeneration
    <3>2. <<Put(GenDir[g], g)>> \in Seq(W) BY <1>13
    <3>3. PICK a : a = <<Put(GenDir[g], g)>> OBVIOUS
    <3>4. a \in Seq(W) /\ Len(a) = 1 /\ a[1] = Put(GenDir[g], g) BY <3>2, <3>3
    <3>5. todo' = a \o w BY <3>1, <3>3
    <3>6. todo' \in Seq(W) /\ Len(todo') = 8 /\ todo'[1] = a[1]
          /\ \A i \in 1..7 : todo'[1 + i] = w[i]
      <4>1. Len(w) = 7 /\ w \in Seq(W) BY <1>14
      <4> QED BY <3>4, <3>5, <4>1, AfterFirst
    <3> QED BY <3>1, <3>4, <3>6
  <2> QED BY <2>1, <2>2
<1>16. d \in {0, 1} /\ todo' \in Seq([path : Paths, value : Values \cup {None}]) BY <1>15 DEF W
<1>17. t = tx.id + 1 BY DEF t
<1>18. /\ todo'[d + 1] = Put(TxDir[t], s.gen)
       /\ todo'[d + 2] = Put(State[t], s)
       /\ todo'[d + 3] = Put(State[t], [s EXCEPT !.phase = "armed"])
       /\ todo'[d + 4] = Put(State[t], [s EXCEPT !.phase = "activating"])
       /\ todo'[d + 5] = Put(Selector, s.gen)
       /\ todo'[d + 6] = Put(Ownership, s.gen)
       /\ todo'[d + 7] = Put(State[t], [s EXCEPT !.phase = "activated"])
  BY <1>14, <1>15
<1> HIDE DEF d
<1>19. AppliesStep(t, s, d)
  BY <1>1, <1>2, <1>4, <1>6, <1>15, <1>16, <1>17, <1>18 DEF AppliesStep
<1>20. Base' BY <1>16, <1>19, BaseApplies DEF JournalInv
<1>21. Firm => LastInv' BY <1>16, <1>19, LastApplies DEF JournalInv
<1>22. Remembers BY <1>1 DEF Remembers
<1> QED BY <1>1, <1>20, <1>21, <1>22, InTwoParts

\* A rollback restores the two links, as far as it has to, and then records itself.
LEMMA RollbackSequence ==
  ASSUME FilesInv, NEW t \in Txs, NEW s \in States
  PROVE  \E a, b \in {0, 1} : Undoes(RollbackWrites(t, s), t, s, 0, a, b, 1)
<1> DEFINE A == Put(Selector, s.prev)
           B == Put(Ownership, s.prev)
           F == Put(State[t], [s EXCEPT !.phase = "rolledback"])
           a == IF Mutated(s) /\ Read(Selector) # s.prev THEN 1 ELSE 0
           b == IF Mutated(s) /\ Read(Ownership) # s.prev THEN 1 ELSE 0
           W == [path : Paths, value : Values \cup {None}]
           w == RollbackWrites(t, s)
<1>1. w = IF a = 1 THEN IF b = 1 THEN <<A, B, F>> ELSE <<A, F>>
                   ELSE IF b = 1 THEN <<B, F>> ELSE <<F>>
  BY RollbackForms
<1>2. Read(Selector) = Now[Selector] /\ Selector \in Paths /\ Ownership \in Paths /\ State[t] \in Paths
  BY NowIsRead, OwnNames
<1>3. s.prev \in Values \cup {None} /\ [s EXCEPT !.phase = "rolledback"] \in Values
  BY JournalAssumption DEF States, Phases
<1>4. A \in W /\ B \in W /\ F \in W BY <1>2, <1>3 DEF Put
<1>5. /\ a \in {0, 1} /\ b \in {0, 1} /\ (a = 1 => Mutated(s)) /\ (b = 1 => Mutated(s))
      /\ Mutated(s) /\ a = 0 => Now[Selector] = s.prev
  BY <1>2
<1> HIDE DEF A, B, F, W, a, b, w
<1>6. /\ w \in Seq(W) /\ Len(w) = a + b + 1 /\ w[a + b + 1] = F
      /\ (a = 1 => w[1] = A) /\ (b = 1 => w[a + 1] = B)
  <2>1. CASE a = 1 /\ b = 1 BY <1>1, <1>4, <2>1
  <2>2. CASE a = 1 /\ b = 0 BY <1>1, <1>4, <2>2
  <2>3. CASE a = 0 /\ b = 1 BY <1>1, <1>4, <2>3
  <2>4. CASE a = 0 /\ b = 0 BY <1>1, <1>4, <2>4
  <2> QED BY <1>5, <2>1, <2>2, <2>3, <2>4
<1>7. Undoes(w, t, s, 0, a, b, 1) BY <1>5, <1>6 DEF Undoes, A, B, F, W
<1> QED BY <1>5, <1>7 DEF w

LEMMA RollbackKeeps ==
  ASSUME FilesInv, JournalInv, NEW t \in Txs, Rollback(t)
  PROVE  FilesInv' /\ JournalInv'
<1>1. PICK s : s = Now[State[t]] OBVIOUS
<1>2. Read(State[t]) = s /\ s \in Proper /\ s \in States /\ s # None /\ ~Decided(s)
  BY <1>1, LastUndecided DEF Rollback, JournalInv
<1>3. /\ FilesInv' /\ UNCHANGED <<Now, Safe, job, slipped>>
      /\ todo = <<>> /\ job[Root] = Idle /\ todo' = RollbackWrites(t, s) /\ tx' = tx
  BY <1>2, StoreStays DEF Rollback, Waiting
<1>4. ~HalfSaved /\ ~tx.applying BY <1>3 DEF HalfSaved, Idle, JournalInv, Base, TypeInv
<1>5. tx' = [tx EXCEPT !.applying = FALSE] BY <1>3, <1>4 DEF JournalInv, Base, TypeInv
<1>6. PICK d \in {0, 1}, e \in {0, 1} : d = 0 /\ e = 1 OBVIOUS
<1>7. PICK a \in {0, 1}, b \in {0, 1} : Undoes(todo', t, s, d, a, b, e)
  BY <1>2, <1>3, <1>6, RollbackSequence
<1>8. Remembers BY <1>3 DEF Remembers
<1>9. UndoesStep(t, s, d, a, b, e)
  <2>1. Continues(Now[State[t]], s) BY <1>1 DEF Continues
  <2>2. UNCHANGED <<Now, Safe>> /\ job'[Root] = Idle BY <1>3
  <2> QED BY <1>1, <1>2, <1>4, <1>5, <1>6, <1>7, <1>8, <2>1, <2>2 DEF UndoesStep
<1>10. Base' BY <1>9, BaseUndoes DEF JournalInv
<1>11. LastInv /\ Firm' => LastInv' BY <1>9, LastUndoes DEF JournalInv
<1> QED BY <1>3, <1>8, <1>10, <1>11, InTwoParts

\* A command that stops without another write.
LEMMA StopKeeps ==
  ASSUME FilesInv, JournalInv, Stop(Root) \/ (job[Root] = Idle /\ UNCHANGED storeVars),
         NEW fault, MayStop(fault), Dies
  PROVE  FilesInv' /\ JournalInv'
<1>1. FilesInv' /\ UNCHANGED <<Now, Safe>> /\ job'[Root] = Idle BY StopEffect, StoreStays
<1>2. Remembers /\ (HalfSaved => job[Root].path \in slipped') BY DEF MayStop, Remembers
<1>3. StopsStep BY <1>1, <1>2 DEF StopsStep, Dies
<1>4. Base' BY <1>3, BaseStops DEF JournalInv
<1>5. LastInv => LastInv' BY <1>3, LastStops DEF JournalInv
<1> QED BY <1>1, <1>2, <1>4, <1>5, InTwoParts

\* Apply writes its journal again, and then rolls back what it knows.
LEMMA RecoverKeeps ==
  ASSUME FilesInv, JournalInv, NEW fault, MayStop(fault), Stop(Root),
         tx.applying, Read(State[tx.id]) # None, todo' = RecoverWrites(tx.id, tx.state),
         tx' = [tx EXCEPT !.applying = FALSE]
  PROVE  FilesInv' /\ JournalInv'
<1> DEFINE W == [path : Paths, value : Values \cup {None}]
<1>1. FilesInv' /\ UNCHANGED <<Now, Safe>> /\ job'[Root] = Idle BY StopEffect
<1>2. Remembers /\ (HalfSaved => job[Root].path \in slipped') BY DEF MayStop, Remembers
<1>3. PICK s, t : s = tx.state /\ t = tx.id OBVIOUS
<1>4. t \in Txs /\ s \in Proper /\ s \in States /\ State[t] \in Paths
  BY <1>3, OwnNames DEF JournalInv, Base, TypeInv, Proper
<1>5. Read(State[t]) = Now[State[t]] BY <1>4, NowIsRead
<1>6. /\ Now[State[t]] # None /\ ~Decided(s) /\ ~Decided(Now[State[t]])
      /\ Continues(Now[State[t]], s)
  BY <1>3, <1>4, <1>5 DEF JournalInv, Base, ApplyingInv, ChainInv
<1>7. ASSUME NEW a \in {0, 1}, NEW b \in {0, 1}, NEW d \in {0, 1}, NEW e \in {0, 1}, d = 1,
             Undoes(todo', t, s, d, a, b, e)
      PROVE  JournalInv'
  <2>1. UndoesStep(t, s, d, a, b, e)
    BY <1>1, <1>2, <1>3, <1>4, <1>6, <1>7 DEF UndoesStep
  <2>2. Base' BY <2>1, BaseUndoes DEF JournalInv
  <2>3. LastInv /\ Firm' => LastInv' BY <2>1, LastUndoes DEF JournalInv
  <2> QED BY <1>2, <2>2, <2>3, InTwoParts
<1>8. PICK P : P = <<Put(State[t], s)>> OBVIOUS
<1>9. P \in Seq(W) /\ Len(P) = 1 /\ P[1] = Put(State[t], s)
  <2>1. Put(State[t], s) \in W BY <1>4, JournalAssumption DEF Put
  <2> HIDE DEF W
  <2> QED BY <1>8, <2>1
<1> HIDE DEF W
<1>10. todo' = P \o (IF Knows(s) THEN RollbackWrites(t, s) ELSE <<>>)
  BY <1>3, <1>8 DEF RecoverWrites, writeTransaction
<1>11. CASE Knows(s)
  <2>1. PICK w : w = RollbackWrites(t, s) OBVIOUS
  <2>2. PICK a \in {0, 1}, b \in {0, 1} : Undoes(w, t, s, 0, a, b, 1)
    BY <1>4, <2>1, RollbackSequence
  <2>3. /\ w \in Seq(W) /\ Len(w) = a + b + 1
        /\ a = 1 => w[1] = Put(Selector, s.prev) /\ Mutated(s)
        /\ b = 1 => w[a + 1] = Put(Ownership, s.prev) /\ Mutated(s)
        /\ w[a + b + 1] = Put(State[t], [s EXCEPT !.phase = "rolledback"])
        /\ Mutated(s) /\ a = 0 => Now[Selector] = s.prev
    BY <2>2 DEF Undoes, W
  <2>4. /\ todo' \in Seq(W) /\ Len(todo') = Len(w) + 1 /\ todo'[1] = Put(State[t], s)
        /\ \A i \in 1..Len(w) : todo'[1 + i] = w[i]
    <3>1. todo' = P \o w BY <1>10, <1>11, <2>1
    <3>2. w \in Seq(W) BY <2>3
    <3>3. P \o w \in Seq(W) /\ Len(P \o w) = Len(w) + 1 /\ (P \o w)[1] = P[1]
          /\ \A i \in 1..Len(w) : (P \o w)[1 + i] = w[i]
      BY <1>9, <3>2, AfterFirst
    <3> QED BY <1>9, <3>1, <3>3
  <2>5. Len(todo') = 1 + a + b + 1 BY <2>3, <2>4
  <2>6. a = 1 => todo'[1 + 1] = w[1] BY <2>3, <2>4
  <2>7. b = 1 => todo'[1 + a + 1] = w[a + 1]
    <3>1. 1 + a + 1 = 1 + (a + 1) OBVIOUS
    <3> QED BY <2>3, <2>4, <3>1
  <2>8. todo'[1 + a + b + 1] = w[a + b + 1]
    <3>1. 1 + a + b + 1 = 1 + (a + b + 1) OBVIOUS
    <3> QED BY <2>3, <2>4, <3>1
  <2>9. PICK d \in {0, 1}, e \in {0, 1} : d = 1 /\ e = 1 OBVIOUS
  <2>10. Undoes(todo', t, s, d, a, b, e)
    BY <2>3, <2>4, <2>5, <2>6, <2>7, <2>8, <2>9 DEF Undoes, W
  <2> QED BY <1>1, <1>7, <2>9, <2>10
<1>12. CASE ~Knows(s)
  <2>1. todo' = P
    <3>1. todo' = P \o <<>> BY <1>10, <1>12
    <3> QED BY <1>9, <3>1
  <2>2. PICK a \in {0, 1}, d \in {0, 1} : a = 0 /\ d = 1 OBVIOUS
  <2>3. Undoes(todo', t, s, d, a, a, a) BY <1>9, <2>1, <2>2 DEF Undoes, W
  <2> QED BY <1>1, <1>7, <2>2, <2>3
<1> QED BY <1>11, <1>12

LEMMA FailsKeeps ==
  ASSUME FilesInv, JournalInv, Fails
  PROVE  FilesInv' /\ JournalInv'
<1>1. PICK fault : fault = "error" /\ MayStop(fault) BY DEF Fails
<1>2. CASE tx.applying /\ Read(State[tx.id]) # None
  BY <1>1, <1>2, RecoverKeeps DEF Fails
<1>3. CASE ~(tx.applying /\ Read(State[tx.id]) # None)
  BY <1>1, <1>3, StopKeeps DEF Fails, Dies
<1> QED BY <1>2, <1>3

LEMMA KilledKeeps ==
  ASSUME FilesInv, JournalInv, Killed
  PROVE  FilesInv' /\ JournalInv'
<1>1. PICK fault : fault = "kill" /\ MayStop(fault) BY DEF Killed
<1> QED BY <1>1, StopKeeps DEF Killed

LEMMA PowerKeeps ==
  ASSUME FilesInv, JournalInv, LosesPower
  PROVE  FilesInv' /\ JournalInv'
<1>1. FilesInv' /\ Safe' = Safe /\ Now' = Safe /\ job'[Root] = Idle
  BY PowerLossEffect DEF LosesPower
<1>2. Remembers BY DEF LosesPower, Remembers
<1>3. StopsStep BY <1>1, <1>2 DEF StopsStep, LosesPower, Dies
<1>4. Base' BY <1>3, BaseStops DEF JournalInv
<1>5. LastInv => LastInv' BY <1>3, LastStops DEF JournalInv
<1> QED BY <1>1, <1>2, <1>4, <1>5, InTwoParts

LEMMA BeginKeeps ==
  ASSUME FilesInv, JournalInv, Begin
  PROVE  FilesInv' /\ JournalInv'
<1> DEFINE w == todo[1]
<1>1. /\ todo # <<>> /\ job[Root] = Idle /\ Head(todo) = w
      /\ tx' = IF tx.applying /\ w.path = State[tx.id] THEN [tx EXCEPT !.state = w.value] ELSE tx
      /\ slipped' = slipped
  BY DEF Begin
<1>2. /\ 1 \in 1..Len(todo) /\ w.path \in Paths /\ w.value \in Values \cup {None}
      /\ w.value = None => w.path \in Links
  <2>1. 1 \in 1..Len(todo)
    <3>2. PICK W : W = [path : Paths, value : Values \cup {None}] OBVIOUS
    <3>3. todo \in Seq(W) BY <3>2 DEF JournalInv, Base, TypeInv
    <3> QED BY <1>1, <3>3
  <2> QED BY <2>1, TodoHolds DEF JournalInv, Base, TypeInv
<1>5. Remembers BY <1>1 DEF Remembers
<1> HIDE DEF w
<1>3. CASE w.value = None
  <2>1. Remove(w.path) /\ todo' = Tail(todo) BY <1>1, <1>3 DEF Begin
  <2>2. FilesInv' /\ Safe' = Safe /\ Now' = [Now EXCEPT ![w.path] = None] /\ job' = job
    BY <1>2, <2>1, RemoveEffect
  <2>3. w.path \notin {State[t] : t \in Txs} BY <1>2, <1>3, OwnNames
  <2>4. tx' = tx
    BY <1>1, <2>3 DEF JournalInv, Base, TypeInv
  <2>5. RemovesStep BY <1>1, <1>3, <2>1, <2>2, <2>4 DEF RemovesStep, w
  <2>6. Base' BY <2>5, BaseRemoves DEF JournalInv
  <2>7. LastInv => LastInv' BY <2>5, LastRemoves DEF JournalInv
  <2> QED BY <1>5, <2>2, <2>6, <2>7, InTwoParts
<1>4. CASE w.value # None
  <2>1. /\ (w.path = Selector /\ setActive(Root, w.value)) \/ durableWrite(Root, w.path, w.value)
        /\ todo' = todo
    BY <1>1, <1>4 DEF Begin
  <2>2. /\ FilesInv' /\ UNCHANGED <<Now, Safe>>
        /\ job'[Root].path = w.path /\ job'[Root].value = w.value /\ job'[Root].stage # "renamed"
    BY <1>2, <1>4, <2>1, OpenEffect
  <2>3. OpensStep BY <1>1, <1>4, <2>1, <2>2 DEF OpensStep, w, HalfSaved
  <2>4. Base' BY <2>3, BaseOpens DEF JournalInv
  <2>5. LastInv => LastInv' BY <2>3, LastOpens DEF JournalInv
  <2> QED BY <1>5, <2>2, <2>4, <2>5, InTwoParts
<1> QED BY <1>3, <1>4

\* The disk changes, and the step of a write, but nothing that a reader sees.
LEMMA SettlesKeeps ==
  ASSUME FilesInv, JournalInv, SettlesStep, JobInv', FirmInv'
  PROVE  JournalInv'
<1>1. Remembers BY DEF Remembers, SettlesStep
<1>2. Base' BY BaseSettles DEF JournalInv
<1>3. LastInv => LastInv' BY LastSettles DEF JournalInv
<1> QED BY <1>1, <1>2, <1>3, InTwoParts

LEMMA WriteKeeps ==
  ASSUME FilesInv, JournalInv, Write
  PROVE  FilesInv' /\ JournalInv'
<1>1. /\ FilesInv' /\ Safe' = Safe /\ job[Root] # Idle /\ UNCHANGED <<todo, tx, slipped>>
      /\ job'[Root].path = job[Root].path /\ job'[Root].value = job[Root].value
      /\ job[Root].stage # "renamed"
      /\ \/ Now' = Now /\ job'[Root].stage # "renamed"
         \/ /\ Now' = [Now EXCEPT ![job[Root].path] = job[Root].value]
            /\ job'[Root].stage = "renamed"
  BY ProgressEffect DEF Write
<1>2. CASE job'[Root].stage = "renamed"
  <2>1. RenamesStep BY <1>1, <1>2 DEF RenamesStep, HalfSaved
  <2>2. Base' BY <2>1, BaseRenames DEF JournalInv
  <2>3. LastInv => LastInv' BY <2>1, LastRenames DEF JournalInv
  <2>4. Remembers BY <1>1 DEF Remembers
  <2> QED BY <1>1, <2>2, <2>3, <2>4, InTwoParts
<1>3. CASE job'[Root].stage # "renamed"
  <2>1. Now' = Now BY <1>1, <1>3
  <2>2. SettlesStep BY <1>1, <2>1 DEF SettlesStep, Settles
  <2>3. JobInv' BY <1>1, <1>3, <2>1 DEF JournalInv, Base, JobInv, HalfSaved
  <2>4. FirmInv' BY <1>1, <1>3, <2>1 DEF JournalInv, Base, FirmInv, HalfSaved
  <2> QED BY <1>1, <2>2, <2>3, <2>4, SettlesKeeps
<1> QED BY <1>2, <1>3

LEMMA DoneKeeps ==
  ASSUME FilesInv, JournalInv, Done
  PROVE  FilesInv' /\ JournalInv'
<1>1. /\ FilesInv' /\ Now' = Now /\ HalfSaved /\ job[Root] # Idle /\ job'[Root] = Idle
      /\ \A q \in Paths : Safe'[q] \in {Safe[q], Now[q]}
      /\ Safe'[job[Root].path] = Now[job[Root].path]
  BY SyncDirEffect DEF Done
<1>2. SyncsStep BY <1>1 DEF SyncsStep, Done, Settles
<1>3. Base' BY <1>2, BaseSyncs DEF JournalInv
<1>4. LastInv => LastInv' BY <1>2, LastSyncs DEF JournalInv
<1>5. Remembers BY <1>2 DEF Remembers, SyncsStep
<1> QED BY <1>1, <1>3, <1>4, <1>5, InTwoParts

LEMMA KernelKeeps ==
  ASSUME FilesInv, JournalInv, KernelWrites
  PROVE  FilesInv' /\ JournalInv'
<1>1. PICK p \in Paths : WriteBackName(p) BY DEF KernelWrites
<1>2. FilesInv' /\ Now' = Now /\ job' = job /\ Settles /\ UNCHANGED <<todo, tx, slipped>>
  BY <1>1, WriteBackNameEffect DEF KernelWrites, Settles
<1>3. JobInv' BY <1>2 DEF JournalInv, Base, JobInv, HalfSaved
<1>4. FirmInv' BY <1>2 DEF JournalInv, Base, FirmInv, HalfSaved, Settles
<1>5. SettlesStep BY <1>2 DEF SettlesStep
<1> QED BY <1>2, <1>3, <1>4, <1>5, SettlesKeeps

LEMMA StutterKeeps ==
  ASSUME FilesInv, JournalInv, UNCHANGED journalVars
  PROVE  FilesInv' /\ JournalInv'
<1>1. FilesInv' /\ UNCHANGED <<Now, Safe, job, todo, tx, slipped>>
  BY StoreStays DEF journalVars
<1>2. JobInv' /\ FirmInv' BY <1>1 DEF JournalInv, Base, JobInv, FirmInv, HalfSaved
<1>3. SettlesStep BY <1>1 DEF SettlesStep, Settles
<1> QED BY <1>1, <1>2, <1>3, SettlesKeeps

LEMMA JournalNext ==
  ASSUME FilesInv, JournalInv, [Next]_journalVars
  PROVE  FilesInv' /\ JournalInv'
<1>1. CASE \E g \in Generations : Apply(g) BY <1>1, ApplyKeeps
<1>2. CASE \E t \in Txs : Confirm(t) BY <1>2, ConfirmKeeps
<1>3. CASE \E t \in Txs : Rollback(t) BY <1>3, RollbackKeeps
<1>4. CASE Begin BY <1>4, BeginKeeps
<1>5. CASE Write BY <1>5, WriteKeeps
<1>6. CASE Done BY <1>6, DoneKeeps
<1>7. CASE Fails BY <1>7, FailsKeeps
<1>8. CASE Killed BY <1>8, KilledKeeps
<1>9. CASE LosesPower BY <1>9, PowerKeeps
<1>10. CASE KernelWrites BY <1>10, KernelKeeps
<1>11. CASE UNCHANGED journalVars BY <1>11, StutterKeeps
<1> QED BY <1>1, <1>2, <1>3, <1>4, <1>5, <1>6, <1>7, <1>8, <1>9, <1>10, <1>11 DEF Next

LEMMA JournalInit == Init => FilesInv /\ JournalInv
<1> SUFFICES ASSUME Init PROVE FilesInv /\ JournalInv OBVIOUS
<1>1. FilesInv BY InitInv, FilesOfIInv DEF Init
<1>2. job[Root] = Idle BY JournalAssumption DEF Init, StoreInit
<1>3. \A p \in Paths : Now[p] = None /\ Safe[p] = None
  <2>1. \A p \in Paths : entry[p].inode = None /\ disk[p].inode = None
    BY DEF Init, StoreInit, NoFile
  <2> QED BY <2>1 DEF Now, Safe, Found
<1>4. /\ Len(todo) = 0 /\ tx.id = 0 /\ tx.state = None /\ ~tx.applying /\ todo = <<>>
      /\ tx = NoTx /\ slipped = {}
  BY DEF Init, NoTx
<1>5. \A k : k \notin 1..Len(todo) BY <1>4
<1>6. Selector \in Paths /\ tx.id \notin Txs /\ \A u \in Txs : State[u] \in Paths
  BY <1>4, OwnNames
<1>7. TypeInv
  <2>1. todo \in Seq([path : Paths, value : Values \cup {None}]) BY <1>4
  <2>2. tx \in [id : Nat, state : States \cup {None}, applying : BOOLEAN] BY <1>4 DEF NoTx
  <2> QED BY <1>3, <1>4, <1>5, <2>1, <2>2 DEF TypeInv, FileOK
<1>8. ~HalfSaved BY <1>2 DEF HalfSaved, Idle
<1>9. JobInv /\ FirmInv /\ SeenInv /\ FreshInv /\ ChainInv /\ ApplyingInv /\ DirInv
  BY <1>2, <1>3, <1>4, <1>5, <1>6, <1>8
     DEF JobInv, FirmInv, SeenInv, FreshInv, ChainInv, ApplyingInv, DirInv
<1>10. \A u \in Txs : \A s : ~Recorded(u, s) BY <1>3, <1>4, <1>5, <1>6 DEF Recorded
<1>11. GenInv /\ SelectedInv
  BY <1>3, <1>5, <1>6, <1>10, NoneIsNothing DEF GenInv, SelectedInv
<1>12. LastInv
  BY <1>3, <1>5, <1>6
     DEF LastInv, OthersInv, AheadInv, UntouchedInv, KeptInv, DecidedInv
<1> QED BY <1>1, <1>7, <1>9, <1>11, <1>12 DEF JournalInv, Base

LEMMA JournalCorrect == Spec => [](FilesInv /\ JournalInv)
<1>1. Init => FilesInv /\ JournalInv BY JournalInit
<1>2. (FilesInv /\ JournalInv) /\ [Next]_journalVars => (FilesInv /\ JournalInv)' BY JournalNext
<1> QED BY <1>1, <1>2, PTL DEF Spec

LEMMA OnDiskIsSafe ==
  ASSUME FilesInv
  PROVE  \A t \in Txs : /\ OnDisk(State[t]) = Safe[State[t]] /\ OnDisk(TxDir[t]) = Safe[TxDir[t]]
                        /\ \A p \in Links : OnDisk(p) = Safe[p]
                        /\ Journaled(t) = IF Safe[TxDir[t]] = None THEN None ELSE Safe[State[t]]
BY NowIsRead, OwnNames DEF Journaled

(***************************************************************************)
(* What is selected on disk has a record on disk that the boot finds, at every  *)
(* moment of every sequence of activations, errors, kills and power losses, those *)
(* between the renaming of a file and the sync of its directory included.         *)
(***************************************************************************)
THEOREM SelectionHasRecord == Spec => []SelectionIsJournaled
<1>1. FilesInv /\ JournalInv => SelectionIsJournaled
  <2> SUFFICES ASSUME FilesInv, JournalInv, OnDisk(Selector) # None PROVE SelectionIsJournaled
    BY DEF SelectionIsJournaled
  <2>1. OnDisk(Selector) = Safe[Selector] /\ Selector \in Links /\ Selector \in Paths
    BY NowIsRead, OwnNames
  <2>2. Safe[Selector] \in Generations
    BY <2>1, LinkHolds DEF JournalInv, Base, TypeInv
  <2>3. PICK t \in Txs : Safe[TxDir[t]] # None /\ Covers(Safe[State[t]], Safe[Selector])
    BY <2>2 DEF JournalInv, Base, SelectedInv, Covered
  <2>4. Journaled(t) = Safe[State[t]] BY <2>3, OnDiskIsSafe
  <2> QED BY <2>1, <2>3, <2>4 DEF SelectionIsJournaled, Covers, Late
<1> QED BY <1>1, JournalCorrect, PTL

(***************************************************************************)
(* A generation that is selected on disk is on disk, unless the apply that wrote  *)
(* it stopped between the renaming of its directory and the sync of the parent.    *)
(***************************************************************************)
THEOREM SelectionHasFiles == Spec => []SelectedIsOnDiskUnlessSlipped
<1>1. FilesInv /\ JournalInv => SelectedIsOnDiskUnlessSlipped
  <2> SUFFICES ASSUME FilesInv, JournalInv, NEW g \in Generations, OnDisk(Selector) = g
               PROVE  OnDisk(GenDir[g]) = g \/ GenDir[g] \in slipped
    BY DEF SelectedIsOnDiskUnlessSlipped
  <2>1. OnDisk(Selector) = Safe[Selector] /\ OnDisk(GenDir[g]) = Safe[GenDir[g]]
    BY NowIsRead, OwnNames
  <2> QED BY <2>1 DEF JournalInv, Base, GenInv, HasGen
<1> QED BY <1>1, JournalCorrect, PTL

(***************************************************************************)
(* When the journal on disk says that the last transaction is confirmed or       *)
(* rolled back, what it decides is on disk, as long as no command stopped between *)
(* the renaming of a journal, or for a rollback of the selector, and the sync of   *)
(* its directory.                                                                  *)
(***************************************************************************)
THEOREM DecisionIsLast == Spec => []DecidedIsComplete
<1>1. FilesInv /\ JournalInv => DecidedIsComplete
  <2> SUFFICES ASSUME FilesInv, JournalInv, Firm, NEW t \in Txs, t = tx.id,
                      Journaled(t) # None, Decided(Journaled(t))
               PROVE  /\ Journaled(t).phase = "confirmed" =>
                           OnDisk(Selector) = Journaled(t).gen /\ OnDisk(Ownership) = Journaled(t).gen
                      /\ Journaled(t).phase = "rolledback" /\ Journaled(t).prev # None =>
                           Selector \in slipped \/ OnDisk(Selector) = Journaled(t).prev
    BY DEF DecidedIsComplete, ConfirmedIsComplete, RestoredBeforeRecorded, Decides, Decided, Firm
  <2>1. Journaled(t) = Safe[State[t]] BY OnDiskIsSafe
  <2>2. Carried(Journaled(t)) BY <2>1 DEF JournalInv, LastInv, DecidedInv
  <2>3. OnDisk(Selector) = Safe[Selector] /\ OnDisk(Ownership) = Safe[Ownership]
    BY OnDiskIsSafe, OwnNames
  <2> QED BY <2>2, <2>3, OwnNames DEF Carried, Restored
<1> QED BY <1>1, JournalCorrect, PTL
=============================================================================
