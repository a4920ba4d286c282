-------------------------- MODULE DurableProperties --------------------------
(***************************************************************************)
(* What the write protocol promises its readers, for savers that do what they *)
(* like: the values of AtomicFile, and that a reported save is on disk.         *)
(***************************************************************************)
EXTENDS DurableFile

\* What is found under a name, given the names and the data: a file that is not
\* whole is no value at all.
Whole(c) == c.bytes = "all" /\ c.final
Found(names, contents) ==
  [p \in Paths |-> LET i == names[p].inode IN
     IF i = None THEN None
     ELSE IF Whole(contents[i]) THEN contents[i].value ELSE "torn"]

Now == Found(entry, data)
Safe == Found(disk, stored)

File == INSTANCE AtomicFile WITH now <- Now, safe <- Safe

(***************************************************************************)
(* Neither a reader nor a boot after a power loss finds a file cut short, with *)
(* the mode of a temporary file, or with contents nobody saved, whatever the    *)
(* kernel wrote to disk and in which order: durableWrite, SaveMetadata and       *)
(* SaveFile sync the data before the rename, and setActive renames a whole link. *)
(***************************************************************************)
ReplacesAtomically == File!Spec

(***************************************************************************)
(* A save that was reported as done is on disk, or a later one of the same     *)
(* file is: two commands that save one file at the same time cannot make the    *)
(* report of either untrue at the next power loss.                              *)
(***************************************************************************)
SuccessIsDurable == \A p \in Paths : reported[p] <= disk[p].turn
=============================================================================
