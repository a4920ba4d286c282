-------------------------- MODULE JournalProperties --------------------------
(***************************************************************************)
(* What a boot can rely on after a power loss at any moment of an activation.  *)
(***************************************************************************)
EXTENDS DurableJournal

\* A transaction is found in the directory that was made for it.
Journaled(t) == IF OnDisk(TxDir[t]) = None THEN None ELSE OnDisk(State[t])

(***************************************************************************)
(* A generation that is selected on disk has a transaction on disk that says    *)
(* so: one that reconciliation undoes, from a phase in which it also undoes the  *)
(* selector, or one that is decided. Whatever the power loss kept, no candidate   *)
(* is selected without a record, and no record stops short of it.                 *)
(***************************************************************************)
SelectionIsJournaled ==
  LET g == OnDisk(Selector) IN
  g # None => \E t \in Txs : LET s == Journaled(t) IN
    /\ s # None
    /\ \/ s.gen = g /\ s.phase \notin {"prepared", "armed"}
       \/ s.prev = g

\* What the record of t on disk decides, if t is the last transaction.
Decides(t, phase) ==
  LET s == Journaled(t) IN t = tx.id /\ s # None /\ s.phase = phase

ConfirmedIsComplete ==
  \A t \in Txs : Decides(t, "confirmed") =>
    LET g == Journaled(t).gen IN OnDisk(Selector) = g /\ OnDisk(Ownership) = g

RestoredBeforeRecorded ==
  \A t \in Txs : Decides(t, "rolledback") /\ Journaled(t).prev # None
    => OnDisk(Selector) = Journaled(t).prev

(***************************************************************************)
(* A decision is on disk only after everything it decides: the selector and the *)
(* ownership record of a confirmed generation, and the previous selection of an  *)
(* update that is recorded as rolled back. A command that stops between the       *)
(* renaming of a file and the sync of its directory breaks it in two ways: the    *)
(* power loss may take back the decision of an earlier transaction, and the next   *)
(* rollback finds the selector as it should be and does not sync it.               *)
(***************************************************************************)
DecidedIsComplete ==
  (\A t \in Txs : State[t] \notin slipped) =>
     /\ ConfirmedIsComplete
     /\ Selector \notin slipped => RestoredBeforeRecorded

(***************************************************************************)
(* A generation that is selected on disk is on disk as well, so that the boot    *)
(* can load it, unless the very apply that wrote it stopped between the renaming   *)
(* of its directory and the sync of the parent. No other stop, and no later         *)
(* command that takes the directory for saved, breaks it for another generation.    *)
(***************************************************************************)
SelectedIsOnDiskUnlessSlipped ==
  \A g \in Generations : OnDisk(Selector) = g => OnDisk(GenDir[g]) = g \/ GenDir[g] \in slipped

(***************************************************************************)
(* "A confirmed selection survives reboot; an unconfirmed selection returns to  *)
(* the prior generation, or removes inet hostfw when no prior generation          *)
(* exists" (src/docs/operator-guide.md:57): a first installation that is          *)
(* recorded as rolled back is not selected at the next boot.                       *)
(***************************************************************************)
RemovedStaysRemoved ==
  \A t \in Txs : Decides(t, "rolledback") => OnDisk(Selector) # Journaled(t).gen

(***************************************************************************)
(* "Content-addressed rendered files plus manifest.json; written durably and    *)
(* made read-only" (src/SPEC.md:16): a generation that is selected on disk is on  *)
(* disk as well, so that the boot can load it.                                     *)
(***************************************************************************)
SelectedIsOnDisk ==
  \A g \in Generations : OnDisk(Selector) = g => OnDisk(GenDir[g]) = g
=============================================================================
