--------------------------- MODULE DurableJournal ---------------------------
(***************************************************************************)
(* The files an activation writes, in its order, over a disk that may lose     *)
(* what was not synced: the generation, the directory of the transaction, its   *)
(* journal, the selector and the ownership record; then confirm, or the         *)
(* rollback that puts them back. Module Activation has the lock, the kernel      *)
(* tables and the units, and takes each of these writes as one durable step.     *)
(***************************************************************************)
EXTENDS DurableFile, Sequences

CONSTANTS
  Root,        \* the process that holds the lock
  Generations,
  Txs,         \* transaction numbers, 1..n; a transaction ID is never used again
  Ownership,   \* ownership.json, a member of Journal
  TxDir, State, GenDir,  \* TxDir[t], State[t], GenDir[g]: members of Journal
  Faults       \* subset of {"error", "kill", "power"}

Phases == {"prepared", "armed", "activating", "activated", "confirmed", "rolledback"}
States == [phase : Phases, gen : Generations, prev : Generations \cup {None}]

ASSUME JournalAssumption == /\ Root \in Savers
                            /\ Generations \subseteq Values /\ States \subseteq Values

\* Each of the files has a name of its own.
ASSUME FilesAssumption ==
  /\ Txs \subseteq Nat \ {0}
  /\ Ownership \in Journal /\ {Selector, Metadata, Config} \cap Journal = {}
  /\ \A t \in Txs : {TxDir[t], State[t]} \subseteq Journal \ {Ownership}
  /\ \A g \in Generations : GenDir[g] \in Journal \ {Ownership}
  /\ \A t, u \in Txs : /\ TxDir[t] # State[u]
                       /\ t # u => TxDir[t] # TxDir[u] /\ State[t] # State[u]
  /\ \A g \in Generations : \A t \in Txs : GenDir[g] \notin {TxDir[t], State[t]}
  /\ \A g, h \in Generations : g # h => GenDir[g] # GenDir[h]

VARIABLES
  todo,  \* the writes that remain of the running command
  tx,     \* apply's memory: its transaction, its state, and whether apply still runs
  slipped \* history: names whose change a command that stopped left unsynced

journalVars == <<storeVars, todo, tx, slipped>>

NoTx == [id |-> 0, state |-> None, applying |-> FALSE]

Init == StoreInit /\ todo = <<>> /\ tx = NoTx /\ slipped = {}

Read(p) == IF entry[p].inode = None THEN None ELSE data[entry[p].inode].value
OnDisk(p) == IF disk[p].inode = None THEN None ELSE stored[disk[p].inode].value

\* A write: the file and its value, None to remove it. A directory that is made
\* and synced into its parent is a write of one value.
Put(p, v) == [path |-> p, value |-> v]
writeTransaction(t, state) == Put(State[t], state)

\* Mutation: the selector is changed before the journal says so.
SelectFirst(t, s) == LET In(ph) == writeTransaction(t, [s EXCEPT !.phase = ph]) IN
  << Put(TxDir[t], s.gen), In("prepared"), In("armed"), Put(Selector, s.gen),
     In("activating"), Put(Ownership, s.gen), In("activated") >>

ApplyWrites(t, s) == LET In(ph) == writeTransaction(t, [s EXCEPT !.phase = ph]) IN
  << Put(TxDir[t], s.gen), In("prepared"), In("armed"), In("activating"),
     Put(Selector, s.gen), Put(Ownership, s.gen), In("activated") >>

\* The removals of a first installation leave alone what is another generation's.
\* A removal that finds no file is done.
Removals(s) ==
  LET Present(p) == IF Read(p) = None THEN <<>> ELSE <<Put(p, None)>> IN
  Present(Selector) \o Present(Ownership)

\* What the rollback of an update still has to write.
Restores(s) ==
  (IF Read(Selector) = s.prev THEN <<>> ELSE <<Put(Selector, s.prev)>>)
  \o (IF Read(Ownership) = s.prev THEN <<>> ELSE <<Put(Ownership, s.prev)>>)

Mutated(s) == s.phase \in {"activating", "activated"}
\* The selector and the ownership record the rollback of s accepts.
Knows(s) ==
  LET found == <<Read(Selector), Read(Ownership)>> IN
  \/ ~Mutated(s)
  \/ s.prev = None /\ found \in {s.gen, None} \X {s.gen, None}
  \/ s.prev # None /\ found \in {<<s.gen, s.gen>>, <<s.prev, s.gen>>, <<s.prev, s.prev>>}

\* Mutation: the rollback is recorded before it is done.
RecordFirst(t, s) ==
  << writeTransaction(t, [s EXCEPT !.phase = "rolledback"]) >>
  \o (IF ~Mutated(s) THEN <<>> ELSE IF s.prev = None THEN Removals(s) ELSE Restores(s))

RollbackWrites(t, s) ==
  (IF ~Mutated(s) THEN <<>> ELSE IF s.prev = None THEN Removals(s) ELSE Restores(s))
  \o << writeTransaction(t, [s EXCEPT !.phase = "rolledback"]) >>

Waiting == todo = <<>> /\ job[Root] = Idle
Undecided(t) == Read(State[t]) # None /\ Read(State[t]).phase \notin {"confirmed", "rolledback"}

----------------------------------------------------------------------------
(* Commands begin. *)

\* A generation that is there already is compared with its manifest, not written.
writeGeneration(g) == IF Read(GenDir[g]) = g THEN <<>> ELSE <<Put(GenDir[g], g)>>

\* The selected generation is applied again when its table is gone; what came
\* before it is forgotten then. Without a table, a selector and an ownership
\* record that differ do not stop the apply of another generation.
Apply(g) ==
  LET t == tx.id + 1
      s == [phase |-> "prepared", gen |-> g,
            prev |-> IF Read(Selector) = g THEN None ELSE Read(Selector)] IN
  /\ Waiting /\ t \in Txs /\ \A u \in Txs : ~Undecided(u)
  /\ Read(Selector) = g => Read(Ownership) = g
  /\ todo' = writeGeneration(g) \o ApplyWrites(t, s)
  /\ tx' = [id |-> t, state |-> s, applying |-> TRUE]
  /\ UNCHANGED <<storeVars, slipped>>

Confirm(t) ==
  LET s == Read(State[t]) IN
  /\ Waiting /\ Undecided(t) /\ s.phase = "activated"
  /\ Read(Selector) = s.gen /\ Read(Ownership) = s.gen
  /\ todo' = << writeTransaction(t, [s EXCEPT !.phase = "confirmed"]) >>
  /\ UNCHANGED <<storeVars, tx, slipped>>

\* The timer, the command and, for every transaction, the reconciliation at boot.
Rollback(t) ==
  LET s == Read(State[t]) IN
  /\ Waiting /\ Undecided(t)
  /\ Knows(s)
  /\ todo' = RollbackWrites(t, s)
  /\ UNCHANGED <<storeVars, tx, slipped>>

----------------------------------------------------------------------------
(* The writes, one step of DurableFile at a time. *)

Begin ==
  /\ todo # <<>> /\ job[Root] = Idle
  /\ LET w == Head(todo) IN
     /\ IF w.value = None THEN Remove(w.path) /\ todo' = Tail(todo)
        ELSE /\ IF w.path = Selector THEN setActive(Root, w.value)
                ELSE durableWrite(Root, w.path, w.value)
             /\ UNCHANGED todo
     /\ tx' = IF tx.applying /\ w.path = State[tx.id] THEN [tx EXCEPT !.state = w.value] ELSE tx
  /\ UNCHANGED slipped

Write == Progress(Root) /\ UNCHANGED <<todo, tx, slipped>>

Done == /\ syncDir(Root)
        /\ todo' = Tail(todo)
        /\ tx' = [tx EXCEPT !.applying = @ /\ todo' # <<>>]
        /\ UNCHANGED slipped

\* Once its journal exists, apply answers an error by writing the journal again
\* and rolling back, as far as the rollback knows what it finds. Before that, and
\* in a rollback or confirm, an error ends the command.
RecoverWrites(t, s) ==
  << writeTransaction(t, s) >>
  \o IF Knows(s) THEN RollbackWrites(t, s) ELSE <<>>

\* A name is changed and its directory is not synced yet; a command that stops
\* here leaves what the next one takes for saved.
HalfSaved == job[Root].stage = "renamed"
MayStop(fault) ==
  /\ fault \in Faults
  /\ slipped' = IF HalfSaved THEN slipped \cup {job[Root].path} ELSE slipped

Fails ==
  /\ MayStop("error")
  /\ Stop(Root)
  /\ todo' = IF tx.applying /\ Read(State[tx.id]) # None
             THEN RecoverWrites(tx.id, tx.state) ELSE <<>>
  /\ tx' = [tx EXCEPT !.applying = FALSE]

Dies == todo' = <<>> /\ tx' = [tx EXCEPT !.applying = FALSE]

Killed == /\ MayStop("kill") /\ todo # <<>> /\ Dies
          /\ Stop(Root) \/ (job[Root] = Idle /\ UNCHANGED storeVars)

LosesPower == "power" \in Faults /\ PowerLoss /\ Dies /\ UNCHANGED slipped

\* The data of a file is on disk before it has a name, so that only entries are
\* left for the kernel to write.
KernelWrites == (\E p \in Paths : WriteBackName(p)) /\ UNCHANGED <<todo, tx, slipped>>

Next == \/ \E g \in Generations : Apply(g)
        \/ \E t \in Txs : Confirm(t) \/ Rollback(t)
        \/ Begin \/ Write \/ Done \/ Fails \/ Killed \/ LosesPower \/ KernelWrites

Spec == Init /\ [][Next]_journalVars
=============================================================================
