------------------------------ MODULE MCJournal ------------------------------
(* One or two generations, and two transactions after one another.              *)
EXTENDS JournalProperties
CONSTANTS active, meta, conf, own, root, g1, g2, d1, d2, t1, t2, n1, n2

AllFiles == {own, n1, n2, d1, d2, t1, t2}
Directories == [p \in {active, meta, conf} \cup AllFiles |->
  CASE p \in {active, own, meta} -> "lib" [] p \in {n1, n2} -> "generations"
    [] p \in {d1, d2} -> "transactions" [] p = t1 -> "tx1" [] p = t2 -> "tx2"
    [] p = conf -> "etc"]
TxDirs == <<d1, d2>>
StateFiles == <<t1, t2>>
GenDirs == [g \in {g1, g2} |-> IF g = g1 THEN n1 ELSE n2]
AllValues == Generations \cup States

\* Which file holds a content, and what is left in files without a name, makes no
\* difference to any action or property: states that differ in no more are one.
Contained(e) == <<e.turn, IF e.inode = None THEN None ELSE <<data[e.inode], stored[e.inode]>>>>
Held(j) == IF j = Idle THEN j ELSE [j EXCEPT !.inode = <<data[@], stored[@]>>]
Seen == << [p \in {active} \cup AllFiles |->
              <<Contained(entry[p]), Contained(disk[p]), entry[p] = disk[p]>>],
           Held(job[root]), todo, tx, slipped >>
=============================================================================
