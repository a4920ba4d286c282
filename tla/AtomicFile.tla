----------------------------- MODULE AtomicFile -----------------------------
(***************************************************************************)
(* What a state file promises, without the steps that keep the promise: a     *)
(* reader finds one whole value or no file, and so does the next boot after a  *)
(* power loss, which may find an older value but never one never written.      *)
(***************************************************************************)
CONSTANTS Paths, Values, None

VARIABLES
  now,  \* what a reader finds at each path, None for no file
  safe  \* what a boot would find after a power loss

vars == <<now, safe>>

Init == now = [p \in Paths |-> None] /\ safe = now

Replace(p) == UNCHANGED safe /\ \E v \in Values \cup {None} : now' = [now EXCEPT ![p] = v]

Settle(P) == UNCHANGED now /\ safe' = [p \in Paths |-> IF p \in P THEN now[p] ELSE safe[p]]

PowerLoss == now' = safe /\ UNCHANGED safe

Next == \/ \E p \in Paths : Replace(p)
        \/ \E P \in SUBSET Paths : Settle(P)
        \/ PowerLoss

Spec == Init /\ [][Next]_vars
=============================================================================
