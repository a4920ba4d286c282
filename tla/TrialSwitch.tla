----------------------------- MODULE TrialSwitch -----------------------------
(***************************************************************************)
(* What an activation promises, without its steps: the host has one policy    *)
(* it returns to whatever happens, and at most one candidate on trial, which   *)
(* becomes that policy by being accepted and in no other way (src/SPEC.md,      *)
(* "Activation Transaction").                                                   *)
(***************************************************************************)
CONSTANTS Gens, None

VARIABLES
  policy,   \* the generation the host returns to, None for no policy
  trial,    \* the candidate on trial, or None
  accepted  \* the candidate the operator accepted last

vars == <<policy, trial, accepted>>

Init == policy = None /\ trial = None /\ accepted = None

Begin == trial = None /\ trial' \in Gens /\ UNCHANGED <<policy, accepted>>

\* A trial of the policy itself, repeated because its table is gone, counts as a
\* first installation: it returns to nothing.
Forfeit == trial # None /\ trial = policy /\ policy' = None /\ UNCHANGED <<trial, accepted>>

Accept == trial # None /\ policy' = trial /\ accepted' = trial /\ trial' = None

Abandon == trial # None /\ trial' = None /\ UNCHANGED <<policy, accepted>>

Next == Begin \/ Forfeit \/ Accept \/ Abandon

Spec == Init /\ [][Next]_vars
=============================================================================
