------------------------------ MODULE MCStatus ------------------------------
(* Small instances of the inspection beside the activation system.           *)
EXTENDS StatusProperties, ActivationProperties, TLC

CONSTANTS g1, g2, t1, t2, d2

TwoGens == {g1, g2}
TwoTxs == {t1, t2}
\* g1 has no DDNS whitelist and g2 has one.
DDNSOfGens == [g \in TwoGens |-> g = g2]
\* g2's sets hold addresses; d2 is g2 without them.
IntentOfGens == [g \in TwoGens |-> IF g = g2 THEN d2 ELSE g]
SymTxs == Permutations(TwoTxs)

HardEvents == {"kill", "reboot", "write", "command", "delete", "foreign"}
=============================================================================
