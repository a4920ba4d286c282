---------------------------- MODULE MCActivation ----------------------------
(* Small instances of the activation system for TLC.                         *)
EXTENDS ActivationProperties, TLC

CONSTANTS g1, g2, t1, t2, t3

TwoGens == {g1, g2}
TwoTxs == {t1, t2}
ThreeTxs == {t1, t2, t3}
\* g1 has no DDNS whitelist and g2 has one.
DDNSOfGens == [g \in TwoGens |-> g = g2]
SymTxs == Permutations(ThreeTxs)

AllButSlow == {"kill", "reboot", "write", "command", "delete", "foreign"}
CommandFaults == {"kill", "reboot", "write", "command"}
RebootOnly == {"reboot"}
ClaimEvents == {"kill", "reboot", "delete", "foreign"}
=============================================================================
