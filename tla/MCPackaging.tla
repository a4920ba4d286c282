----------------------------- MODULE MCPackaging -----------------------------
(* Small instances of the package lifecycle.                                 *)
EXTENDS Packaging, TLC

CONSTANTS g1, t1, t2

OneGen == {g1}
TwoTxs == {t1, t2}
DDNSOfOne == [g \in OneGen |-> TRUE]
SymTxs == Permutations(TwoTxs)

HardEvents == {"kill", "reboot", "write", "command", "delete", "foreign", "slow", "nft"}
KillAndNft == {"kill", "nft"}
=============================================================================
