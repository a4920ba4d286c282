\* Statements of the documentation that the code does not keep; each is violated.
SPECIFICATION PackageSpec
CONSTANTS
  g1 = g1
  t1 = t1
  t2 = t2
  None = None
  Foreign = Foreign
  Gens <- OneGen
  TxIds <- TwoTxs
  DDNSOf <- DDNSOfOne
  Env <- KillAndNft
  MaxFaults = 1
SYMMETRY SymTxs
INVARIANTS
  NothingIsLeft
  NothingPendingIsAccepted
  RemovalSparesActivePolicy
CHECK_DEADLOCK FALSE
