SPECIFICATION PackageSpec
CONSTANTS
  g1 = g1
  t1 = t1
  t2 = t2
  None = None
  Foreign = Foreign
  Gens <- OneGen
  TxIds <- TwoTxs
  DDNSOf <- DDNSOfOne
  Env <- HardEvents
  MaxFaults = 3
SYMMETRY SymTxs
INVARIANTS
  RemovedIsInert
CHECK_DEADLOCK FALSE
