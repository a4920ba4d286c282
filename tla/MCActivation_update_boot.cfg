SPECIFICATION Spec
CONSTANTS
  g1 = g1
  g2 = g2
  t1 = t1
  t2 = t2
  t3 = t3
  None = None
  Foreign = Foreign
  Gens <- TwoGens
  TxIds <- TwoTxs
  DDNSOf <- DDNSOfGens
  Env <- RebootOnly
  MaxFaults = 1
INVARIANTS
  BootReconciles
CHECK_DEADLOCK FALSE
