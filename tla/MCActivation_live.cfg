SPECIFICATION FairSpec
CONSTANTS
  g1 = g1
  g2 = g2
  t1 = t1
  t2 = t2
  t3 = t3
  None = None
  Foreign = Foreign
  Gens <- TwoGens
  TxIds <- TwoTxs
  DDNSOf <- DDNSOfGens
  Env <- CommandFaults
  MaxFaults = 2
PROPERTY EveryTrialEnds
CHECK_DEADLOCK FALSE
