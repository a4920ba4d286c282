\* Statements of the documentation that the code does not keep; each is violated.
SPECIFICATION FairSpec
CONSTANTS
  g1 = g1
  g2 = g2
  t1 = t1
  t2 = t2
  t3 = t3
  None = None
  Foreign = Foreign
  Gens <- TwoGens
  TxIds <- TwoTxs
  DDNSOf <- DDNSOfGens
  Env <- ClaimEvents
  MaxFaults = 2
INVARIANTS
  BootReconciles
  ApprovedIsKept
PROPERTIES
  BootFixesDDNSTimer
  ApprovedSurvivesReboot
  DeadlineEnforced
  ForeignNeverReplaced
CHECK_DEADLOCK FALSE
