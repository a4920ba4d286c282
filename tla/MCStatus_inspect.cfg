SPECIFICATION StatusSpec
CONSTANTS
  g1 = g1
  g2 = g2
  t1 = t1
  t2 = t2
  d2 = d2
  None = None
  Foreign = Foreign
  Gens <- TwoGens
  TxIds <- TwoTxs
  DDNSOf <- DDNSOfGens
  IntentOf <- IntentOfGens
  Env <- HardEvents
  MaxFaults = 1
SYMMETRY SymTxs
INVARIANTS
  HealthyIsApproved
  TrialIsReported
  PlainPlanIsReal
  BootRefusesOnlyHalfSwitched
PROPERTIES
  FailedApplyIsUndone
  ApprovedSurvivesReboot
CHECK_DEADLOCK FALSE
