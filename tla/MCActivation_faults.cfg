SPECIFICATION Spec
CONSTANTS
  g1 = g1
  g2 = g2
  t1 = t1
  t2 = t2
  t3 = t3
  None = None
  Foreign = Foreign
  Gens <- TwoGens
  TxIds <- ThreeTxs
  DDNSOf <- DDNSOfGens
  Env <- AllButSlow
  MaxFaults = 3
SYMMETRY SymTxs
INVARIANTS
  TypeOK
  OwnershipFollowsSelector
  OnlyApprovedSettles
  JournalBeforeMutation
  NoOrphanPolicy
PROPERTIES
  CandidateUnderDeadMan
  RolledBackMeansRestored
  ConfirmedIsLive
  BootLoadsApproved
  ForeignUntouched
  SelectionByTrialOnly
CHECK_DEADLOCK FALSE
