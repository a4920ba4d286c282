SPECIFICATION Spec
CONSTANTS
  active = active meta = meta conf = conf own = own root = root g1 = g1 g2 = g2
  d1 = d1 d2 = d2 t1 = t1 t2 = t2 n1 = n1 n2 = n2 None = None
  Savers = {root} Root = root Journal <- AllFiles Selector = active Metadata = meta Config = conf
  Ownership = own TxDir <- TxDirs State <- StateFiles GenDir <- GenDirs Dir <- Directories
  Generations = {g1, g2} Txs = {1, 2} Values <- AllValues
  Inodes = {1, 2, 3, 4, 5, 6, 7, 8, 9, 10} MaxTurns = 7
  Faults = {"error", "kill", "power"}
INVARIANTS
  SelectionIsJournaled
  SelectedIsOnDiskUnlessSlipped
  DecidedIsComplete
VIEW Seen
CHECK_DEADLOCK FALSE
