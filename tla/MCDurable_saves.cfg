SPECIFICATION FileSpec
CONSTANTS
  active = active meta = meta conf = conf s1 = s1 s2 = s2 v1 = v1 v2 = v2
  None = None
  Savers = {s1, s2} Journal = {} Selector = active Metadata = meta Config = conf
  Dir <- Directories Values = {v1, v2} Inodes = {1, 2, 3} MaxTurns = 2
INVARIANTS
  SuccessIsDurable
PROPERTIES
  ReplacesAtomically
