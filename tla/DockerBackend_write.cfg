SPECIFICATION Spec
CONSTANTS
  None = None Garbage = Garbage Blank = Blank Partial = Partial
  Cmds = {c1, c2} Keys = {k0, k1, k2} NoKeys = k0 AcceptedKeys = {k0, k1}
  Backends = {"iptables"} Names = 2 MaxEdits = 2
PROPERTIES WritesWhatWasValidated OnlyLateEditsAreLost
CHECK_DEADLOCK FALSE
