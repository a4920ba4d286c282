\* Statements of the documentation that the code does not keep; each is violated.
SPECIFICATION Spec
CONSTANTS
  e1 = e1 e2 = e2 addr = addr net = net h1 = h1 i1 = i1 i2 = i2
  None = None Refused = Refused
  Ranges <- SomeRanges MaxPort <- ThreePorts Prefixes <- Both Single = {addr}
  HostNames = {h1} Interfaces <- TwoInterfaces
  Editors <- TwoEditors Commands <- AllCommands HandEdits <- Unusual
INVARIANTS
  SSHCanBeOpened
  ForceWrites
  InterfaceCanBeDistrusted
PROPERTIES
  NoUpdateIsLost
  EditTakesEffect
