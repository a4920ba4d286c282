\* Statements of the documentation that the code does not keep; each is violated.
SPECIFICATION Spec
CONSTANTS
  a4 = a4 b4 = b4 a6 = a6 n6 = n6 b6 = b6 pa = pa pb = pb
  eth = eth docker0 = docker0 lan = lan vpn = vpn h1 = h1
  None = None Failing = Failing
  Addrs <- FiveAddrs FamilyOf <- Family PrefixOf <- Masked
  WAN = eth Bridge = docker0 Interfaces <- Ifaces Tuples <- Ports
  Hosts = {h1} Answers <- Moving Sessions <- Usual Configs <- AllConfigs
  Requests <- Plain MaxApplies = 1
INVARIANTS
  OnlyAllowlistReachesSSH
  PublishedIPv6ByTuple
PROPERTIES
  SessionIsCovered
  EverySessionIsCovered
CHECK_DEADLOCK FALSE
