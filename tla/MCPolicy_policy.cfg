SPECIFICATION Spec
CONSTANTS
  a4 = a4 b4 = b4 a6 = a6 n6 = n6 b6 = b6 pa = pa pb = pb
  eth = eth docker0 = docker0 lan = lan vpn = vpn h1 = h1
  None = None Failing = Failing
  Addrs <- FiveAddrs FamilyOf <- Family PrefixOf <- Masked
  WAN = eth Bridge = docker0 Interfaces <- Ifaces Tuples <- Ports
  Hosts = {h1} Answers <- Moving Sessions <- Usual Configs <- ValidConfigs
  Requests <- AllRequests MaxApplies = 1
INVARIANTS
  WANIsClosed
  PublishedIPv4ByTuple
PROPERTIES
  CoveredWhenLoaded
CHECK_DEADLOCK FALSE
