SPECIFICATION FairSpec
CONSTANTS
  h1 = h1 h2 = h2 a1 = a1 a2 = a2 a3 = a3 b1 = b1 net = net op1 = op1
  Failing = Failing None = None
  Hosts <- TwoHosts HostLists <- AllOrNone Addrs <- AllAddrs
  PrefixOf <- OnePrefix Answers <- TwoKinds
  Operators = {op1} TTL = 2 Interval = 1 MaxAge = 0
  Env = {"dns", "refresh", "edit", "apply", "kill", "reboot", "nft", "flush"}
  MaxEvents = 3
INVARIANTS
  NoPartialAnswer
PROPERTIES
  RefreshNeverEmpties
  Converges
