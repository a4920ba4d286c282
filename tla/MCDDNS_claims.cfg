\* Statements of the documentation that the code does not keep; each is violated.
SPECIFICATION Spec
CONSTANTS
  h1 = h1 h2 = h2 a1 = a1 a2 = a2 a3 = a3 b1 = b1 net = net op1 = op1
  Failing = Failing None = None
  Hosts <- OneHost HostLists <- AllOrNone Addrs <- AllAddrs
  PrefixOf <- OnePrefix Answers <- Moving
  Operators = {op1} TTL = 3 Interval = 2 MaxAge = 4
  Env = {"dns", "refresh", "reboot"}
  MaxEvents = 3
INVARIANTS
  MetadataDescribesSets
  TrustIsRecent
  LiveFollowsApplied
  EmptyIsReported
