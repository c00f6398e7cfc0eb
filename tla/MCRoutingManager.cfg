\* Two destinations of different families; three tries.
CONSTANTS
  d4 = d4
  d6 = d6
  ip4 = ip4
  ip6 = ip6
  V6 <- IsIPv6
  Dests = {d4, d6}
  LocalIPs = {ip4, ip6}
  Configs <- MCConfigs
  TTLs = {0, 1}
  ExtraTTL = 1
  MgInterval = 1
  MgPercent = 100
  AddRetryCount = 3
  FloatBits = 7
  MaxTime = 4
  MaxMarks = 3
SPECIFICATION Spec
INVARIANTS
  TypeOK
  PendingXorActive
  ActiveRouteHasItsMark
  RetryBudget
  LoopNeverRunsDry
  SocketOpenWhileSending
  RequestsMatchState
PROPERTY LeaseSpec
