\* IPv6, whose removal from the table is announced; and the end of every route.
CONSTANTS
  d1 = d1
  ip1 = ip1
  ip2 = ip2
  V6 <- OnlyIPv6
  Dests = {d1}
  LocalIPs = {ip1}
  RemoteIPs = {}
  Remote <- MCRemote
  IsPtP = FALSE
  TTLs = {0}
  ExtraTTL = 1
  MgInterval = 1
  MgPercent = 100
  AddRetryCount = 2
  FloatBits = 7
  MayFail = {"addUnicast", "delUnicast"}
  Leftovers = {{}}
  QueueMax = 3
  MaxIdx = 1
  MaxTime = 2
  MaxMarks = 2
  MaxChanges = 1
  MaxAdmin = 0
SPECIFICATION FairSpec
INVARIANT
  ActiveIsInstalled
PROPERTY RoutesAreCleared
