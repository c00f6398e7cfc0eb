\* Liveness: the worker against losses, an unconfirming kernel and shutdown.
CONSTANTS
  d4 = d4
  d6 = d6
  ip4 = ip4
  ip6 = ip6
  V6 <- IsIPv6
  Dests = {d4, d6}
  LocalIPs = {ip4, ip6}
  Configs <- DownUp
  TTLs = {0}
  ExtraTTL = 1
  MgInterval = 2
  MgPercent = 50
  AddRetryCount = 3
  FloatBits = 7
  MaxTime = 3
  MaxMarks = 3
SPECIFICATION FairSpec
PROPERTIES
  ExpiredRouteIsDropped
  PendingRouteIsSettled
  ShutdownEnds
