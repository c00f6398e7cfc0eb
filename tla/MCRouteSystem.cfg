\* The manager, the tracker and the kernel, from an empty table or after a restart.
CONSTANTS
  d1 = d1
  ip1 = ip1
  ip2 = ip2
  V6 <- OnlyIPv4
  Dests = {d1}
  LocalIPs = {ip1, ip2}
  RemoteIPs = {}
  Remote <- MCRemote
  IsPtP = FALSE
  TTLs = {0}
  ExtraTTL = 1
  MgInterval = 1
  MgPercent = 100
  AddRetryCount = 2
  FloatBits = 7
  MayFail = {"addBlackhole", "addUnicast", "delUnicast", "delBlackhole"}
  Leftovers = {{}, {"unicast", "blackhole"}}
  QueueMax = 2
  MaxIdx = 1
  MaxTime = 1
  MaxMarks = 2
  MaxChanges = 2
  MaxAdmin = 1
SYMMETRY AddressesAlike
SPECIFICATION Spec
INVARIANTS
  KillSwitchInPlace
  NoLeftovers
  ActiveIsInstalled
