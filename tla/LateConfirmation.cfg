\* The interface loses its address while a confirmation is on its way.
CONSTANTS
  d1 = d1
  ip1 = ip1
  ip2 = ip2
  V6 <- OnlyIPv4
  Dests = {d1}
  LocalIPs = {ip1}
  RemoteIPs = {}
  Remote <- MCRemote
  IsPtP = FALSE
  TTLs = {0}
  ExtraTTL = 1
  MgInterval = 1
  MgPercent = 100
  AddRetryCount = 2
  FloatBits = 7
  MayFail = {"addUnicast"}
  Leftovers = {{}}
  QueueMax = 2
  MaxIdx = 1
  MaxTime = 2
  MaxMarks = 2
  MaxChanges = 2
  MaxAdmin = 0
SPECIFICATION Spec
INVARIANT LateConfirmationIsInstalled
