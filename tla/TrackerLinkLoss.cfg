\* A link is removed before its last notifications are read.
CONSTANTS
  d4 = d4
  ip4 = ip4
  ip6 = ip6
  remote4 = remote4
  V6 <- IsIPv6
  Dests = {d4}
  LocalIPs = {ip4}
  RemoteIPs = {remote4}
  Remote <- MCRemote
  IsPtP = FALSE
  QueueMax = 3
  MaxIdx = 1
SPECIFICATION Spec
INVARIANT LinkLossIsSeen
