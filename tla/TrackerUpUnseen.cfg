\* An interface is up before it gets its first address.
CONSTANTS
  d4 = d4
  ip4 = ip4
  ip6 = ip6
  remote4 = remote4
  V6 <- IsIPv6
  Dests = {d4}
  LocalIPs = {ip4}
  RemoteIPs = {remote4}
  Remote <- MCRemote
  IsPtP = FALSE
  QueueMax = 2
  MaxIdx = 1
SPECIFICATION Spec
INVARIANT UpInterfaceIsPublished
