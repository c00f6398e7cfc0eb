\* Two addresses, a point-to-point interface that is removed and created again.
CONSTANTS
  d4 = d4
  ip4 = ip4
  ip6 = ip6
  remote4 = remote4
  V6 <- IsIPv6
  Dests = {d4}
  LocalIPs = {ip4, ip6}
  RemoteIPs = {remote4}
  Remote <- MCRemote
  IsPtP = TRUE
  QueueMax = 2
  MaxIdx = 2
SPECIFICATION FairSpec
INVARIANTS
  TypeOK
  AddressesKnown
  UpIsReal
  TypeKnownWhenUp
PROPERTIES
  NotificationsAreRead
  ShutdownEnds
