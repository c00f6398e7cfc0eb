\* Three frames per connection, cut into pieces of any size.
CONSTANTS
  Base = 2
  V4Len = 1
  V6Len = 3
  HashLen = 2
  Payloads <- MCPayloads
  Decode <- MCDecode
  MaxFrames = 3
SPECIFICATION FairSpec
INVARIANTS
  TypeOK
  PayloadsAreThoseSent
  NothingIsKeptBack
  OrderIsTotal
  SameBytesSameKey
PROPERTIES
  FramesAreDecoded
  ShutdownEnds
