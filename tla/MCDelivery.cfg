\* Two threads, two senders; one of the two subscribers has a lock.
CONSTANTS
  Threads = {t1, t2}
  Senders = {s1, s2}
  Subscribers = {x1, x2}
  Locked = {x1}
  MaxLines = 2
SPECIFICATION FairDeliverySpec
INVARIANTS
  CallersAreOnTheStack
  OutermostIsServed
  LinesAreWhole
PROPERTY CallsReturn
