SPECIFICATION FairSpec
CONSTANTS
  Senders = {s1, s2}
  High = 1
  Low = 1
  RcvBuf = 2
  MaxWire = 1
INVARIANTS ConfirmNotLost NoMissedWakeup BacklogBounded
PROPERTY StallEnds
