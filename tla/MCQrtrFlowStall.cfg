SPECIFICATION FairSpec
CONSTANTS
  Senders = {s1, s2}
  High = 1
  Low = 1
  RcvBuf = 1
  MaxWire = 1
PROPERTY FailedTxMarkNoticed
