SPECIFICATION FairSpec
CONSTANTS
  w1 = w1
  w2 = w2
  w3 = w3
  Writers <- MCWriters
  RcvBuf = 2
  MaxPkts = 2
INVARIANTS WaiterSignalled ReceiveComing
PROPERTY WriterServed
CHECK_DEADLOCK FALSE
