SPECIFICATION LiveSpec
CONSTANTS
  w1 = w1
  w2 = w2
  a1 = a1
  a2 = a2
  Writers = {w1, w2}
  Addrs = {a1, a2}
  NumTcs = 2
  Groups = {TRUE, FALSE}
  Solver = TRUE
  None = None
INVARIANTS NoConflict DoneMeansDone NoStray WakeComing
PROPERTY WritesEnd
CONSTRAINT Trusted
