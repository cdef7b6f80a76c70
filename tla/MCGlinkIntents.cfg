SPECIFICATION LiveSpec
CONSTANTS
  s1 = s1
  s2 = s2
  Senders = {s1, s2}
  Lens = {1, 2}
  Base = 1
  CbIrq = TRUE
  MayTimeout = TRUE
  MaxSends = 2
  MaxReqs = 3
  None = None
INVARIANTS TypeOK OneUser DataLands
PROPERTIES IntentsReturn SendsEnd AbortEndsSends
CHECK_DEADLOCK FALSE
