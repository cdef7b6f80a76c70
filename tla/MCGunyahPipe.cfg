SPECIFICATION FairSpec
CONSTANTS
  Length = 5
  Reserve = 2
  Sizes <- MCSizes
  SizeWord = 2
  MayTimeout = TRUE
  MaxPkts = 3
INVARIANTS UnreadIntact
PROPERTIES QueueSpec AllPosted
CHECK_DEADLOCK FALSE
