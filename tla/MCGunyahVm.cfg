SPECIFICATION FairSpec
CONSTANTS
  MaxLives = 2
  MaxWords = 3
INVARIANTS WordsComing
PROPERTY WordsRead
CHECK_DEADLOCK FALSE
