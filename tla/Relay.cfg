CONSTANTS
  Relays = {1, 2}
  Onions = {1, 2}
  Checkpoints = {1, 2}
  Listed = {1}
  L1 = 1
  L2 = 1
  D = 1
  MaxStarts = 2
SPECIFICATION FairSpec
INVARIANTS
  IInv
  BooksBalance
PROPERTIES
  ImplementsCounters
  StartTakesEffect
  OnionsSettle
CHECK_DEADLOCK FALSE
