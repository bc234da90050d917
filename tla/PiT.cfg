CONSTANTS
  Relays = {1, 2}
  NoRelay = 0
  Runs <- MCRuns
  L1 = 1
  L2 = 1
  D = 1
SPECIFICATION FairSpec
INVARIANTS
  IInv
  NothingOvertakesStart
  ServedAtRest
PROPERTIES
  EverybodyServed
CHECK_DEADLOCK FALSE
