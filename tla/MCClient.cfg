CONSTANTS
  Runs <- MCRuns
SPECIFICATION FairSpec
INVARIANTS
  IInv
  WrittenToOnce
  OneStartIsSafe
PROPERTIES
  ImplementsMail
  StartsEnd
CHECK_DEADLOCK FALSE
