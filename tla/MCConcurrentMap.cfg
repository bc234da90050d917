CONSTANTS
  c1 = c1
  c2 = c2
  c3 = c3
  c4 = c4
  k1 = k1
  k2 = k2
  Calls <- MCCalls
  Keys <- MCKeys
  Key <- MCKey
SPECIFICATION FairSpec
INVARIANTS
  IInv
PROPERTIES
  ImplementsCounters
  EveryCallCounts
\* Every call may have ended.
CHECK_DEADLOCK FALSE
