\* Six mixers, three gatekeepers and a threshold between the two extremes:
\* every one of the 2^6 orders of bruises is a behaviour.
CONSTANTS
  L1 = 6
  L2 = 3
  D = 3
SPECIFICATION FairSpec
INVARIANTS
  IInv
  ThresholdDecides
  OnlyLastGatekeeperFails
  SepalForeseen
PROPERTIES
  ImplementsCounter
  BelowThresholdArrives
CHECK_DEADLOCK FALSE
