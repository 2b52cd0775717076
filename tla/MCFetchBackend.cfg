CONSTANTS
  MaxStarts = 3
SPECIFICATION FairSpec
CHECK_DEADLOCK FALSE
INVARIANT TypeOK
INVARIANT TellsTheTruth
PROPERTY CancelHonoured
PROPERTY BusyEnds
