CONSTANTS
  MaxFrames = 5
  MaxHeld = 2
  MaxTime = 1
  Uses = {"await", "sleep", "all", "any", "once"}
SPECIFICATION FairSpec
PROPERTY Completes
CHECK_DEADLOCK FALSE
