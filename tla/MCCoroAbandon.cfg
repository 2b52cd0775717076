CONSTANTS
  MaxFrames = 4
  MaxHeld = 2
  MaxTime = 1
  Uses = {"event"}
SPECIFICATION Spec
PROPERTY RootCompletes
CHECK_DEADLOCK FALSE
