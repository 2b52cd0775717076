CONSTANTS
  MaxFrames = 5
  MaxHeld = 2
  MaxTime = 1
  Uses = {"event", "any"}
SPECIFICATION Spec
INVARIANT NoDanglingHandle
CHECK_DEADLOCK FALSE
