CONSTANTS
  MaxFrames = 5
  MaxHeld = 2
  MaxTime = 0
  Uses = {"await", "spawn", "throw", "event", "all", "move"}
SPECIFICATION Spec
INVARIANT NoDanglingHandle
INVARIANT OneOwner
PROPERTY UsesLoopCorrectly
PROPERTY RunFinishes
CHECK_DEADLOCK FALSE
