CONSTANTS
  MaxFrames = 8
  MaxHeld = 2
  MaxTime = 1
  Uses = {"all", "any", "sleep", "throw"}
SPECIFICATION Spec
INVARIANT TypeOK
INVARIANT NoDanglingHandle
INVARIANT NoneForgotten
PROPERTY FirstWins
PROPERTY UsesLoopCorrectly
PROPERTY DestroyedAtRest
PROPERTY GroupOutcome
PROPERTY RunFinishes
PROPERTY TerminatesForSpawned
CHECK_DEADLOCK FALSE
