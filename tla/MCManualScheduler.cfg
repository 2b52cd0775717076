CONSTANTS
  Handle = {a, b, c}
  NoHandle = NoHandle
  MaxTime = 3
SPECIFICATION FairSpec
INVARIANT TypeOK
INVARIANT NoneLeftBehind
PROPERTY ImplementsScheduler
PROPERTY SeesOwnDeadline
PROPERTY AdvanceReturns
