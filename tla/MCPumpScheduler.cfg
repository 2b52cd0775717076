CONSTANTS
  Handle = {a, b, c}
  MaxTime = 5
  Ms = 2
  Slack = 1
  UserTimerMinimum = 1
  UserTimerMaximum = 2
SPECIFICATION FairSpec
CHECK_DEADLOCK FALSE
INVARIANT TypeOK
INVARIANT NeverOversleeps
PROPERTY TimersInOrder
PROPERTY ImplementsScheduler
PROPERTY EveryHandleServed
