CONSTANTS
  Moment <- MCMoment
  Handle = {h1, h2}
  None = None
  MaxSchedules = 4
SPECIFICATION Spec
INVARIANT TypeOK
PROPERTY ImplementsQueue
