CONSTANTS
  Handle = {h1, h2}
  Moment <- Moments
  MaxCalls = 3
SPECIFICATION TracingSpec
CHECK_DEADLOCK FALSE
INVARIANT TypeOK
INVARIANT TraceIsTrue
PROPERTY ImplementsScheduler
