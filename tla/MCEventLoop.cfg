CONSTANTS
  Handle = {a, b, c, d}
  NoHandle = NoHandle
  MaxTime = 3
SPECIFICATION FairSpec
INVARIANT TypeOK
INVARIANT RegisteredOnce
INVARIANT SnapshotServed
PROPERTY ImplementsScheduler
PROPERTY TimersInOrder
PROPERTY RunOnceReturns
PROPERTY EveryHandleServed
