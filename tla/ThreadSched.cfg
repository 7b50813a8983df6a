CONSTANTS
  Core = {0, 1, 2}
  Thread = {0, 1}
  host <- MCHost
  None = None
  thread_preempt = 2
  PausedInterrupt = TRUE
  MaxEarly = 2
  MaxDisables = 2
SPECIFICATION Spec
INVARIANTS TypeOK PlacedOnce RecordAgrees StalledWhenAway EnableIsSafe
PROPERTY EveryThreadRuns
