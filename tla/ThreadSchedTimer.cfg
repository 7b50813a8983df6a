CONSTANTS
  Core = {0, 1}
  Thread = {0, 1}
  host <- MCHost
  None = None
  thread_preempt = 2
  PausedInterrupt = TRUE
  MaxEarly = 2
  MaxDisables = 0
SPECIFICATION Spec
INVARIANT AskedEveryPreempt
