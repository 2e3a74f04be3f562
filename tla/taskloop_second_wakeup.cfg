CONSTANTS
  t1 = t1
  t2 = t2
  t3 = t3
  h1 = h1
  h2 = h2
  None = None
  Tasks <- MCThreeTasks
  Handles <- MCHandles
  MaxOps = 1
  MaxWakeups = 2
  BareWaits = FALSE
SPECIFICATION Spec
CHECK_DEADLOCK FALSE
INVARIANT QueuedHaveWakeup
