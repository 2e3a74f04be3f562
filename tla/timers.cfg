CONSTANTS
  once = once
  every = every
  s1 = s1
  s2 = s2
  s3 = s3
  h1 = h1
  h2 = h2
  None = None
  Timers <- MCTimers
  Periodic <- MCPeriodic
  Waits <- MCWaits
  Handles <- MCHandles
SPECIFICATION FairSpec
INVARIANTS TypeOK SubtasksMatchHost TimersOwnWaits
PROPERTIES CancelledNeverFire EndedWaitsComplete
