CONSTANTS
  t1 = t1
  t2 = t2
  t3 = t3
  h1 = h1
  h2 = h2
  None = None
  Tasks <- MCTasks
  Handles <- MCHandles
  MaxOps = 2
  MaxWakeups = 1
  BareWaits = FALSE
SPECIFICATION FairSpec
CHECK_DEADLOCK FALSE
INVARIANTS TypeOK EventsHaveHandlers TrackedAreOpen RunningIsCurrent NeverStopped QueuedHaveWakeup IterationsEndClean
PROPERTIES ExitIsClean WakeupsArrive
