SPECIFICATION FairSpec
CONSTANTS
  Futures = {f1, f2}
INVARIANTS CopiesOwnBuffers
PROPERTIES ReadersAreAnswered
CHECK_DEADLOCK FALSE
