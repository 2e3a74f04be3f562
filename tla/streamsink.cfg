SPECIFICATION FairSpec
CONSTANTS
  ElementSize = 1
  MaxChunk = 3
  MaxElements = 6
INVARIANTS WritesAreExclusive
PROPERTIES ImplementsPipe SinkEnds
CHECK_DEADLOCK FALSE
