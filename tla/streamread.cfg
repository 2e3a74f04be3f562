SPECIFICATION FairSpec
CONSTANTS
  BufferSize = 7
  ElementSize = 2
  MaxElements = 6
INVARIANTS NothingLost ReadsFollowListener
PROPERTIES ImplementsPipe EndIsSeen
CHECK_DEADLOCK FALSE
