SPECIFICATION Spec
CONSTANTS
  BufferSize = 5
  ElementSize = 2
  MaxElements = 3
INVARIANTS DropsOnce
CHECK_DEADLOCK FALSE
