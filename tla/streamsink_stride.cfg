SPECIFICATION Spec
CONSTANTS
  ElementSize = 2
  MaxChunk = 2
  MaxElements = 2
INVARIANTS SendsTheElements
CHECK_DEADLOCK FALSE
