SPECIFICATION Spec
CONSTANTS
  Batches = {b1, b2}
  AmbiguousStart = FALSE
  MaxAttempt = 2
  MaxGenerations = 1
INVARIANTS
  EachRunReplacesTheLast
CHECK_DEADLOCK FALSE
