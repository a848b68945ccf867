SPECIFICATION Spec
CONSTANTS
  Deliveries = {d1}
  Requests = {r1}
  Timeout = Timeout
  AmbiguousStart = FALSE
  FileIsRead = TRUE
  MaxAttempt = 1
  MaxLosses = 1
INVARIANTS
  NoBrokenPointer
CHECK_DEADLOCK FALSE
