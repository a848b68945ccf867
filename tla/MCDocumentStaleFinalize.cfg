SPECIFICATION Spec
CONSTANTS
  Deliveries = {d1}
  Requests = {r1}
  Timeout = Timeout
  AmbiguousStart = TRUE
  FileIsRead = TRUE
  MaxAttempt = 2
  MaxLosses = 0
PROPERTIES
  StaleFinalizeDoesNothing
CHECK_DEADLOCK FALSE
