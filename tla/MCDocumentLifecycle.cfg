SPECIFICATION Spec
CONSTANTS
  Deliveries = {d1}
  Requests = {r1, r2}
  Timeout = Timeout
  AmbiguousStart = TRUE
  FileIsRead = FALSE
  MaxAttempt = 2
  MaxLosses = 0
SYMMETRY ActorSymmetry
INVARIANTS
  ProcessedWasClean
  CleanFileKept
PROPERTIES
  RejectedStaysFailed
CHECK_DEADLOCK FALSE
