SPECIFICATION FairSpec
CONSTANTS
  Deliveries = {d1}
  Requests = {r1}
  Timeout = Timeout
  AmbiguousStart = FALSE
  FileIsRead = TRUE
  MaxAttempt = 2
  MaxLosses = 1
PROPERTIES
  ScanSettles
  ProcessingSettles
CHECK_DEADLOCK FALSE
