SPECIFICATION FairSpec
CONSTANTS
  Requests = {r1, r2}
  Sweepers = {s1}
  MaxDocsPerSession = 1
  MaxDocuments = 2
  HardCap = 3
  IdleTimeout = 2
  WarningLeadTime = 1
INVARIANTS
  ObjectsTracked
  QuotaExcessBounded
PROPERTIES
  SparesActiveSession
  SessionIsSwept
CHECK_DEADLOCK FALSE
