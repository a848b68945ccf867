SPECIFICATION MCSpec
CONSTANTS
  Requests = {r1, r2}
  Queries = {q1, q2}
  Docs = {d1}
  OldDoc = OldDoc
  NoMessage = NoMessage
  NoQuery = NoQuery
  MaxMessages = 3
  MaxText = 6
  MaxRanks = 3
  Items = {1, 2, 3, 4}
  DefaultPageLimit = 2
  MaxPageLimit = 3
  MaxCreated = 1
  Replicas = {p1, p2}
  Limit = 2
  Window = 2
  MaxBurst = 3
SYMMETRY DataSymmetry
INVARIANTS
  OrdinalsDense
  ReevaluatesItsQuestion
  NamesAgree
  StreamShowsSummary
  SourcesRanked
  WalkShowsAll
  LimitHolds
PROPERTIES
  HistoryKept
CHECK_DEADLOCK FALSE
