SPECIFICATION MCSpec
CONSTANTS
  Uploads <- MCUploads
  MaxIndexAttempt = 2
  MaxInserts = 2
  Batches = {b1, b2}
  AmbiguousStart = TRUE
  MaxAttempt = 2
  MaxGenerations = 2
  Names = {1, 2, 3, 4}
  MaxChunks = 3
  Chunks = {"c1", "c2", "c3"}
  Found <- MCFound
  Shared = {2, 3}
  MaxEntitiesForEdges = 2
  Runs = {r1, r2}
  Reviewers = {v1, v2}
  MaxRuns = 2
  MaxReviews = 2
  MaxReplacements = 2
  MaxRune = 3
  MaxBytes = 8
SYMMETRY Requests
INVARIANTS
  IndexedIsWhole
  SplitCovers
  RunReplacesAll
  SavedOnce
  EdgesComplete
  LegsAndLinksComplement
PROPERTIES
  AnswersKept
CHECK_DEADLOCK FALSE
