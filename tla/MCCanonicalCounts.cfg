SPECIFICATION Spec
CONSTANTS
  Docs = {d1, d2}
  Texts = {t1, t2}
  NoRow = NoRow
  Resolvers = {h1, h2}
  Aliasers = {j1, j2}
  Reversers = {r1, r2}
  Faults = {"lost", "cascade"}
  MaxBatches = 1
  MaxRows = 2
  MaxCount = 2
SYMMETRY DataSymmetry
CONSTRAINTS
  NotOverlapped
  FewAtOnce
INVARIANTS
  CountsCoverLinks
PROPERTIES
  LinksSurvive
CHECK_DEADLOCK FALSE
