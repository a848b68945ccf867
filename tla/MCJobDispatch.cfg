SPECIFICATION MCSpec
CONSTANTS
  Keys = {k1}
  NoKey = NoKey
  Publishers = {p1, p2}
  MaxAttempt = 3
  MaxPublished = 2
CONSTRAINT MayBeTold
INVARIANTS
  TypeOK
  OneDispatcher
  ProgressHasRun
  ActiveIsOwned
  CompleteIsFinal
PROPERTIES
  OutcomeStable
  ImplementsLifecycle
  AttemptsFinish
CHECK_DEADLOCK FALSE
