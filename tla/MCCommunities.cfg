SPECIFICATION MCSpec
CONSTANTS
  Entities = {e1, e2, e3}
  Analysts = {a1, a2}
  MaxGraphEntities = 2
  MaxSaves = 3
  MaxChangingSaves = 1
  N = 5
  MaxEdges = 4
  MaxWeight = 2
  MaxPasses = 1000
  ViewNodes = 4
  GroupCap = 2
  GroupShare = 4
  MaxMentions = 5
  Items = 2
  MaxLines = 5
  MaxThemes = 2
CONSTRAINT OneKind
SYMMETRY DataSymmetry
INVARIANTS
  OneResultShown
  SummaryFitsGraph
  LevelsStandForGraph
  GraphShownIsFair
  AnswersFindTheirItems
PROPERTIES
  ModularityNeverFalls
CHECK_DEADLOCK FALSE
