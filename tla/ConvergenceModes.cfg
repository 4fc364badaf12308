SPECIFICATION Spec
CONSTANTS
  NumAgents = 3
  NumRounds = 3
  Buy = Buy
  Sell = Sell
  e1 = e1
  e2 = e2
  Stances <- MCStances
  Evidences <- MCEvidences
  Figures <- MCFigures
  Low = 40
  High = 75
  MaxResumes = 1
SYMMETRY Symmetry
CHECK_DEADLOCK FALSE
INVARIANTS
  ModeFollowsRecord
  NothingForgotten
  CourseIsEarned
  DirectivesRotate
