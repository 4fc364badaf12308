SPECIFICATION Spec
CONSTANTS
  Agents = {a1, a2, a3}
  Total = 30
  NumRounds = 3
  MinViable = 2
  Deviations <- Near
  MaxResumes = 1
SYMMETRY Symmetry
CHECK_DEADLOCK FALSE
INVARIANTS
  PlanIsSound
  PlanFitsGate
  TrackersExplainGate
