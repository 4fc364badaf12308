SPECIFICATION RosterSpec
CONSTANTS
  f = f
  m = m
  c1 = c1
  c2 = c2
  x = x
  NoSelection = NoSelection
  Core <- MCCore
  Customs = {c1, c2}
  Configs <- MCConfigs
  MaxBuilds = 2
INVARIANTS
  RosterUsable
  DefaultCustomsAreCurrent
  NamedAgentsStay
  NobodyUnlisted
PROPERTY ReadersOnlyInsert
CHECK_DEADLOCK FALSE
