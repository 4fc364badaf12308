SPECIFICATION FairSpec
CONSTANTS
  s = s
  b = b
  Debates = {s, b}
  NoDebate = NoDebate
  Streamed = {s}
  Published = {b}
  Claimed = {s}
  MaxAgents = 2
  NumRounds = 2
  Team <- MCTeam
  Past <- MCPast
INVARIANTS
  NoFrameLost
  ViewMakesSense
  ToldOnlySaved
  GaugesTell
  MetricsStayHome
PROPERTIES
  StopsWithStream
  StreamEnds
CHECK_DEADLOCK FALSE
