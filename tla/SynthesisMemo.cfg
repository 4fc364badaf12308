SPECIFICATION Spec
CONSTANTS
  NumAgents = 4
  Stances = {Buy, Sell, Pass}
  Buy = Buy
  Sell = Sell
  Pass = Pass
  Confidences = {0, 70}
CHECK_DEADLOCK FALSE
INVARIANTS
  DissentShows
  RecommendationIsCarried
  DissentAccountsAgree
