SPECIFICATION FairSpec
CONSTANTS
  NumRounds = 3
  Total = 5
  Usages = {2}
  TornWrites = TRUE
  MongoFails = TRUE
  MaxCrashes = 3
  MaxChecks = 1
CHECK_DEADLOCK FALSE
INVARIANTS
  FilesConsistent
  OneRerunPerCrash
  MongoMatchesTrace
PROPERTIES
  CompletedIsFinal
  
