SPECIFICATION FairCPSpec
CONSTANTS
  MaxWords = 3
  MaxSends = 2
  MaxDeaths = 1
INVARIANTS
  TextSurvives
  OrderIsKept
PROPERTIES
  SendConcludes
CHECK_DEADLOCK FALSE
