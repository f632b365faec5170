SPECIFICATION FairSpec
CONSTANTS
  Run = {r1}
  Limit <- MCLimit
  NoRun = NoRun
  MaxCommands = 3
  MaxFaults = 1
INVARIANTS
  OneProviderPerRun
PROPERTIES
  ClaimsSettle
  
CHECK_DEADLOCK FALSE
