SPECIFICATION FairSpec
CONSTANTS
  Holder = {"j1", "j2"}
  Command = {}
  Build = {"j1"}
  InCodebase = {"j1", "j2"}
  MaxFaults = 1
  MaxCancels = 0
  MaxCalls = 1
  Rejecting = TRUE
  Kind <- MCKind
  Wants <- MCWants
  Parent <- MCParent
  Agent = {"A"}
  Token = {"t1", "t2"}
  NoParent = NoParent
  NoToken = NoToken
CHECK_DEADLOCK FALSE
INVARIANTS
  BuildResultSurvives
PROPERTIES
  UsesOperationLocks
  EveryJobSettles
