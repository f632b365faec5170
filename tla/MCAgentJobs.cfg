SPECIFICATION FairSpec
CONSTANTS
  Holder = {"j1"}
  Command = {}
  Build = {"j1"}
  InCodebase = {"j1"}
  MaxFaults = 2
  MaxCancels = 1
  MaxCalls = 2
  Rejecting = FALSE
  Kind <- MCKind
  Wants <- MCWants
  Parent <- MCParent
  Agent = {"A"}
  Token = {"t1", "t2"}
  NoParent = NoParent
  NoToken = NoToken
CHECK_DEADLOCK FALSE
INVARIANTS
  AgentJobsTypeOK
  ProcessesProtected
  HeldIsListed
  HandlerRunsOnce
PROPERTIES
  FirstCompletionCounts
  EveryJobSettles
