SPECIFICATION FairSpec
CONSTANTS
  Holder = {"j1"}
  Command = {"j1"}
  Build = {}
  InCodebase = {"j1"}
  MaxFaults = 0
  MaxCancels = 1
  MaxCalls = 2
  Rejecting = FALSE
  Kind <- MCKind
  Wants <- MCWants
  Parent <- MCParent
  Agent = {"A"}
  Token = {"t1", "t2"}
  NoParent = NoParent
  NoToken = NoToken
CHECK_DEADLOCK FALSE
PROPERTIES
  QueuedCancellationEnds
