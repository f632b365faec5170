SPECIFICATION MoveSpec
CONSTANTS
  Holder = {"move", "push", "initial", "stash", "cleanup"}
  Kind <- MCKind
  Wants <- MCWants
  Parent <- MCParent
  Agent = {"A", "B"}
  Token = {"t"}
  NoParent = NoParent
  NoToken = NoToken
  Move = "move"
  Push = "push"
  Initial = "initial"
  Stash = "stash"
  Cleanup = "cleanup"
  Calls <- MCCalls
  MaxFaults = 1
CHECK_DEADLOCK FALSE
INVARIANTS
  MoveTypeOK
  ActiveIsReserved
  DestinationFirst
