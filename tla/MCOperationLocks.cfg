SPECIFICATION FairLockSpec
CONSTANTS
  Holder = {"build", "inspect", "merge", "move", "cleanup", "measure"}
  Kind <- MCKind
  Wants <- MCWants
  Parent <- MCParent
  Agent = {"A"}
  Token = {"t"}
  NoParent = NoParent
  NoToken = NoToken
INVARIANTS
  LockTypeOK
  MutualExclusion
PROPERTIES
  NoBarging
  ImplementsResourceLock
  QueuedIsSettled
