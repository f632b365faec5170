SPECIFICATION FairMergeSpec
CONSTANTS
  Holder = {"merge", "again", "build"}
  Kind <- MCKind
  Wants <- MCWants
  Parent <- MCParent
  Agent = {"A"}
  Token = {"t"}
  NoParent = NoParent
  NoToken = NoToken
  MaxStops = 1
CONSTRAINT InOrder
CHECK_DEADLOCK FALSE
INVARIANTS
  MergeTypeOK
  QuietWhileLanding
PROPERTIES
  ReservationEnds
