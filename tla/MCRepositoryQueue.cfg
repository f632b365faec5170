SPECIFICATION FairSpec
CONSTANTS
  Task = {"edit", "push", "build1", "status", "diff", "fetch"}
  Kind <- MCKind
INVARIANTS
  CheckoutStable
PROPERTIES
  OrderKept
  EveryTaskStarts
