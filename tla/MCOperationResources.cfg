SPECIFICATION Spec
CONSTANT MaxDeclared = 2
INVARIANTS
  ConflictIsOverlap
  FencesCoverConflicts
  NormalizationKeepsConflicts
CHECK_DEADLOCK FALSE
