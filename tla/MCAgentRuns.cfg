SPECIFICATION Spec
CONSTANTS
  Run = {r1, r2}
  Limit <- MCLimit
  NoRun = NoRun
  MaxCommands = 2
  MaxFaults = 3
INVARIANTS
  AgentRunsTypeOK
  SourceProtected
  SlotsRespected
PROPERTIES
  NeverReplayed
  FinalUnlessSuperseded
  AdmittedInOrder
CHECK_DEADLOCK FALSE
