SPECIFICATION Spec
CONSTANTS
  Op = {"test1", "test2", "delete1", "delete2"}
  Claims <- MCClaims
  Optional <- MCOptional
INVARIANTS
  NoClosedChain
