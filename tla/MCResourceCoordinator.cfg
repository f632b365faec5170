SPECIFICATION FairSpec
CONSTANTS
  Op = {"build1", "build2", "inspect1", "edit", "fetch", "remove"}
  Claims <- MCClaims
  Optional <- MCOptional
INVARIANTS
  CoordinatorTypeOK
  Exclusive
  TryNeverWaits
PROPERTIES
  NoOvertaking
  EveryClaimSettles
