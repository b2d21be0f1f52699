SPECIFICATION Spec
CONSTANTS
  Id <- MCId
  Intel = intel
  Other = other
INVARIANTS
  TypeOK
  GenerationIsListed
  SearchesAgree
  OnlyOverlookedFail
CHECK_DEADLOCK FALSE
