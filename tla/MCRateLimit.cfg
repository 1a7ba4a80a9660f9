SPECIFICATION Spec
CONSTANTS
  None = None
  Runtime = {r1, r2}
  Credential = {k1}
  Limit = 2
  Window = 3
  MaxSkew = 2
  MaxDelay = 1
  MaxTime = 4
  MaxCalls = 10

INVARIANTS
  TypeOK
  BurstBounded
  RefusedOnlyWhenUsedUp
  LifeFromFirstUse

SYMMETRY MCSymmetry
CHECK_DEADLOCK FALSE
