SPECIFICATION FairSpec
CONSTANTS
  None = None
  Other = Other
  Order <- MCOrder
  Optional = {"ingress"}
  Replicas = {1, 2}
  MaxUID = 2
  MaxTroubles = 2

INVARIANT TypeOK
PROPERTY OthersNotOverwritten
PROPERTY ObservedGenerationSound
PROPERTY Converges
CHECK_DEADLOCK FALSE
