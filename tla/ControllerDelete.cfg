SPECIFICATION Spec
CONSTANTS
  None = None
  Other = Other
  Order <- MCOrder
  Optional = {"ingress"}
  Replicas = {1}
  MaxUID = 1
  MaxTroubles = 1

PROPERTY DeletesOnlyItsOwn
CHECK_DEADLOCK FALSE
