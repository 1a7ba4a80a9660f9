SPECIFICATION FairSpec
CONSTANTS
  Station = {s1}
  Runtime = {r1, r2}
  Session = {c1, c2}
  Punctual = {}
  TTL = 2
  RenewInterval = 1
  Serial = TRUE
  Durable = FALSE
  None = None
PROPERTIES
  StaleOwnerStepsDown
  StrayLeaseExpires
