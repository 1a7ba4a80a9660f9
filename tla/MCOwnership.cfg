SPECIFICATION Spec
CONSTANTS
  Station = {s1}
  Runtime = {r1, r2}
  Session = {c1, c2, c3}
  Punctual = {r1}
  TTL = 3
  RenewInterval = 2
  Serial = TRUE
  Durable = TRUE
  None = None
SYMMETRY SessionSymmetry
INVARIANTS
  TypeOK
  NewestClaimOwns
  GenerationUnique
  EntriesMatchSessions
  PunctualKeepsLease
PROPERTIES
  LiveLeaseNotReleased
  RegistryPromise
