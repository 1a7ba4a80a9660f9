SPECIFICATION FairSpec
CONSTANTS
  b1 = b1
  b2 = b2
  u1 = u1
  u2 = u2
  u3 = u3
  s1 = s1
  k1 = k1
  k2 = k2
  r1 = r1
  r2 = r2
  None = None
  Boot = {b1, b2}
  Status = {u1, u2, u3}
  Row = {s1, k1, k2}
  RowOf <- MCRowOf
  StationOf <- MCStationOf
  Runtime = {r1, r2}
  At <- MCAt
  MaxOpenConns = 2
CHECK_DEADLOCK FALSE
INVARIANTS
  RowIsLastEvent
  ConfirmedNotLost
PROPERTIES
  RepositoryPromise
  EveryNotificationAnswered
