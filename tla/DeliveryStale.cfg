SPECIFICATION Spec
CONSTANTS
  None = None
  s1 = s1
  Station = {s1}
  Runtime = {r1, r2}
  Command = {c1}
  For <- MCFor
  Copies = 1
  MaxEntries = 1
  MaxLen = 1
  MinIdle = 1
  BatchSize = 2
  ResultTTL = 3
  Deadline = 2
  MaxGeneration = 2
  MaxFaults = 0

PROPERTY StaleOwnerNeverRuns
