SPECIFICATION Spec
CONSTANTS
  None = None
  Station = {s1, s2}
  Runtime = {r1, r2}
  TTL = 2
  MaxGeneration = 3
  MaxTime = 4
PROPERTY MemoryPromise
