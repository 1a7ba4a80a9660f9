SPECIFICATION FairSpec
CONSTANTS
  None = None
  s1 = s1
  Station = {s1}
  Runtime = {r1}
  Command = {c1}
  For <- MCFor
  Copies = 2
  MaxEntries = 2
  MaxLen = 1
  MinIdle = 1
  BatchSize = 2
  ResultTTL = 2
  Deadline = 1
  MaxGeneration = 2
  MaxFaults = 1

INVARIANTS
  TypeOK
  RunsOnceUnlessInterrupted
  AnswerIsTruthful
  NothingDropped
PROPERTY CompletedNeverRerun
PROPERTY OnlyGranteeRuns
PROPERTY EntriesDrain
