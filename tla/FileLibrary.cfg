SPECIFICATION FairSpec
CONSTANTS
  f1 = f1
  f2 = f2
  f3 = f3
  s1 = s1
  s2 = s2
  Files = {f1, f2, f3}
  NoFile = NoFile
  Slots = {s1, s2}
  FilesLimit = 1
  BatchSize = 1
  TrashDays = 1
  Retentions = {1}
  MaxAge = 1
  MaxFailures = 1
INVARIANTS OverrunIsBounded KeptFileHasOriginal NoForgottenObject
PROPERTIES GraceKept TrashIsEmptied
CHECK_DEADLOCK FALSE
