SPECIFICATION CliSpec
CONSTANTS
  f1 = f1
  f2 = f2
  Files = {f1, f2, f3}
  Batch = Batch
  Parallel = 2
  Chunks = 2
  maxConsecutiveErrors = 2
  NameOf <- SavedNames
  Nothing = Nothing
  f3 = f3
CHECK_DEADLOCK FALSE
INVARIANTS
  Accounted
PROPERTIES
  CommandEnds
