SPECIFICATION Spec
CONSTANTS
  j1 = j1
  j2 = j2
  f1 = f1
  w1 = w1
  w2 = w2
  NoJob = NoJob
  Jobs <- TwoJobs
  Files <- OneFile
  Workers <- TwoWorkers
  FileOf <- AllOnF1
  KindOf <- BothTranscode
  MaxDeliveries = 1
  AutoDelete = TRUE
  MaxRequests = 0
  MaxErasures = 1
SYMMETRY Alike
CHECK_DEADLOCK FALSE
INVARIANTS
  NoDanglingVariant
  OriginalKeptUntilStored
