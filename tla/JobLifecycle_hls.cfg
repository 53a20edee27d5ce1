SPECIFICATION FairSpec
CONSTANTS
  j1 = j1
  j2 = j2
  f1 = f1
  w1 = w1
  w2 = w2
  NoJob = NoJob
  Jobs <- OneJob
  Files <- OneFile
  Workers <- OneWorker
  FileOf <- AllOnF1
  KindOf <- OneHls
  MaxDeliveries = 1
  AutoDelete = FALSE
  MaxRequests = 0
  MaxErasures = 0
CHECK_DEADLOCK FALSE
PROPERTY EveryKindIsHandled
