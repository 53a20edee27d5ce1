SPECIFICATION Spec
CONSTANTS
  d1 = d1
  d2 = d2
  d3 = d3
  e1 = e1
  e2 = e2
  w1 = w1
  w2 = w2
  r1 = r1
  r2 = r2
  None = None
  Deliveries <- ThreeDeliveries
  Entries <- OneEntry
  Workers <- OneWorker
  Requests <- TwoRequests
  MaxAttempts = 2
  MaxDeliveries = 3
  HandlerRegistered = TRUE
CHECK_DEADLOCK FALSE
INVARIANT RetriedOnce
