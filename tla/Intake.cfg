SPECIFICATION Spec
CONSTANTS
  r1 = r1
  r2 = r2
  r3 = r3
  w1 = w1
  Torn = Torn
  Requests <- ThreeRequests
  Workers <- OneWorker
  Serial = TRUE
  OriginHead = TRUE
  MaxFaults = 2
INVARIANTS StaysUntilAnswered IdsMeanOneRequest SeriesHoldOneRequest
PROPERTIES EveryRequestProcessed
CHECK_DEADLOCK FALSE
