SPECIFICATION FairSpec
CONSTANTS
  r1 = r1
  r2 = r2
  r3 = r3
  r4 = r4
  r5 = r5
  r6 = r6
  e1 = e1
  e2 = e2
  e3 = e3
  Requests <- EdgeRequests
  Events <- EdgeEvents
  Rows <- EdgeRows
  RequestOf <- EdgeRequestOf
  EventOf <- EdgeEventOf
  Bad <- EdgeBad
  Form <- EdgeForm
  Invalid <- EdgeInvalid
  MaxQueued = 2
  MaxBatch = 1
  MaxFaults = 1
  MaxCrashes = 0
INVARIANTS
  InvalidItemsRecordedOnce
PROPERTIES
  WriterFinishes
CHECK_DEADLOCK FALSE
