SPECIFICATION Spec
CONSTANTS
  r1 = r1
  r2 = r2
  r3 = r3
  r4 = r4
  r5 = r5
  r6 = r6
  e1 = e1
  e2 = e2
  e3 = e3
  Requests <- MCRequests
  Events <- MCEvents
  Rows <- MCRows
  RequestOf <- MCRequestOf
  EventOf <- MCEventOf
  Bad <- MCBad
  Form <- MCForm
  Invalid <- MCInvalid
  MaxQueued = 5
  MaxBatch = 3
  MaxFaults = 1
  MaxCrashes = 0
INVARIANTS
  AckCoversOwnRows
CHECK_DEADLOCK FALSE
