SPECIFICATION MetricsSpec
CONSTANTS
  Kinds <- MCKinds
  Dimensions <- MCDimensions
  Minute = 2
  Hour = 4
  MaxAge = 3
  MaxSkew = 1
  WindowMinutes = 2
  HourlyHours = 2
  RateWindow = 2
  AlertMinutes = 1
  CancellationAt = 60
  DropAt = 50
  DeadLetterAt = 50
  ResolveRatio = 80
  MinOrders = 1
  MinBaseline = 2
  MinReceived = 1
  StallAfter = 2
  ClockStart = 4
  ClockEnd = 7
  MaxRows = 2
  MaxDuplicates = 1
  MaxRejected = 1
INVARIANTS
  AggregatesMatchEvents
  
  
CHECK_DEADLOCK FALSE
