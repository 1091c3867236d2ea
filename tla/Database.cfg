SPECIFICATION FairSpec
CONSTANTS
  Processes = {1, 2}
  Events = {1}
  TicksPerDay = 3
  MaxAge = 3
  MaxSkew = 1
  RawDays = 2
  MinuteDays = 2
  DaysAhead = 1
  BatchSize = 1
  Start = 3
  End = 9
  MaxWait = 1
  MaxFaults = 1
INVARIANTS
  TypeOK
  MigrationsNeverCollide
  CountedOnce
  DefaultGetsNothing
PROPERTIES
  RowsExpire
CHECK_DEADLOCK FALSE
