SPECIFICATION FairSpec
CONSTANTS
  MaxBuffer = 3
  FlushThreshold = 2
  MaxAdds = 6
  MaxFaults = 2
INVARIANTS
  TypeOK
  LettersAccounted
  StopFlushes
PROPERTIES
  LettersLeaveBuffer
CHECK_DEADLOCK FALSE
