SPECIFICATION FairSpec
CONSTANTS
  MaxFaults = 2
  MaxCalls = 2
  FeedLimit = 2
  RecentLimit = 2
  MaxSnapshots = 2
  MaxToggles = 1
  MaxEvents = 2
INVARIANTS
  TypeOK
  OneLiveSocket
  StateTruthful
  
PROPERTIES
  Converges
CHECK_DEADLOCK FALSE
