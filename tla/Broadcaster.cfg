SPECIFICATION FairSpec
CONSTANTS
  g1 = g1
  g2 = g2
  RestCalls <- OverlappingCalls
  FeedLength = 2
  MaxBatches = 2
  MaxFaults = 1
INVARIANTS
  TypeOK
  SnapshotCovers
  CommitRemembered
PROPERTIES
  SnapshotConverges
CHECK_DEADLOCK FALSE
