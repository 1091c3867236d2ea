SPECIFICATION FairSpec
CONSTANTS
  c1 = c1
  c2 = c2
  Clients <- MCClients
  Responsive <- MCResponsive
  MaxClients = 1
  MaxPending = 1
  MaxReliable = 3
  Conflated <- BothKinds
  MaxVersions <- TwoSnapshots
INVARIANTS
  TypeOK
  ReliableGapless
  SnapshotsConverge
PROPERTIES
  
  DoomedClientsLeave
CHECK_DEADLOCK FALSE
