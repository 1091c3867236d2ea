SPECIFICATION FairSpec
CONSTANTS
  i1 = i1
  i2 = i2
  stalled = stalled
  Instances <- TwoInstances
  RuleList <- OneRule
  Verdicts <- AllVerdicts
  FireAfter = 2
  ResolveAfter = 2
  MaxFaults = 1
  MaxCrashes = 1
INVARIANTS
  TypeOK
  AlertsAgree
PROPERTIES
  NoFlapping
  AlertsFollow
CHECK_DEADLOCK FALSE
