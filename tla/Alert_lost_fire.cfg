SPECIFICATION FairSpec
CONSTANTS
  i1 = i1
  i2 = i2
  stalled = stalled
  Instances <- OneInstance
  RuleList <- OneRule
  Verdicts <- SharpVerdicts
  FireAfter = 2
  ResolveAfter = 2
  MaxFaults = 1
  MaxCrashes = 0
PROPERTIES
  BreachOpens
CHECK_DEADLOCK FALSE
