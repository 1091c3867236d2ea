SPECIFICATION GeneratorFairSpec
CONSTANTS
  Orders = {1, 2}
  Kinds = {"cod", "cancelled"}
  MaxPending = 1
  MaxBatch = 1
  MaxBuffer = 2
  MaxDue = 1
  MaxRefusals = 1
INVARIANTS
  GeneratorTypeOK
  
  CoursesKept

  
CHECK_DEADLOCK FALSE
