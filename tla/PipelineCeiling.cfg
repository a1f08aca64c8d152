CONSTANTS
  Measurements = 1
  PipeSize = 2
  CanHang = TRUE
  CanCrash = FALSE
SPECIFICATION FairSpec
PROPERTY CeilingHolds
CHECK_DEADLOCK FALSE
