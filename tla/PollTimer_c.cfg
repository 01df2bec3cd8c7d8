\* A C graph; calls just slow enough for the bound to hold.
CONSTANTS
  poll_period = 4
  CppGraph = FALSE
  PublishTime = 2
  MinGap = 7
  MaxMissed = 2
SPECIFICATION Spec
INVARIANTS TypeOK FoundInTime
