SPECIFICATION Spec
CONSTANTS
  Keys = {k1, k2}
  MaxPerMinute = 2
  Minute = 3
  BackupInterval = 3
  MaxTime = 8
  MaxCalls = 6
SYMMETRY Symmetry
INVARIANTS
  AtMostTwiceTheRate
  DeniedOnlyAtTheRate
  RetryAfterIsEnough
  IInv
CHECK_DEADLOCK FALSE
