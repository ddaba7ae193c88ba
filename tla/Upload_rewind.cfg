SPECIFICATION Spec
CONSTANTS
  Lines = 5
  BatchSize = 2
  Dsts = 1
  MaxCrashes = 1
CHECK_DEADLOCK FALSE
INVARIANT RecordOnce
