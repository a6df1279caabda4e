SPECIFICATION FairSpec
CONSTANTS
  MaxTimes = 1
  Checks = {1, 2, 3}
  Calls = {1, 2, 3}
  MaxFails = 2
INVARIANTS TypeOK Signals Waited Asking
PROPERTIES Leaves WoundUp
CHECK_DEADLOCK FALSE
