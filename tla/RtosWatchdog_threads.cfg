SPECIFICATION WDSpec
CONSTANTS
  Mod = 32
  Offset = 1
  FirstTick = 1
  Feed = 2
  Timeout = 10
  MaxPass = 2
  HwTimeout = 4
  Scripts = FALSE
  Failures = FALSE
  Horizon = 25
INVARIANTS WDTypeOK  ResetOnlyAfterStop
CHECK_DEADLOCK FALSE
