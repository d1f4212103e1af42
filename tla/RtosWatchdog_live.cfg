SPECIFICATION WDFairSpec
CONSTANTS
  Mod = 6
  Offset = 1
  FirstTick = 0
  Feed = 2
  Timeout = 2
  MaxPass = 1
  HwTimeout = 2
  Scripts = TRUE
  Failures = TRUE
  Horizon = 6
INVARIANT DetectedInTime
PROPERTIES StuckIsReset
CHECK_DEADLOCK FALSE
