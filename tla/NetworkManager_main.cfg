SPECIFICATION FairSpec
CONSTANTS
  BootMode = "auto"
  Commands = {"auto", "wired", "4g", "probe", "setup", "init"}
  MaxCommands = 1
  MaxFaults = 1
INVARIANTS TypeOK OneChipOnBus RestIsolated
PROPERTIES ReturnsToWired
