SPECIFICATION Spec
CONSTANTS
  None = None
  Page = {"a", "b", "c", "d"}
  Script <- MCScript
  MaxPages = 2
  MaxWrites = 2
  MaxFaults = 2
INVARIANTS TypeOK WriteStored TakesOneScript BootServes
PROPERTY StoreRefined
CHECK_DEADLOCK FALSE
