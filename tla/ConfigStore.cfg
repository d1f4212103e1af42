SPECIFICATION Spec
CONSTANTS
  Core = {"c0", "c1"}
  DefaultCore = "c0"
  Mode = {"auto", "wired"}
  Table = {"t1"}
  MaxSets = 1
  MaxFaults = 3
INVARIANTS TypeOK  WholeOrDefault MigrationKeeps
