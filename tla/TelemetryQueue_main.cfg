SPECIFICATION Spec
CONSTANTS
  Capacity = 2
  Devices = 2
  Preempted = TRUE
  Nested = TRUE
  MaxValue = 2
  MaxGen = 1
  MaxUploads = 3
INVARIANTS TypeOK HeadServes 
PROPERTIES NoStaleUpload QueueRefined
