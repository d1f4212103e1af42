SPECIFICATION Spec
CONSTANTS
  Masters = {main, shell}
  Slaves = {s1, s2}
  Sizes = {2}
  BufLen = 3
  RawSerial = TRUE
  MaxRequests = 3
SYMMETRY Symmetry
INVARIANTS TypeOK OwnOrLate 
