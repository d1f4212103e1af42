SPECIFICATION Spec
CONSTANTS
  Reads <- MCReads
  Direct = {1}
  Addrs <- MCAddrs
  a1 = a1
  a2 = a2
  Clock = 5
  Offset = 2
  Interval = 1
  MaxPass = 1
INVARIANTS  OnlyAllowed KeepsAsking
SYMMETRY Symmetry
