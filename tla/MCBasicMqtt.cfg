SPECIFICATION Spec
CONSTANTS
  Settings <- MCSettings
  Optional = {"user"}
  Values = {"v1", "v2"}
  TooLong = "too long"
  IntMax = 2
  Depth = 1
  MaxWire = 1
  MaxSent = 2
INVARIANTS TypeOK HandleConnects SubscribedHolds
PROPERTY ReceivedFresh
