SPECIFICATION FairSpec
CONSTANTS
  Messages = {cmd1, reg1}
  Commands = {cmd1}
  AppMessages = {}
  Qos1Messages = {cmd1}
  PubQos = 0
  Polls = 2
  InboxDepth = 1
  IdMax = 2
  Scripts = FALSE
  Stabilises = TRUE
  MaxIds = 5
  MaxWire = 2
  MaxStack = 6
INVARIANTS TypeOK CommandOnce NoUnderflow ReadyMeansSubscribed
PROPERTIES StaysReady
