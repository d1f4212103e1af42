SPECIFICATION Spec
CONSTANTS
  Messages = {cmd1}
  Commands = {cmd1}
  AppMessages = {}
  Qos1Messages = {cmd1}
  PubQos = 1
  Polls = 2
  InboxDepth = 2
  IdMax = 20
  Scripts = FALSE
  Stabilises = FALSE
  MaxIds = 5
  MaxWire = 2
  MaxStack = 9
INVARIANT CommandOnce
