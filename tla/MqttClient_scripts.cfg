SPECIFICATION Spec
CONSTANTS
  Messages = {cmd1, app1}
  Commands = {cmd1}
  AppMessages = {app1}
  Qos1Messages = {}
  PubQos = 0
  Polls = 2
  InboxDepth = 1
  IdMax = 20
  Scripts = TRUE
  Stabilises = FALSE
  MaxIds = 5
  MaxWire = 2
  MaxStack = 6
INVARIANTS SessionHasConnack AckedPublish
