SPECIFICATION Spec
CONSTANTS
  QueueSize <- MCQueueSize
  IdMod = 8
  Polls = 1
  MaxNamespaces = 2
  MaxBlockDevices = 2
  OtherDevices = {0, 1}
  MaxCommands = 8
  None = None
INVARIANTS
  NamespaceMatches
CHECK_DEADLOCK FALSE
