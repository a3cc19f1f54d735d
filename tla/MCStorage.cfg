SPECIFICATION Spec
CONSTANTS
  DriveCount = 2
  Sectors <- MCSectors
  LbaMod = 2
  MaxLba = 2
  MaxDevice = 2
  TestLba = 1
  Polls = 2
  Data = {0, 1}
  Pattern = 1
PROPERTIES
  ReadIsExact
  OnlyAskedChanges
  WriteIsStored
  OperationEnds
CHECK_DEADLOCK FALSE
