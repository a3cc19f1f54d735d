SPECIFICATION Spec
CONSTANTS
  Drivers <- MCDrivers
  priority <- MCPriority
  depends_on <- MCDependsOn
  CanFail <- MCCanFail
  NoDriver = NoDriver
  MAX_DRIVERS = 6
  IDT = IDT
  Keyboard = Keyboard
  PIT = PIT
  Block = Block
  ATA = ATA
  NVMe = NVMe
  Idle = Idle
  Shell = Shell
  Null = Null
  TIME_SLICE_TICKS = 2
INVARIANTS
  DependencyFirst
  NothingLeftOut
  ReadyIsQueued
PROPERTIES
  BootEnds
CHECK_DEADLOCK FALSE
