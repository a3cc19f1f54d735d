SPECIFICATION ConsoleFairSpec
CONSTANTS
  Tasks = {idle, shell}
  IdleTask = idle
  Shell = shell
  Null = Null
  TIME_SLICE_TICKS = 2
  REAP_TICKS = 3
  INITIAL_CAPACITY = 2
  MaxSleep = 2
  PkillIdle = FALSE
  TTY_BUFFER_SIZE = 3
  CMD_BUFFER_SIZE = 3
  Keys = {"key", "enter", "backspace", "shift", "unshift", "other"}
INVARIANTS
  NoLostWakeup
  WaiterIsReader
PROPERTIES
  ReadsLines
  LineIsRead
