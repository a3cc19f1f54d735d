SPECIFICATION CoopSpec
CONSTANTS
  Tasks = {idle, shell, a}
  IdleTask = idle
  Shell = shell
  Null = Null
  TIME_SLICE_TICKS = 2
  REAP_TICKS = 3
  INITIAL_CAPACITY = 2
  MaxSleep = 2
  PkillIdle = FALSE
PROPERTIES
  ReadyRuns
  SleeperWakes
  ExitedIsReaped
