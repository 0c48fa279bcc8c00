SPECIFICATION FairSpec
CONSTANTS
  MAX_TASKS = 4
  BOOT_TASKS = 2
  TICKS = 8
  FREQ = 2
  SECOND = 3
  Waits = {1, 3, 4}
INVARIANTS
  ShellOrProgram
  ShellNotReentered
PROPERTIES
  SleepLongEnough
  EveryTaskRuns
  SleepReturns
