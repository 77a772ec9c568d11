CONSTANTS
  NCPU = 2
  NPROC = 2
  BLNCFLG = FALSE
  Calls = {"fork", "exit", "wait", "kill", "sleep"}
  KillPids = {2}
  SleepArgs <- SomeSleeps
  TickMod = 3
  MaxPid = 2
  MemMayFail = FALSE
SPECIFICATION FairSpec
PROPERTIES SleepersReturn KilledAreReaped
