CONSTANTS
  NCPU = 2
  NPROC = 2
  BLNCFLG = FALSE
  Calls = {"fork", "wait"}
  KillPids = {}
  SleepArgs = {}
  TickMod = 3
  MaxPid = 2
  MemMayFail = TRUE
SPECIFICATION Spec
INVARIANT AllocFailureReturns
