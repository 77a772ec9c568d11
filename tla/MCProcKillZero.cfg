CONSTANTS
  NCPU = 2
  NPROC = 3
  BLNCFLG = FALSE
  Calls = {"kill"}
  KillPids = {0}
  SleepArgs = {}
  TickMod = 3
  MaxPid = 2
  MemMayFail = FALSE
SPECIFICATION Spec
INVARIANT UnusedNotKilled
