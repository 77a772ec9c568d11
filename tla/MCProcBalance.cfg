CONSTANTS
  NCPU = 2
  NPROC = 3
  BLNCFLG = TRUE
  Calls = {"fork", "wait"}
  KillPids = {}
  SleepArgs = {}
  TickMod = 3
  MaxPid = 3
  MemMayFail = FALSE
SPECIFICATION Spec
PROPERTY AdmitLeastUsed
