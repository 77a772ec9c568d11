CONSTANTS
  NCPU = 2
  NPROC = 2
  BLNCFLG = FALSE
  Calls = {"fork", "exit", "wait", "kill", "sleep", "disk", "setcpu"}
  KillPids = {1}
  SleepArgs <- SomeSleeps
  TickMod = 3
  MaxPid = 2
  MemMayFail = TRUE
SPECIFICATION Spec
INVARIANTS RunsOnce ListsMatchState NoLostWakeup
PROPERTY LifeCycle
CHECK_DEADLOCK FALSE
