CONSTANTS
  NCPU = 2
  NPROC = 3
  BLNCFLG = FALSE
  Calls = {"fork", "exit", "wait", "setcpu"}
  KillPids = {}
  SleepArgs = {}
  TickMod = 3
  MaxPid = 3
  MemMayFail = FALSE
SPECIFICATION Spec
CONSTRAINT InitMoves
INVARIANTS ParentsLive NoSpinCycle
CHECK_DEADLOCK FALSE
