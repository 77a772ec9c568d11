CONSTANTS
  Blocks = {b1, b2}
  Data = {d1, d2}
  Procs = {p1, p2}
  Nobody = Nobody
  NotCached = NotCached
  MAXOPBLOCKS = 3
  LOGSIZE = 6
  logSize = 7
  OpBlocks = 2
SPECIFICATION FairSpec
INVARIANTS LogInv
PROPERTIES CrashSafe SleepersWoken
