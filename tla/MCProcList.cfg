CONSTANTS
  NPROC = 4
  Lists = {unused, runnable}
  UnusedList = unused
  Cpus = {c1, c2}
  NoCpu = NoCpu
SPECIFICATION ListSpec
INVARIANTS RemoveFindsTarget IInv
PROPERTY ImplementsLists
