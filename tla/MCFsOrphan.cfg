CONSTANTS
  p1 = p1
  p2 = p2
  Procs <- MCProcs
  Programs <- MCPrograms
  Nobody = Nobody
  Names = {"a", "b"}
  NInodes = 3
  NINODE = 3
  NBlocks = 4
  NDIRECT = 1
  NINDIRECT = 1
  MaxWrite = 2
SPECIFICATION Spec
INVARIANT NoOrphans
