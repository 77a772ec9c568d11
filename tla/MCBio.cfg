CONSTANTS
  b1 = b1
  b2 = b2
  b3 = b3
  new = new
  Blocks <- MCBlocks
  Data <- MCData
  store0 <- MCStore0
  Changes <- MCChanges
  p1 = p1
  p2 = p2
  p3 = p3
  Procs <- MCProcs
  Uses <- MCUses
  Victims = {p2}
  Nobody = Nobody
  NoBlock = NoBlock
  NBUF = 2
  NUM = 5
  MaxPins = 1
SPECIFICATION FairSpec
INVARIANTS BioInv NeverOutOfBuffers SleepersHaveWaker
PROPERTIES Coherent DescWaitEnds
