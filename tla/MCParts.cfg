CONSTANTS
  CPUs = {1, 2}
  NLOCK = 2
  Scripts <- MCScripts
SPECIFICATION PartsSpec
INVARIANTS StreamsSound Outcome ParsesGrammar CopiesExact HeapSound ConsoleSound PagesPartition NeverTooBig ChainsSound
INVARIANTS LockInv MutualExclusion
PROPERTIES ShellTerminates InputDelivered ConsoleFlows ImagesKept
