SPECIFICATION HistoryFairSpec
CONSTANTS
  Words = 3
  CounterMod = 7
  Mtvec = 2
  PatchedPc = 4
  Insts <- SequentialInsts
  Lines = {}
  EnabledLines = {}
PROPERTY ImplementsSequential KeepsExecuting
