SPECIFICATION HistoryFairSpec
CONSTANTS
  Words = 2
  CounterMod = 7
  Mtvec = 2
  PatchedPc = 99
  Insts <- PendingInsts
  Lines = {"trint", "exint"}
  EnabledLines = {"trint", "exint"}
PROPERTY PendingIsHandled
