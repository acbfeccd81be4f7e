SPECIFICATION HistorySpec
CONSTANTS
  Words = 3
  CounterMod = 8
  Mtvec = 2
  PatchedPc = 99
  Insts <- InterruptInsts
  Lines = {"trint"}
  EnabledLines = {"trint"}
PROPERTY InterruptSavesNext
