SPECIFICATION HistorySpec
CONSTANTS
  Words = 3
  CounterMod = 8
  Mtvec = 2
  PatchedPc = 99
  Insts <- IllegalInsts
  Lines = {}
  EnabledLines = {}
INVARIANT ExecutesInOrder
