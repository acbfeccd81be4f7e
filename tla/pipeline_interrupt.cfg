SPECIFICATION HistorySpec
CONSTANTS
  Words = 2
  CounterMod = 8
  Mtvec = 2
  PatchedPc = 99
  Insts <- InterruptInsts
  Lines = {"trint"}
  EnabledLines = {"trint"}
INVARIANT TypeOK NothingBehindStall BusExclusive InterruptStillAllowed ExecutesInOrder AccessExactlyOnce
PROPERTY ModeStableUnderRequest CommitOnce
