SPECIFICATION FairSpec
CONSTANTS
  BlockWords = 2
  LineWords = 2
  MaxTasks = 3
  MaxResets = 1
  BufferSize = 2
  StatusLine = TRUE
  Typed = {97, 98}
  Calls <- MCCalls
  Tests <- MCTests
INVARIANT TypeOK AssertionsHold TypedReadOnce SentShownOnce 
PROPERTY ImplementsByteMemory EveryWaitEnds
CHECK_DEADLOCK FALSE
