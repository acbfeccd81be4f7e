SPECIFICATION FairSpec
CONSTANTS
  Digits = {0, 1}
  Fetches <- MCFetches
  Accesses <- MCAccesses
  PagingModes = {FALSE}
  BramDelay = 2
INVARIANT TypeOK DataArrived
PROPERTY ImplementsAtomicMemory EveryRequestAnswered
