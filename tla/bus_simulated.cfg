SPECIFICATION FairSpec
CONSTANTS
  Digits = {0, 1}
  Fetches <- MCFetches
  Accesses <- MCAccesses
  PagingModes = {TRUE, FALSE}
INVARIANT TypeOK RequestHeld
PROPERTY ImplementsAtomicMemory EveryRequestAnswered
