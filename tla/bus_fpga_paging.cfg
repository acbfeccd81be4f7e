SPECIFICATION Spec
CONSTANTS
  Digits = {0, 1}
  Fetches <- MCFetches
  Accesses <- MCAccesses
  PagingModes = {TRUE, FALSE}
  BramDelay = 2
INVARIANT DataArrived
