SPECIFICATION Spec
CONSTANTS
  k = k
  K = K
  j = j
  empty = empty
  NoValue = NoValue
  NoContext = NoContext
  Keys = {k, K, j, empty}
  EmptyKey = empty
  ToLower <- LowerCase
  Base = 2
  Width = 2
  IntMax = 3
  Sources <- MCSources
  Foreign <- MCForeign
  Extras <- MCExtras
  FaultSets <- MCFaultSets
INVARIANT SuccessIsWritten
CHECK_DEADLOCK FALSE
