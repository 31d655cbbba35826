SPECIFICATION Spec
CONSTANTS
  Names = {1, 2, 3}
  Rates = {0, 2}
  Defaults <- TwoDefaults
  MaxOperations = 2
  MaxListed = 2
  MaxUpdates = 3
  Environments = {{}, {"malloc", "new"}}
INVARIANTS
  IndInv
  SearchesExact
  StrictOrderUnlessStressed
  ListedRatesApply
CHECK_DEADLOCK FALSE
