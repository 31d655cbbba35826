SPECIFICATION Spec
CONSTANTS
  Rates <- SomeRates
  Second = 2
  Cost = 3
  MaxTime = 7
INVARIANTS
  IndInv
  RateBounded
  UnsampledOnlyWhenSpent
