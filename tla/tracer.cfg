\* Three spans, one of them too large for most; capacity 1, so that a second child needs memory.
CONSTANTS
  s1 = s1
  s2 = s2
  big = big
  Spans = {s1, s2, big}
  Large <- MCLarge
  Arguments <- MCArguments
  Leaves <- MCLeaves
  Default = "default"
  Kind <- MCKind
  Sharing = {"sharing"}
  Heap = {"sharing", "alone", "memory"}
  Capacity = 1
  MaxChildren = 2
SYMMETRY Symmetry
SPECIFICATION Spec
CHECK_DEADLOCK FALSE
INVARIANTS
  IndInv
  FreedOnce
  MetricsOutliveUse
  EveryChildReported
  FlushReachesAll
  CountersAccount
