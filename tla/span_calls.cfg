SPECIFICATION Spec
CONSTANTS
  t1 = t1
  t2 = t2
  t3 = t3
  s1 = s1
  s2 = s2
  NoThread = NoThread
  Threads = {t1, t2, t3}
  Spans = {s1, s2}
  Existing = {s1}
  Operations <- CallAll
  Reporters = {"remote", "memory"}
  MaxCalls = 3
SYMMETRY Symmetry
INVARIANTS
  IndInv
  OnlyItemRaces
  OnlyStartDeadlocks
  NoTornCopy
  DurationUnlessLate
PROPERTIES
  RecordsOnlySampled
CHECK_DEADLOCK FALSE
