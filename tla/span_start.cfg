SPECIFICATION Spec
CONSTANTS
  t1 = t1
  t2 = t2
  t3 = t3
  s1 = s1
  s2 = s2
  NoThread = NoThread
  Threads = {t1, t2}
  Spans = {s1, s2}
  Existing = {s1}
  Operations <- CallStart
  Reporters = {"remote"}
  MaxCalls = 2
SYMMETRY Symmetry
INVARIANTS
  NoDeadlock
CHECK_DEADLOCK FALSE
