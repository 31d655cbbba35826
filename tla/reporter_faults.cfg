SPECIFICATION FairSpec
CONSTANTS
  t1 = t1
  t2 = t2
  a1 = a1
  a2 = a2
  b1 = b1
  b2 = b2
  big = big
  Threads = {t1, t2}
  NoThread = NoThread
  Spans = {a1, a2, b1, big}
  NULL = NULL
  SpanSize <- MCSpanSize
  BatchOverhead = 1
  MaxPacketSize = 3
  InitCapacity = 2
  ResizeFactor = 2
  MaxDoublings = 3
  MaxFlushes = 2
  Environments = {{"malloc"}, {"send"}, {"malloc", "send"}}
INVARIANTS
  IndInv
  ArraySafe
  InOrderOnce
  SuccessIsSent
  MuteAfterFirstFailure
  NoDanglingUnlessBoth
  NoLeakWhileSending
  FlushTrueWithMemory
PROPERTIES MutexReleased
CHECK_DEADLOCK FALSE
