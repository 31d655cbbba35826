SPECIFICATION Spec
CONSTANTS
  t1 = t1
  t2 = t2
  k1 = k1
  k2 = k2
  k3 = k3
  v1 = v1
  v2 = v2
  NoThread = NoThread
  NoValue = NoValue
  Null = Null
  Src = Src
  Threads = {t1, t2}
  Keys = {k1, k2, k3}
  Values = {v1, v2}
  Hash <- Collisions
  Nodes <- NodeNumbers
  InitOrder = 1
  Hazards = {"malloc", "remove", "inject"}
  MaxCalls = 4
SYMMETRY Symmetry
INVARIANTS
  IndInv
  ListsLinked
  NodesOwned
  SizeAndLoad
  CopyFits
PROPERTIES
  ImplementsMap
CHECK_DEADLOCK FALSE
