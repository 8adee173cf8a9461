SPECIFICATION OwnersSpec
CONSTANTS
  r1 = r1  r2 = r2  r3 = r3  o1 = o1  o2 = o2  o3 = o3
  p1 = p1  p2 = p2
  b1 = 11  b2 = 12
  N = 3
  Overflow <- TwoOverflow
  Word = 6
  Objects <- TwoObjects
  SafePtrs <- ThreeRoots
  NULL = NULL
  Keys = {k1, k2, k3}
  Values = {v1, v2}
  ListNodes = {1, 2, 3}
  Capacities = {0, 1, 2, 3}
  MaxDepth = 2
SYMMETRY Symmetry
INVARIANTS PoolExact OwnedExactly EnlistedExactly ListMatchesMap DeletedOnce
PROPERTIES ImplementsAllocator NulledWithItsObject ImplementsLRU
