CONSTANTS
  k1 = k1
  k2 = k2
  k3 = k3
  k4 = k4
  Keys = {k1, k2, k3, k4}
  Fds = {d1, d2, d3, d4}
  Size = 2
  Hash <- MCHash
  Null = Null
SPECIFICATION Spec
INVARIANTS TableSound
PROPERTIES CleanupIsExact OperationsEnd IsSessionMap
