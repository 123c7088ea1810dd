CONSTANTS
  p0 = p0
  p1 = p1
  Procs = {p0, p1}
  Boot = p0
  UseLock = TRUE
  PageSize = 4
  VStart = 3
  VEnd = 18
SPECIFICATION Spec
INVARIANTS TypeOK Exclusion NoAliasing FreelistSound NothingLost
PROPERTY ImplementsPool
