CONSTANTS
  c1 = c1
  c2 = c2
  k1 = k1
  CPUs = {c1, c2}
  Locks = {k1}
  MaxDepth = 3
  Nesting = 1
SPECIFICATION FairSpec
INVARIANTS TypeOK MutualExclusion NoSelfDeadlock
PROPERTIES ImplementsMutex TakenIsFreed
