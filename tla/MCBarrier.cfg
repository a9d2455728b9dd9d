SPECIFICATION FairSpec
CONSTANTS
  g1 = g1
  g2 = g2
  g3 = g3
  k1 = k1
  k2 = k2
  b1 = b1
  b2 = b2
  b3 = b3
  Goroutines <- MCGoroutines
  Keys <- MCKeys
  Barriers <- MCBarriers
  Nil = Nil
INVARIANTS
  TypeOK
  MutualExclusion
  Counted
PROPERTIES
  LockReturns
  IsKeyLock
