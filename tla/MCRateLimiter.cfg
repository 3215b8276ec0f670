SPECIFICATION Spec
CONSTANTS
  Keys = {k1, k2}
  Callers = {c1, c2}
  Burst = 2
  MaxObjects = 4
INVARIANTS
  NoLimiterIsBehind
PROPERTIES
  RefusalsAreDue
  EvictionIsInvisible
  EachLimiterIsABucket
SYMMETRY Symmetry
