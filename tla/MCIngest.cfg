SPECIFICATION FairSpec
CONSTANTS
  n1 = n1
  n2 = n2
  w1 = w1
  d1 = d1
  d2 = d2
  good = good
  bad = bad
  Elements = {n1, n2, w1}
  Data = {d1, d2}
  Ratings = {good, bad}
  Extracts <- MCExtracts
  Importers = {i1}
  BatchSize = 2
  MaxRuns = 2
  Faults = TRUE
INVARIANTS
  TypeOK
  CompleteRunIsComplete
  ProfilesBelong
PROPERTIES
  RunEnds
