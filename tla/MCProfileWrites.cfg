SPECIFICATION FairSpec
CONSTANTS
  Fields = {width}
  Values = {no}
  Bad = no
  Requests = {q1, q2, q3}
  Imports = {j1}
  MaxAttempts = 2
  Faults = TRUE
INVARIANTS
  LockedReadIsCurrent
  SecondAttemptSuffices
  CreatedOnce
PROPERTIES
  WritesAreAtomic
  EveryWriterEnds
CHECK_DEADLOCK FALSE
