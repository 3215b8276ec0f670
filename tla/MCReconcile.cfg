SPECIFICATION Spec
CONSTANTS
  o1 = o1
  o2 = o2
  a1 = a1
  w1 = w1
  w2 = w2
  wheelmap = wheelmap
  Token <- MCToken
  Fold <- MCFold
  CaseFold <- MCFold
  BusinessSuffixes <- MCBusinessSuffixes
  CandidateLimit = 32
  Places = {o1}
  OsmPlaces = {o1}
  PlaceRows <- MCPlaceRow
  Records = {w1, w2}
  RecordRows <- MCRecordRows
  Sources = {wheelmap}
  SourceOf <- MCSourceOf
  Importers = {i1, i2}
  Feeds = {f1}
  MaxParams = 2
  MaxRowId = 2
  MaxAttempts = 2
  MaxFlushes = 1
  Faults = TRUE
INVARIANTS
  Accounted
  AttachTargetExists
PROPERTIES
  AttemptsNeverReset
  SweepsHitTheirRows
SYMMETRY Symmetry
