SPECIFICATION FairSpec
CONSTANTS
  o1 = o1
  o2 = o2
  a1 = a1
  w1 = w1
  w2 = w2
  wheelmap = wheelmap
  Token <- MCToken
  Fold <- MCFold
  CaseFold <- MCFold
  BusinessSuffixes <- MCBusinessSuffixes
  CandidateLimit = 32
  Places = {o1, o2}
  OsmPlaces = {o1, o2}
  PlaceRows <- MCPlaceRows
  Records = {w1}
  RecordRows <- MCRecordRows
  Sources = {wheelmap}
  SourceOf <- MCSourceOf
  Importers = {i1}
  Feeds = {f1}
  MaxParams = 2
  MaxRowId = 3
  MaxAttempts = 2
  MaxFlushes = 2
  Faults = FALSE
PROPERTIES
  ImportReconsiders
  MatchingRowIsDrained
  ImportEnds
