SPECIFICATION MatchSpec
CONSTANTS
  Token <- MCToken
  Fold <- MCFold
  CaseFold <- MCFold
  BusinessSuffixes <- MCBusinessSuffixes
  CandidateLimit = 2
  Ids = {p1, p2, p3}
  RecordRows <- MCRecordRows
  PlaceRows <- MCPlaceRows
INVARIANTS
  MatchMeetsReference
  ConfidentNeedsBothSignals
  FullAddressNeverHurts
CHECK_DEADLOCK FALSE
