SPECIFICATION FairSpec
CONSTANTS
  Ids <- MCIds
  Places <- MCPlaces
  Queries <- MCQueries
  Writers = {w1}
  Limit = 1
  MaxTime = 2
INVARIANTS
  UsesWhatItIsGiven
  UnwrittenOnce
PROPERTIES
  PagingEnds
