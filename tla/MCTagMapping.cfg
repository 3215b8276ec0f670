SPECIFICATION TagSpec
CONSTANTS
  AmenityToCategory <- MCAmenityToCategory
  IntegerOf <- MCIntegerOf
  HundredthsOf <- MCHundredthsOf
  PercentOf <- MCPercentOf
  TagValues <- MCTagValues
  MaxTags = 4
INVARIANTS
  FlagsMeetEvidence
PROPERTIES
  InclusionIsMonotone
  AmenityDecides
  GoodNewsAddsNoFlag
