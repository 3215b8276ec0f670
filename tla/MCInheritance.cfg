SPECIFICATION Spec
CONSTANTS
  Child = "shop"
  Parent = "mall"
  Readers = {r1}
  Patches <- MCPatches
  Imported <- MCImported
  MaxSeen = 2
  Faults = TRUE
INVARIANTS
  FlagsAreCurrent
PROPERTIES
  ResponseIsWarranted
  NothingInheritableIsMissing
