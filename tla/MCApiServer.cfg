SPECIFICATION ServerSpec
CONSTANTS
  Emails = {e1}
  Registrations = {k1, k2}
  Calls = {c1, c2}
  Reads = {r1}
  a1 = a1
  Addresses = {a1, a2}
  AddressOf <- MCAddressOf
  KeyBurst = 1
  ReadBurst = 1
  RegBurst = 1
  MaxTimers = 1
  MaxLives = 2
  Faults = TRUE
INVARIANTS
  OneActiveKeyPerEmail
  RevokedOnce
  KeyWorksUntilRevoked
  LimitsHold
  OthersCostNothing
  StatusIsTrue
SYMMETRY Symmetry
CHECK_DEADLOCK FALSE
