SPECIFICATION Spec
CONSTANTS
  Fields = {width}
  Values = {good, no}
  Bad = no
  Requests = {q1}
  Imports = {j1, j2}
  MaxAttempts = 2
  Faults = FALSE
PROPERTIES
  CorrectionsSurviveImport
CHECK_DEADLOCK FALSE
