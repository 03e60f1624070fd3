SPECIFICATION Spec
CONSTANTS
  Project = {p1}
  Process = {i1, i2}
  None = none
  MaxTemplate = 2
  MaxCommands = 3
  MaxFaults = 1
SYMMETRY MCSymmetry
CHECK_DEADLOCK FALSE
INVARIANTS
  TypeOK
  MetaNeverAhead
  StartReconciles
  UpdateTakesEffect
PROPERTIES
  StaleIsRebuilt
  KeepsSession
