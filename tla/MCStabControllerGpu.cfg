SPECIFICATION Spec
CONSTANTS
  Project = {p1}
  Process = {i1}
  None = none
  MaxTemplate = 1
  MaxCommands = 3
  MaxFaults = 1
CHECK_DEADLOCK FALSE
INVARIANTS
  GpuRunsGpuImage
