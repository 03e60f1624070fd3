SPECIFICATION Spec
CONSTANTS
  Capacity = 2
  Limits <- MCLimits
  MaxDropped <- MCMaxDropped
  MaxId = 4
  MaxRestarts = 1
PROPERTIES
  RefusalDropsNothing
