SPECIFICATION Spec
CONSTANTS
  Capacity = 1
  Limits <- MCLimits
  MaxDropped <- MCMaxDropped
  MaxId = 1
  MaxRestarts = 0
  Key <- MCMenuKeys
  Task = {t1, t2}
  Backlog = 0
  NoTask = none
PROPERTIES
  SpokenOnlyWhenIdle
