SPECIFICATION Spec
CONSTANTS
  Capacity = 2
  Limits <- MCLimits
  MaxDropped <- MCMaxDropped
  MaxId = 2
  MaxRestarts = 0
  Key <- MCSettingsKeys
  Task = {t1, t2}
  Backlog = 0
  NoTask = none
SYMMETRY MCTasks
INVARIANTS
  TypeOK
  OnlyOneRuns
  BusyIsAnswered
PROPERTIES
  MailboxPromise
