SPECIFICATION Spec
CONSTANTS
  Pid = {p1, p2, p3}
  None = none
  Torn = torn
  Failed = failed
SYMMETRY MCPids
INVARIANTS
  TypeOK
  NoOrphan
  OwedIsRecorded
  OldFileRetired
PROPERTIES
  DownAllCloses
