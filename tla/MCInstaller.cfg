SPECIFICATION Spec
CONSTANTS
  Provider = {acme, own}
  Tunnelled = {there}
  Baked = {acme, there}
  StabBaked = {acme}
  None = None
  Torn = Torn
  Port = {1, 2}
  DefaultPort = 1
  StackName = {"stables", "other"}
  DefaultName = "stables"
  Releases = 2
  Commands <- MCCommands
  Modes = {"ok", "blocked"}
  MaxCommands = 3
  MaxEdits = 1
  MaxFaults = 1
INVARIANTS
  TypeOK
  StackIsRemovable
  ClientFollowsRecord
  PortsAgree
PROPERTIES
  InstallHeals
  UserEditsSurvive
  UpdateReachesAgent
CHECK_DEADLOCK FALSE
