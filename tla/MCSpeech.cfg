SPECIFICATION Spec
CONSTANTS
  Request = {r1, r2}
  KokoroVoice = {heart}
  PiperVoice = {lisa, both}
  CloneVoice = {both}
  Size = {small, large}
  Engines <- MCEngines
  Text <- MCText
  MinChars = 3
  FirstChars = 5
  MinHead = 2
  Window = 4
  Overlap = 1
  VoicesInMemory = 1
  None = None
SYMMETRY MCRequests
INVARIANTS
  VoicesBounded
  SpokenInOrder
  SizeAsked
CHECK_DEADLOCK FALSE
