SPECIFICATION Spec
CONSTANTS
  Letter <- MCLetter
  NL = nl
  Clips <- MCClips
  Limit = 2
  Width = {1, 2, 3}
  MaxLen = 3
INVARIANTS
  CursorInside
  HistoryBounded
  UpGoesOneLine
PROPERTIES
  UndoIsReversible
  NoEditLost
