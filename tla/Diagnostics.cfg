CONSTANTS
  MinSecret = 2
  FixedLen = 2
  EllipsisLen = 1
  NoteLen = 2
  SentenceLen = 3
  MaxLen = 6
  MaxChars = 6
SPECIFICATION Spec
INVARIANTS
  CutsLeaveNoPiece
  WithinLimit
CHECK_DEADLOCK FALSE
