SPECIFICATION Spec
CONSTANTS
  Token = {t1, t2}
  Saver = {s1}
  Other = other
  Attempts = 2
  Size = 2
  MaxOther = 1
INVARIANTS SavedIsVerified FolderIsSound
PROPERTY NothingOverwritten
SYMMETRY Tokens
CONSTRAINT OneLeft
CHECK_DEADLOCK FALSE
