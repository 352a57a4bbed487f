\* The same instance, for the re-check of queued messages when the keys come.
SPECIFICATION Spec
CONSTANTS
  Size = 3
  Positions <- MCPositions
  AVs = {a1}
  KeyPos = 0
  EnableCrypt = TRUE
  PostponeMax = 1
  NetMax = 1
INVARIANT
  NoNullWrite
CHECK_DEADLOCK FALSE
