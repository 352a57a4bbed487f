\* Three messages, a window of three, one packet in flight at a time.
SPECIFICATION FairSpec
CONSTANTS
  Size = 3
  Positions <- MCPositions
  AVs = {a1}
  KeyPos = 0
  EnableCrypt = TRUE
  PostponeMax = 1
  NetMax = 1
INVARIANTS
  TypeOK
  DeliveredInOrder
  AckedWasDelivered
  AVChecked
PROPERTIES
  EventuallyDelivered
  StopEnds
CHECK_DEADLOCK FALSE
