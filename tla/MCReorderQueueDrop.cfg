\* The same instance, checked against what reorderqueue.h says of drop.
SPECIFICATION Spec
CONSTANTS
  M = 8
  Size = 2
  MaxPos = 8
  Copies = {c1, c2}
  Starts = {5}
  Lag = 1
  Lead = 1
INVARIANT
  DroppedIsGone
CHECK_DEADLOCK FALSE
