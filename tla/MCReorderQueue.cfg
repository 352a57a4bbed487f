\* Two slots, eight sequence numbers, the stream passes the wrap.
SPECIFICATION Spec
CONSTANTS
  M = 8
  Size = 2
  MaxPos = 8
  Copies = {c1, c2}
  Starts = {5}
  Lag = 1
  Lead = 1
SYMMETRY CopySymmetry
INVARIANTS
  TypeOK
  SlotsMatch
  HandedOverOnce
PROPERTIES
  AcceptedStays
  Refines
CHECK_DEADLOCK FALSE
