\* Two senders, three messages, two slots, one resend before giving up.
SPECIFICATION FairSpec
CONSTANTS
  Senders = {t1, t2}
  Messages = 3
  M = 8
  Start = 6
  BufSize = 2
  TriesMax = 1
  Timeout = 1
  ScanMax = 1
INVARIANTS
  TypeOK
  OwnedOnce
PROPERTIES
  KeptUntilAcked
  EventuallyLeaves
  FiniReturns
CHECK_DEADLOCK FALSE
