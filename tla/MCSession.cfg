\* Two PINs, one queued message, two messages of the console.
SPECIFICATION FairSpec
CONSTANTS
  PinsMax = 2
  MessagesMax = 1
  ConsoleMax = 2
INVARIANTS
  TypeOK
  SentInOrder
  PipeMeansWork
PROPERTIES
  ConsoleIdKept
  ReasonFinal
  StopQuits
  WorkDone
CHECK_DEADLOCK FALSE
