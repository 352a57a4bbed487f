\* Up to two notifications wait in the queue.
SPECIFICATION FairSpec
CONSTANTS
  QueueMax = 2
INVARIANTS
  TypeOK
  FreedAfterWs
PROPERTIES
  CancelHeard
  StepReturns
CHECK_DEADLOCK FALSE
