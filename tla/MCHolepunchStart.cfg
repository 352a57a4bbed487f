\* A start, with a member that is not the console.
SPECIFICATION Spec
CONSTANTS
  QueueMax = 2
PROPERTIES
  StartComplete
CHECK_DEADLOCK FALSE
