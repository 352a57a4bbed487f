\* The same instance, for the use of Takion after its end.
SPECIFICATION Spec
CONSTANTS
  Apps = {a1, a2}
INVARIANT
  TakionUsable
CHECK_DEADLOCK FALSE
