\* Two application threads; everything else is finite by itself.
SPECIFICATION FairSpec
CONSTANTS
  Apps = {a1, a2}
INVARIANTS
  TypeOK
  FeedbackSenderGuarded
  StreamInfoNotMissed
  ResultTrue
  KeysOutliveUsers
  ReceiversOutliveTakion
PROPERTIES
  StopReturns
  ConnectSettles
CHECK_DEADLOCK FALSE
