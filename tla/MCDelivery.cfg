SPECIFICATION FairSpec
CONSTANTS
  Notifications = {n1, n2}
  None = None
  MaxEpoch = 3
CHECK_DEADLOCK FALSE
INVARIANTS
  AtMostOneCopy
  CallbackIsOwned
  NothingForgotten
PROPERTIES
  Contract
  EventuallyConcluded
