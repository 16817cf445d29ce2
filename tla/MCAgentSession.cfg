SPECIFICATION FairSessionSpec
CONSTANTS
  MaxRequests = 2
  MaxInterruptions = 2
  Invocations = {v1}
  MaxTurns = 2
  MaxFailures = 1
  maxInvocations = 1
CHECK_DEADLOCK FALSE
INVARIANTS
  FairlyPresented
  NoReplay
  OneExecution
  BindingReleasedLast
PROPERTIES
  NoEntryAfterDoubt
  CloseCompletes
