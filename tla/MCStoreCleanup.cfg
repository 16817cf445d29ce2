SPECIFICATION Spec
CONSTANTS
  Tasks = {t1}
  Runs = {r1}
  Controls = {}
  Requests = {}
  ExecutorSlots = {"interrupt", "session_close", "binding_cleanup"}
  NoTask = NoTask
  NoRequest = NoRequest
  MaxEpoch = 2
  maxActiveRuns = 1
  maxQueuedRuns = 1
  maxTasks = 1
  maxRuns = 1
  maxRunsPerTask = 1
  maxOrdinaryOperationsPerRun = 3
  maxOrdinaryOperations = 3
SYMMETRY Symmetry
CHECK_DEADLOCK FALSE
INVARIANTS
  CleanupOrder
