SPECIFICATION Spec
CONSTANTS
  Tasks = {t1, t2}
  Runs = {r1, r2, r3}
  Controls = {}
  Requests = {}
  ExecutorSlots = {}
  NoTask = NoTask
  NoRequest = NoRequest
  MaxEpoch = 1
  maxActiveRuns = 2
  maxQueuedRuns = 2
  maxTasks = 2
  maxRuns = 3
  maxRunsPerTask = 3
  maxOrdinaryOperationsPerRun = 3
  maxOrdinaryOperations = 6
SYMMETRY Symmetry
CHECK_DEADLOCK FALSE
INVARIANTS
  CapacityExact
PROPERTIES
  NoInputAfterCancel
  RunPromise
