SPECIFICATION Spec
CONSTANTS
  Tasks = {t1}
  Runs = {r1}
  Controls = {c1, c2}
  Requests = {q1, q2}
  ExecutorSlots = {}
  NoTask = NoTask
  NoRequest = NoRequest
  MaxEpoch = 2
  maxActiveRuns = 1
  maxQueuedRuns = 1
  maxTasks = 1
  maxRuns = 1
  maxRunsPerTask = 1
  maxOrdinaryOperationsPerRun = 5
  maxOrdinaryOperations = 5
SYMMETRY Symmetry
CHECK_DEADLOCK FALSE
INVARIANTS
  TypeOK
  UncertaintyIsSticky
  WaitingMatchesRequest
  OneAnswerPerRequest
  SingleExecutorEpoch
PROPERTIES
  RunPromise
