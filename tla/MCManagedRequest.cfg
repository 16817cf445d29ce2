SPECIFICATION ManagedSpec
CONSTANTS
  Tasks = {t1}
  Runs = {r1}
  T = t1
  R = r1
  Controls = {a1, a2, s1}
  Configures = {}
  Steers = {s1}
  Answers = {a1, a2}
  Requests = {q1, q2}
  Causes = {"user", "coordinator"}
  Failures = {"host"}
  ExecutorSlots = {"interrupt", "session_close", "binding_cleanup"}
  NoTask = NoTask
  NoRequest = NoRequest
  MaxEpoch = 1
  maxActiveRuns = 1
  maxQueuedRuns = 1
  maxTasks = 1
  maxRuns = 1
  maxRunsPerTask = 1
  maxOrdinaryOperationsPerRun = 4
  maxOrdinaryOperations = 4
SYMMETRY Symmetry
CONSTRAINT UntilItEnds
CHECK_DEADLOCK FALSE
INVARIANTS
  WaitingIsAnswerable
