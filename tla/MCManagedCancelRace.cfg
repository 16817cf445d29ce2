SPECIFICATION FairManagedSpec
CONSTANTS
  Tasks = {t1}
  Runs = {r1}
  T = t1
  R = r1
  Controls = {}
  Configures = {}
  Steers = {}
  Answers = {}
  Requests = {}
  Causes = {"user", "coordinator"}
  Failures = {}
  ExecutorSlots = {"interrupt", "session_close", "binding_cleanup"}
  NoTask = NoTask
  NoRequest = NoRequest
  MaxEpoch = 1
  maxActiveRuns = 1
  maxQueuedRuns = 1
  maxTasks = 1
  maxRuns = 1
  maxRunsPerTask = 1
  maxOrdinaryOperationsPerRun = 3
  maxOrdinaryOperations = 3
CHECK_DEADLOCK FALSE
PROPERTY
  CancelSettles
