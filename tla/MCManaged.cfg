SPECIFICATION FairManagedSpec
CONSTANTS
  Tasks = {t1}
  Runs = {r1}
  T = t1
  R = r1
  Controls = {s1, c1}
  Configures = {c1}
  Steers = {s1}
  Answers = {}
  Requests = {}
  Causes = {"user"}
  Failures = {"interrupt", "close", "release", "opening", "crash"}
  ExecutorSlots = {"interrupt", "session_close", "binding_cleanup"}
  NoTask = NoTask
  NoRequest = NoRequest
  MaxEpoch = 2
  maxActiveRuns = 1
  maxQueuedRuns = 1
  maxTasks = 1
  maxRuns = 1
  maxRunsPerTask = 1
  maxOrdinaryOperationsPerRun = 5
  maxOrdinaryOperations = 8
CHECK_DEADLOCK FALSE
INVARIANTS
  ReleasedAfterQuiescence
  OutcomeIsHonest
  ReportedResultIsKept
  OneTurn
PROPERTIES
  FinishSettles
  CancelSettles
