\* awaitPromise with an interval that queues jobs.
SPECIFICATION LiveSpec
CONSTANTS
  MaxTimers = 2
  Fns = {f1}
  Undefined = undefined
  Ops = {"eval", "await"}
  MaxDepth = 1
  Delays = {0, 1}
  Repeats = {FALSE, TRUE}
  Waits = {1}
  MaxClock = 2
  MaxIds = 2
  MaxJobs = 1
  Replace = TRUE
  Chain = FALSE
  ReportEnds = TRUE
PROPERTIES
  AwaitTimesOut
