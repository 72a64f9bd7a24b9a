\* eval with a timeout whose exception describes itself for ever.
SPECIFICATION LiveSpec
CONSTANTS
  MaxTimers = 2
  Fns = {f1}
  Undefined = undefined
  Ops = {"eval"}
  MaxDepth = 1
  Delays = {0, 1}
  Repeats = {FALSE, TRUE}
  Waits = {1}
  MaxClock = 2
  MaxIds = 2
  MaxJobs = 1
  Replace = TRUE
  Chain = FALSE
  ReportEnds = FALSE
PROPERTIES
  EvalReturns
