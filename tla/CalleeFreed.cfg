\* runEventLoop with an interval that clears itself.
SPECIFICATION Spec
CONSTANTS
  MaxTimers = 2
  Fns = {f1}
  Undefined = undefined
  Ops = {"eval", "loop"}
  MaxDepth = 1
  Delays = {0, 1}
  Repeats = {FALSE, TRUE}
  Waits = {1}
  MaxClock = 2
  MaxIds = 2
  MaxJobs = 1
  Replace = FALSE
  Chain = FALSE
  ReportEnds = TRUE
INVARIANTS
  CalleeHeld
