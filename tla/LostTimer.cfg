\* A callback may clear the timer it runs for and set another.
SPECIFICATION Spec
CONSTANTS
  MaxTimers = 2
  Fns = {f1}
  Undefined = undefined
  Ops = {"eval", "loop"}
  MaxDepth = 1
  Delays = {0, 1}
  Repeats = {FALSE, TRUE}
  Waits = {1}
  MaxClock = 2
  MaxIds = 2
  MaxJobs = 1
  Replace = TRUE
  Chain = TRUE
  ReportEnds = TRUE
PROPERTIES
  OnlyCalledTimerChanges
