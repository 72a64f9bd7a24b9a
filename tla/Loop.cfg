\* One entry point at a time; a callback may clear its own timer, as the README does.
SPECIFICATION LiveSpec
CONSTANTS
  MaxTimers = 2
  Fns = {f1}
  Undefined = undefined
  Ops = {"eval", "call", "load", "global", "await", "drain", "loop"}
  MaxDepth = 1
  Delays = {0, 1}
  Repeats = {FALSE, TRUE}
  Waits = {1}
  MaxClock = 2
  MaxIds = 3
  MaxJobs = 1
  Replace = FALSE
  Chain = FALSE
  ReportEnds = TRUE
PROPERTIES
  ImplementsTimers
  EvalReturns
  LoopReturns
  DrainReturns
  AwaitReturns
