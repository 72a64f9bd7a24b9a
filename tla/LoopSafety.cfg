\* Two entry points deep, every habit of scripts allowed.
SPECIFICATION Spec
CONSTANTS
  MaxTimers = 2
  Fns = {f1}
  Undefined = undefined
  Ops = {"eval", "call", "load", "global", "await", "drain", "loop"}
  MaxDepth = 2
  Delays = {0, 1}
  Repeats = {FALSE, TRUE}
  Waits = {1}
  MaxClock = 1
  MaxIds = 2
  MaxJobs = 1
  Replace = TRUE
  Chain = TRUE
  ReportEnds = TRUE
INVARIANTS
  TypeOK
  UniqueIds
  RefBalance
  DeadlineOwned
  PassServesAll
PROPERTIES
  QuietReturn
  FreedByOwnTimer
