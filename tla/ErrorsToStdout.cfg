\* One engine, its console without handlers.
SPECIFICATION CallbackSpec
CONSTANTS
  Engines = {e1}
  MaxCallbacks = 2
  MaxRefs = 2
  Overlap = FALSE
  Closing = "last"
INVARIANTS
  ErrorsToStderr
