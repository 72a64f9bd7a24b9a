\* Two threads, each with an engine of its own.
SPECIFICATION CallbackSpec
CONSTANTS
  Engines = {e1, e2}
  MaxCallbacks = 2
  MaxRefs = 4
  Overlap = TRUE
  Closing = "never"
INVARIANTS
  FunctionsServed
