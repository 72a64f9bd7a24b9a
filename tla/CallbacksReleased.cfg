\* One engine at a time, any of them closed at any time.
SPECIFICATION CallbackSpec
CONSTANTS
  Engines = {e1, e2}
  MaxCallbacks = 2
  MaxRefs = 4
  Overlap = FALSE
  Closing = "any"
INVARIANTS
  FunctionsServed
