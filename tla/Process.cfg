\* Text and failures across the boundary of Java and JavaScript; one engine
\* at a time, none closed while another has callbacks; three threads that
\* nest calls in the order of the engines.
SPECIFICATION ProcessSpec
SYMMETRY EngineSymmetry
CONSTANTS
  Units <- MCUnits
  MaxUnits = 3
  Bytes <- MCBytes
  MaxBytes = 4
  LogUnits <- MCLogUnits
  MaxArgs = 2
  Steady = TRUE
  MaxFailures = 3
  MaxDepth = 3
  Engines = {e1, e2, e3}
  MaxCallbacks = 3
  MaxRefs = 4
  Overlap = FALSE
  Closing = "last"
  Threads = {t1, t2, t3}
  MaxEngines = 3
  MaxNest = 3
  Ordered = TRUE
  CloseInside = FALSE
INVARIANTS
  TextTypeOK
  WritesFit
  ReadsInside
  TextArrives
  OnlyTextIsRead
  FlowTypeOK
  CallbackTypeOK
  FunctionsServed
  RefsAccounted
  LifeTypeOK
  NativeOnLiveEngines
  SomeCallMoves
PROPERTIES
  JNIQuiet
  NothingElseLost
  NoneComesBack
  ImplementsRegistry
