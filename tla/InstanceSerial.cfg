SPECIFICATION Spec
CONSTANTS
  Calls = {main, c1, c2, c3}
  Main = main
  None = None
  Overlap = FALSE
SYMMETRY Callers
INVARIANTS
  AtMostOneProcess
  StatusTellsTruth
PROPERTIES
  StopMeansStopped
  CrashReported
