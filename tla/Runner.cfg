SPECIFICATION RunnerFairSpec
CONSTANTS
  Calls = {main, down, r1, r2}
  Overlap = TRUE
  Main = main
  Restarts = {r1, r2}
  Down = down
  None = None
  MaxEdits = 2
  MaxAtEnd = 1
INVARIANT CleanExit
PROPERTIES ChangeRestarts ShutdownEnds
\* The program ends; that it does so only when told to, and then does, is ShutdownEnds.
CHECK_DEADLOCK FALSE
