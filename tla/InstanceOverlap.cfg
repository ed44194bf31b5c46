SPECIFICATION FairSpec
CONSTANTS
  Calls = {main, c1}
  Main = main
  None = None
  Overlap = TRUE
INVARIANTS
  ProcessFieldFresh
  NoGhostRegistration
  NoLeakedContext
  StartingExplained
PROPERTIES
  CallsReturn
CHECK_DEADLOCK FALSE
