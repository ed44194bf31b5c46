SPECIFICATION FairSpec
CONSTANTS
  Kinds = {"socket", "port", "fifo", "scrape", "output"}
  MaxRuns = 2
  MaxRecords = 2
  PipeSize = 2
  NoFile = NoFile
  Leftover = Leftover
INVARIANTS
  OwnsItsName
  StoredAsWritten
PROPERTIES
  ReleasedInEnd
  StoredWhileRunning
CHECK_DEADLOCK FALSE
