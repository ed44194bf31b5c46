SPECIFICATION Spec
CONSTANTS
  MaxSize = 4
  NoEntry = NoEntry
  Entry = {e1, e2, e3, e4}
INVARIANTS
  RecentIsLast
PROPERTY
  ImplementsRecentLog
