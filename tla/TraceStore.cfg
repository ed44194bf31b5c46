SPECIFICATION Spec
CONSTANTS
  Traces = {t1, t2, t3}
  Services = {web}
  NoSpan = NoSpan
  MaxSize = 3
  MaxAdds = 7
SYMMETRY TraceSymmetry
INVARIANTS
  NoSpanMissed
  ExactUntilWrap
  PagesTile
  RecentSpansAreLast
