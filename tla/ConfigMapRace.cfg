SPECIFICATION Spec
CONSTANTS
  Names = {n1}
  Values = {v1}
  Instances = {i1, i2}
  Callers = {c1, c2}
  MaxCalls = 2
  MaxStarts = 1
  MaxReads = 1
  MaxCrashes = 0
  None = None
  Torn = Torn
SYMMETRY ConfigSymmetry
INVARIANTS NoMapRace
