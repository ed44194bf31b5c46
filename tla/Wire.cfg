SPECIFICATION WireSpec
CONSTANTS
  WordBits = 15
  HalfBits = 8
  Texts <- MCTexts
  Numbers <- MCNumbers
  Unknown <- MCUnknown
  MaxCut = 8
  None = None
INVARIANTS
  RoundTrip
  CutIsSeen
CHECK_DEADLOCK FALSE
