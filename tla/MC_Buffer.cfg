SPECIFICATION Spec
CONSTANTS
  x = x
  y = y
  Nul = Nul
  Junk = Junk
  Byte <- TheBytes
  ReserveSize = 3
  SizeMax = 15
  MaxText = 3
  MaxLen = 5
SYMMETRY Symmetry
INVARIANTS
  StringStaysInside
  HoldsWhatWasWritten
PROPERTIES
  ImplementsByteQueue
