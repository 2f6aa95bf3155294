SPECIFICATION Spec
CONSTANTS
  Threads = {t1}
  Safe = {"a"}
  Reserved = {"?"}
  Elements <- TheElements
  MaxPieces = 2
  MaxInstalls = 1
  W = 3
  MaxCount = 2
  Entries = 2
  SfoEntries <- TheSfoEntries
  MaxEntries = 3
  ContentTypes = {TRUE, FALSE}
INVARIANTS
  UrlsKept
  PiecesTile
  InstallMemorySafe
  OnlyKnownLosses
  DescribedWhole
PROPERTIES
  InstallEnds
CHECK_DEADLOCK FALSE
