SPECIFICATION UrlsSpec
CONSTANTS
  Threads = {t1, t2}
  Safe = {"a"}
  Reserved = {"?"}
  Elements <- TheElements
  MaxPieces = 1
  MaxInstalls = 2
INVARIANTS
  UrlsKept
CHECK_DEADLOCK FALSE
