SPECIFICATION FairSpec
CONSTANTS
  Methods = {"GET", "POST", "OPTIONS", "other"}
  MaxBody = 2
  MaxFile = 2
  QuerySize = 3
  Failures = {"memory", "open", "read"}
INVARIANTS
  ResponseGrammar
  ErrorKeepsStatus
  AnsweredWhole
  ConnectionClean
PROPERTIES
  HandledIsFinished
\* The connection ends.
CHECK_DEADLOCK FALSE
