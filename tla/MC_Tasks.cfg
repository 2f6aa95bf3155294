SPECIFICATION Spec
CONSTANTS
  Threads = {t1, t2}
  TitleSize = 2
  ServiceSize = 6
  ContentSize = 8
  LabelSize = 1
  IntBits = 3
  Ids <- TheIds
  Numbers <- TheNumbers
  TaskIds = {0, 1}
  ContentOf <- TheContents
  SubTypeMax = 3
  Items <- TheItems
  MaxRequests = 2
INVARIANTS
  AnswersTrue
PROPERTIES
  OnlyNamedChanges
  RequestsAnswered
CHECK_DEADLOCK FALSE
