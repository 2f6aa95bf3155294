SPECIFICATION Spec
CONSTANTS
  Qty = 5
  Strings = {"a", "b"}
  MaxText = 9
INVARIANTS
  ParsedTree
  ValidIsAccepted
  PropertyIsFirst
PROPERTIES
  ParserEnds
CHECK_DEADLOCK FALSE
