SPECIFICATION FairSpec
INVARIANTS
  LaddersRelease
  NothingLeft
PROPERTIES
  StartsOrEnds
\* The start ends in server_listen, or the process ends.
CHECK_DEADLOCK FALSE
