SPECIFICATION FairSpec
CONSTANTS
  Addr = {a1, a2, a3}
  NULL = NULL
  Main = Main
  MaxBacklog = 1
INVARIANTS
  NoUseAfterFree
  OwnedOnce
  ThreadsReclaimed
PROPERTIES
  ImplementsStreamList
  ServerLives
