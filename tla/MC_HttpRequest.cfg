SPECIFICATION Spec
CONSTANTS
  MaxLen = 3
  ChunkSize = 2
INVARIANTS
  HandlesNest
  FailClosed
  SuccessIsHonest
  
  BufferSettled
PROPERTIES
  FailureSticks
