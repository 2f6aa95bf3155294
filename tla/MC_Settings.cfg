SPECIFICATION Spec
CONSTANTS
  Threads = {t1}
  Paths = {"default", "mine", "long", "cut"}
  DefaultPath = "default"
  Readable = {"default", "mine", "long"}
  LongPaths = {"long"}
  CutPath = "cut"
  Bufs = {b1, b2}
  KillAnytime = TRUE
INVARIANTS
  BundleOutlivesUse
  BundleStateTrue
  
