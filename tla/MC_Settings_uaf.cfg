SPECIFICATION Spec
CONSTANTS
  Threads = {t1, t2}
  Paths = {"default", "mine", "cut"}
  DefaultPath = "default"
  Readable = {"default", "mine"}
  LongPaths = {}
  CutPath = "cut"
  Bufs = {b1, b2}
  KillAnytime = FALSE
INVARIANT
  BundleOutlivesUse
