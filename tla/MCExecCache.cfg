SPECIFICATION Spec
CONSTANTS
  Threads = {t1, t2}
  Indexes = {i1, i2, dev}
  DevIndexes = {dev}
  Keys = {k1}
  NoKey = NoKey
  None = None
  MaxEdits = 2
  MaxCalls = 4
SYMMETRY Symmetry
INVARIANTS
  CompiledForItsIndex
  DevelopmentIsFresh
PROPERTIES
  CacheIsSettled
CHECK_DEADLOCK FALSE
