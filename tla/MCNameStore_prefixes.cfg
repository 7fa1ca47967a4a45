SPECIFICATION Spec
CONSTANTS
  Threads = {t1, t2}
  Uris = {""}
  Locals = {"p", "q", "r"}
  Names <- Prefixes
  First <- NoNames
  ReadBack <- ReadPrefix
  Shared = FALSE
  MaxCalls = 4
INVARIANT MemoryIsOnFile
SYMMETRY Symmetry
