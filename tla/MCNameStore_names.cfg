SPECIFICATION Spec
CONSTANTS
  Threads = {t1, t2}
  Uris = {"", "a", "b"}
  Locals = {"", "root", "_", "x", "y"}
  Names <- SomeNames
  First <- RootName
  ReadBack <- ReadName
  Shared = TRUE
  MaxCalls = 4
INVARIANTS CodesResolve CodesKeepMeaning
SYMMETRY Symmetry
