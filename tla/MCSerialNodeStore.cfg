SPECIFICATION SerialSpec
CONSTANTS
  Uris = {u1, u2}
  Sessions = {s1, s2}
  Trees <- Pairs
  MaxCalls = 4
INVARIANT NoPartialDocument
PROPERTY ImplementsDocStore
