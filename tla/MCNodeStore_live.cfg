SPECIFICATION FairSpec
CONSTANTS
  Uris = {u1}
  Sessions = {s1, s2}
  Trees <- Pairs
  MaxCalls = 3
PROPERTIES
  EventuallySearchable
  PartialViewIsTemporary
