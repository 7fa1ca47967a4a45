SPECIFICATION FairTreeSpec
CONSTANTS
  f = f
  g = g
  h = h
  k = k
  l = l
  a = a
  Root = Root
  None = None
  Folders = {f, g, h, k, l}
  Items = {a}
  In <- Tree
  MaxSent = 3
CHECK_DEADLOCK FALSE
INVARIANTS
  TreeFollowsServer
PROPERTIES
  LoadingEnds
