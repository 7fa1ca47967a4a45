SPECIFICATION Spec
CONSTANTS
  Uris = {u1, u2}
  Sessions = {s1, s2}
  Trees <- Pairs
  MaxCalls = 4
SYMMETRY Symmetry
INVARIANTS
  TypeOK
  IntactDocuments
  RecoverableCounter
  LeftIsKey
  DescendantsStayInDocument
  DocumentsAreTrees
