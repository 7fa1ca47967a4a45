SPECIFICATION Spec
CONSTANTS
  Paths = {p1, p2}
  NoFile = NoFile
  NoDialog = NoDialog
  MaxEdits = 3
  MaxRequests = 3
  MaxTabs = 3
SYMMETRY Symmetry
CHECK_DEADLOCK FALSE
INVARIANTS
  SavedIsStored
  UnmarkedIsStored
  OneTabPerPath
