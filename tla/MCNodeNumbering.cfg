SPECIFICATION Spec
CONSTANTS
  Nodes <- SmallNodes
  Roots <- SmallRoots
  Children <- SmallChildren
  Blank <- SmallBlank
  DepthLimit = 5
  MaxAdditions = 2
CHECK_DEADLOCK FALSE
INVARIANTS
  Laminar
  ChildInsideParent
  FinishedIsNumbered
  ParentIsInnermost
  DocumentOrder
  DepthTellsNesting
