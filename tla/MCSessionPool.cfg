SPECIFICATION Spec
CONSTANTS
  Threads = {t1, t2}
  Sessions = {s1, s2}
  None = None
  Reopener = Reopener
  MaxOpens = 2
  MaxWrites = 1
  MaxMistakes = 1
SYMMETRY Symmetry
CHECK_DEADLOCK FALSE
INVARIANTS
  CountsExact
  LeaseExclusive
PROPERTIES
  LockedOutForGood
  ImplementsLeases
