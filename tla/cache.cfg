SPECIFICATION Spec
CONSTANTS
  x = x
  y = y
  Ids = {0, 6, 1, 2}
  Data = {x, y}
  Nothing = Nothing
  Capacity = 3
  Tau = 3
  MaxTime = 7
SYMMETRY Symmetry
INVARIANTS
  TypeOK
  SizeExact
  AccessTimesDiffer
PROPERTIES
  EvictionPolicy
  NeverStale
