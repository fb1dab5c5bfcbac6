SPECIFICATION Spec
CONSTANTS
  SizeMax = 7
  NULL = NULL
  Obj = {a, b}
  MAX_SIZE = 2
  Number = {0, 1}
SYMMETRY Symmetry
INVARIANTS
  ViewArrives
PROPERTIES
  ImplementsDimensions
