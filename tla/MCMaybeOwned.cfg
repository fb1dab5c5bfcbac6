SPECIFICATION Spec
CONSTANTS
  Object = {o1, o2}
  Handle = {h1, h2, h3}
  Maybe = {m1, m2, m3}
  NULL = NULL
SYMMETRY Symmetry
INVARIANTS
  TypeOK
  CountIsOwners
