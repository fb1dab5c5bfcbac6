SPECIFICATION ResetSpec
CONSTANTS
  Thread = {t1}
  Object = {o1}
  Ptr = {p1}
  RawPtr = {}
  WeakPtr = {w1}
  RawWeakPtr = {}
  t1 = t1
  o1 = o1
  p1 = p1
  w1 = w1
  NULL = NULL
  CountMax = 15
INVARIANTS
  DtorAsserts
