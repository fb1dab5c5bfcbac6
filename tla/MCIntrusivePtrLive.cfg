SPECIFICATION FairSpec
CONSTANTS
  t1 = t1
  t2 = t2
  t3 = t3
  o1 = o1
  o2 = o2
  p1 = p1
  p2 = p2
  r1 = r1
  r2 = r2
  w1 = w1
  w2 = w2
  x1 = x1
  x2 = x2
  Thread = {t1, t2}
  Object = {o1}
  Ptr = {p1, p2}
  RawPtr = {r1}
  WeakPtr = {w1}
  RawWeakPtr = {x1}
  NULL = NULL
  CountMax = 15
PROPERTIES
  ResourcesReleased
  Freed
  LockReturns
  ImplementsOwnership
