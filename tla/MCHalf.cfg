SPECIFICATION Spec
CONSTANTS
  HalfBits <- MCHalfBits
  FloatBits <- MCFloatBits
  Operands <- MCOperands
CHECK_DEADLOCK FALSE
INVARIANTS
  WidensExactly
  NarrowsToNearest
  RoundsAsOnce
