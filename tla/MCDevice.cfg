SPECIFICATION Spec
CONSTANTS
  Base = 4
  IntMax = 31
  IndexWidth = 8
  MaxLength = 5
  NONE = NONE
  THROWN = THROWN
  a = a
  b = b
  Allocator = {a, b}
  Static <- MCStatic
  MaxPriority = 2
  MaxCalls = 3
  NULL = NULL
CHECK_DEADLOCK FALSE
INVARIANTS
  AcceptsGrammar
  StrIdentifies
  HighestWins
