SPECIFICATION FairSpec
CONSTANTS
  Block = {b1, b2}
  Local = {x1}
  Member = {s1}
  StorageImpl = {s1}
  Handle = {h1, h2}
  WeakHandle = {w1}
  ClientDeleter = {d1}
  Allocator = {a1}
  NewAllocator = {a1, NULL}
  Resizable = {TRUE, FALSE}
  NULL = NULL
  cpu_deleter = cpu_deleter
  deleteNothing = deleteNothing
INVARIANTS
  FreedOnceByItsDeleter
  OneOwner
  DataIsValid
  CheckIsCurrent
  OnlyOwnersKeepMemory
PROPERTIES
  MemoryReturns
