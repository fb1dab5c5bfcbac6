SPECIFICATION Spec
CONSTANTS
  Block = {b1}
  Local = {x1}
  Member = {s1}
  StorageImpl = {s1}
  Handle = {h1}
  WeakHandle = {w1}
  ClientDeleter = {}
  Allocator = {a1}
  NewAllocator = {NULL}
  Resizable = {TRUE, FALSE}
  NULL = NULL
  cpu_deleter = cpu_deleter
  deleteNothing = deleteNothing
INVARIANTS
  ResizableHasAllocator
