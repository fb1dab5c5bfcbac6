SPECIFICATION Spec
CONSTANTS
  CPU = CPU
  CUDA = CUDA
  DeviceType = {CPU, CUDA}
  DeviceCount <- Count
  Registered = {CUDA}
  MaxDepth = 3
INVARIANTS
  CurrentIsSelected
PROPERTIES
  Restores
