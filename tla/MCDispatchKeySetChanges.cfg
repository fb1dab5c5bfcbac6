SPECIFICATION CSpec
CONSTANTS
  num_backends = 2
  num_functionality_keys = 5
  Dense = 1
  AutogradFunctionality = 3
PROPERTIES
  ChangesBehindAreSafe
  LoopStops
CHECK_DEADLOCK FALSE
