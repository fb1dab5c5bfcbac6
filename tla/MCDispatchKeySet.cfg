SPECIFICATION FairSpec
CONSTANTS
  num_backends = 3
  num_functionality_keys = 7
  Dense = 1
  AutogradFunctionality = 4
INVARIANTS
  ChecksNeverFail
  Ascending
  TableFollowsOrder
PROPERTIES
  SeesEveryKey
  LoopEnds
