SPECIFICATION Spec
CONSTANTS
  Overlapping = FALSE
  MaxCalls = 3
  MaxRefused = 1
INVARIANTS TypeOK EditsInOrder ValuesInGestures HostAgrees
PROPERTY EveryEditDelivered
