CONSTANTS
  Job = {1, 2, 3}
  MaxDate = 1
  PageSize = 1
  MaxLoads = 2
SPECIFICATION Spec
INVARIANTS
  NoneSkipped
  ServedOnce
PROPERTIES
  ScrollEnds
