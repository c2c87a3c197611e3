CONSTANTS
  Address = {"ada"}
  Slot = {s1, s2}
  Key <- MCKey
  Watched <- MCWatched
  Attempts = 1
  Window = 3
  Capacity = 1
  MaxVersion = 3
  MaxAccount = 2
  MaxToken = 2
  MaxNow = 3
SYMMETRY Slots
SPECIFICATION Spec
CHECK_DEADLOCK FALSE
INVARIANTS
  OneAccountPerAddress
  EndedStaysEnded
  AttemptsBounded
PROPERTIES
  RefusalIsKept
