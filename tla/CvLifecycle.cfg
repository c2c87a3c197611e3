CONSTANTS
  v1 = v1
  v2 = v2
  v3 = v3
  k1 = k1
  k2 = k2
  Cv = {v1, v2}
  Concept = {k1}
  Nobody = Nobody
  ByHand = ByHand
  Faults = TRUE
  Says <- MCSays
SPECIFICATION Spec
CHECK_DEADLOCK FALSE
INVARIANTS
  NothingStray
  LaterSurvives
  NewestTakesItsSkills
PROPERTIES
  ByHandStands
  ReadToAnEnd
