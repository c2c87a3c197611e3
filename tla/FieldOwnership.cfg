CONSTANTS
  Source = {"board", "feed1", "feed2"}
  Rank <- MCRank
  Optional = {"location"}
  Opening <- MCOpening
  Mover = {"board"}
  MaxEdits = 1
SPECIFICATION Spec
CHECK_DEADLOCK FALSE
PROPERTIES
  NothingErased
  OwnerLands
