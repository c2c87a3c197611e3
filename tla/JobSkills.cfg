CONSTANTS
  Run = {"board", "feed"}
  Concept = {"go", "spark", "sql"}
  Form = {"golang", "spark", "r"}
  Newest = 2
  Names <- Vocabulary
  Text <- Descriptions
  Candidate = {"go", "sql"}
  MinimumRankable = 2
  MaxEdits = 1
  MaxFailures = 1
SPECIFICATION Spec
INVARIANTS
  ReplacedWhole
  RankedShares
PROPERTIES
  SkillsSettle
