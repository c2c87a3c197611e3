CONSTANTS
  Companies = 2
  Budget = 1
  Recheck = 1
  Host = {"own", "ats"}
  Ignored = {"ats"}
  Entity = {"e1"}
  MaxVotes = 2
  MaxFailures = 1
  Tenant = {"acme", "notacme", "vendor"}
  Contains <- Endings
  Pages = 2
  MaxRedirects = 1
  MaxProbes = 2
SPECIFICATION Spec
INVARIANTS
  RequestsAreBounded
  AnswersFitTheRegistry
PROPERTIES
  EveryCompanyIsLookedAt
