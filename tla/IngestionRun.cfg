CONSTANTS
  Source = {"remotive", "jobicy", "arbeitnow", "himalayas", "adzuna", "board"}
  RunsOf <- MCRunsOf
  Overlapping = {"adzuna"}
  MaxRuns = 2
  MaxPosting = 3
  PostingsOf <- MCPostingsOf
  Sections = 2
  SectionOf <- MCSectionOf
  PageSize = 1
  MaxPages = 2
  FeedLimit = 1
  MaxRecords = 2
  MaxAttempts = 2
  PerDay = 1
  LastDay = 2
  Lifetime = 0
SPECIFICATION Spec
CHECK_DEADLOCK FALSE
INVARIANTS
  EveryRecordOnce
  RowTellsTheEnd
PROPERTIES
  AbsenceIsEvidence
  QuotaIsAnAllowance
  EveryRunEnds
