CONSTANTS
  board = board
  aggregator = aggregator
  b1 = b1
  b2 = b2
  a1 = a1
  p1 = p1
  p2 = p2
  Source = {board, aggregator}
  Record = {b1, b2, a1}
  Posting = {p1}
  Job = {j1, j2}
  NoJob = NoJob
  NoRecord = NoRecord
  NoPosting = NoPosting
  Partial = {}
  Windowed = {}
  Dated = {}
  Deadline = 0
  Lifetime = 1
  Grace = 0
  BatchSize = 1
  Overlap = TRUE
  ExpiryScheduled = FALSE
  Probes = TRUE
  MaxClock = 1
  SettleBy = 0
  SourceOf <- MCSourceOf
  PostingOf <- MCPostingOf
SPECIFICATION StillSpec
SYMMETRY JobSymmetry
INVARIANTS
  RowsNameStoredJobs
  OpenUpsertKeepsItsJob
PROPERTIES
  RetentionSparesListed
  ConcludesFromAll
