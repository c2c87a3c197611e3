CONSTANTS
  board = board
  aggregator = aggregator
  b1 = b1
  b2 = b2
  a1 = a1
  p1 = p1
  p2 = p2
  Source = {board, aggregator}
  Record = {b1, b2, a1}
  Posting = {p1}
  Job = {j1, j2}
  NoJob = NoJob
  NoRecord = NoRecord
  NoPosting = NoPosting
  Partial = {}
  Windowed = {}
  Dated = {}
  Deadline = 0
  Lifetime = 0
  Grace = 1
  BatchSize = 1
  Overlap = TRUE
  ExpiryScheduled = FALSE
  Probes = FALSE
  MaxClock = 2
  SettleBy = 1
  SourceOf <- MCSourceOf
  PostingOf <- MCPostingOf
SPECIFICATION LeftFairSpec
PROPERTIES
  Settles
