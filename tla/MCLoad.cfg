CONSTANTS
  Workers = {w1, w2, w3}
  BulkWorkers = {w1, w2}
  Durations = {0, 1, 2}
  FileSizes = {0, 2}
  Scenarios <- BothKinds
  BatchSizes = {1, 2, 3}
  MaxSent = 5
  MaxAsked = 5
SPECIFICATION Either
INVARIANTS TypesKept MissingBounded HistoryHonest RunsItsTime LeakBounded SummaryExact
PROPERTIES Ends
CHECK_DEADLOCK FALSE
