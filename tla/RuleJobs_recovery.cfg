SPECIFICATION Spec
CONSTANTS
  a = a
  b = b
  j1 = j1
  j2 = j2
  NoJob = NoJob
  Paths = {a, b}
  Jobs = {j1, j2}
  MaxVersion = 1
  Small <- None
  BatchSize = 1
  MaxParallelJobs = 2
  RetryLimit = 1
  Move = FALSE
  Filters <- NoFilter
  Faults = {"terminate", "crash", "orphan", "log", "remove", "restore", "quiet"}
SYMMETRY FullSymmetry
INVARIANTS
  NoOrphanRow
  RunningIsLive
  DoneIsDelivered
