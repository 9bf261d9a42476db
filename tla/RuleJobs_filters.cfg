SPECIFICATION Spec
CONSTANTS
  a = a
  b = b
  j1 = j1
  j2 = j2
  NoJob = NoJob
  Paths = {a, b}
  Jobs = {j1, j2}
  MaxVersion = 2
  Small <- One
  BatchSize = 2
  MaxParallelJobs = 2
  RetryLimit = 1
  Move = TRUE
  Filters <- AnyFilter
  Faults = {"restart", "crash", "db", "remove", "quiet"}
SYMMETRY Symmetry
INVARIANTS
  ClaimsHeld
PROPERTIES
  DoneJobDelivered
