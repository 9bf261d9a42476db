SPECIFICATION FairSpec
CONSTANTS
  a = a
  b = b
  j1 = j1
  j2 = j2
  NoJob = NoJob
  Paths = {a}
  Jobs = {j1, j2}
  MaxVersion = 1
  Small <- None
  BatchSize = 2
  MaxParallelJobs = 1
  RetryLimit = 1
  Move = FALSE
  Filters <- NoFilter
  Faults = {"fail", "retry"}
PROPERTIES
  QueueDrains
