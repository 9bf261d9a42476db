SPECIFICATION FairSpec
CONSTANTS
  r1 = r1
  w1 = w1
  w2 = w2
  w3 = w3
  p1 = p1
  p2 = p2
  plain = plain
  blank = blank
  slash = slash
  None = None
  Rules = {r1}
  Workers = {w1, w2}
  Posts = {p1, p2}
  Configs = {plain, blank, slash}
  Entered = {slash}
  Normal <- Cleaned
  MaxInputs = 2
  Faults = {"settings"}
INVARIANTS
  TypeOK
  NoLeakedWorker
  StopCancels
PROPERTIES
  NoChurn
  Convergence
  EventuallyScanned
CHECK_DEADLOCK FALSE
