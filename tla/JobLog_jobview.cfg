SPECIFICATION Spec
CONSTANTS
  j1 = j1
  j2 = j2
  a = a
  b = b
  NoJob = NoJob
  Jobs = {j1}
  Limit = 1
  MaxRestarts = 1
  Faults = {"refuse", "crash", "retention"}
  Paths = {a, b}
  MaxLines = 2
  TailLines = 1
  UserKeys = {"--rc", "--rc-addr", "--rc-no-auth", "--stats", "--config", "--exclude", "--min-size", "--delete-excluded", "--bwlimit", "--fast-list"}
  MaxArgs = 3
  MaxChars = 4
INVARIANTS
  TypeOK
  RowTellsTruth
  RunningIsTended
  DoneCountExact
  DoneStreamComplete
  SanitizedAsMeant
  
  ParsesQuoted
PROPERTIES
  ClosedIsFinal
  TerminationEnds
  PendingEnds
  StreamEnds
CHECK_DEADLOCK FALSE
