SPECIFICATION FairSpec
CONSTANTS
  Job = {1, 2}
  Size <- MCSize
  Bytes <- MCBytes
  Room = 2
  ExitStatus = {0}
INVARIANTS
  OutputComplete
PROPERTIES
  JobsEnd
CHECK_DEADLOCK FALSE
