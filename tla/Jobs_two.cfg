SPECIFICATION FairSpec
CONSTANTS
  MaxJobs = 2
  Pid = {p1, p2, p3}
  NoPid = NoPid
  AnyPid = AnyPid
  Statements = {"FG", "BG", "WAIT", "POLL", "CANCEL", "PAUSE"}
INVARIANTS
    IInv
    StatusIsOwn
PROPERTIES
    CanceledStays
    StatementsEnd
