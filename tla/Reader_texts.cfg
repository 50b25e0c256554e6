SPECIFICATION ReaderSpec
CONSTANTS
  Line = {}
  Stmt = {}
  End = End
  Length = 3
  IntBits = 6
  Script <- MCScript
  Source <- MCSource
INVARIANTS
  Precedence
  LineByLine
  ListingReadsBack
PROPERTIES
  ReaderEnds
CHECK_DEADLOCK FALSE
