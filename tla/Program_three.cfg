SPECIFICATION FairSpec
CONSTANTS
  Node = {n1, n2, n3}
  ProgHead = ProgHead
  Line <- MCLine
  Stmt <- MCStmt
INVARIANTS
    IInv
PROPERTIES
    ImplementsStore
    QuitEndsRun
