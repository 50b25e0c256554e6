SPECIFICATION MushSpec
CONSTANTS
  Node = {n1}
  ProgHead = ProgHead
  Line <- MCLine
  Stmt <- MCStmt
  NoValue = NoValue
  Error = Error
  Crash = Crash
  Var <- MCVar
  Expr <- MCExpr
  Immediate <- MCImmediate
  Job = {0}
  ExitStatus = {0}
  Output <- MCOutput
  Garbage = {3}
  IntBits = 5
INVARIANTS
  VariablesHold
PROPERTIES
  ImplementsProgram
CHECK_DEADLOCK FALSE
