CONSTANTS
  AssignmentIds = {a1, a2}
  SessionIds = {s1, s2}
  Members = {m1}
  Clients = {c1, c2}
  Nil = Nil
  PageCount = 2
  ProgramWindow <- MCProgramWindow
  TicksPerSecond = 1
  SessionLeaseTTL = 1
  BatchLimit = 1
  InputPages <- MCPages
  InputWindows <- MCWindows
  Horizon = 3
  MaxVersion = 2
SPECIFICATION Spec
SYMMETRY MCSymmetry
INVARIANTS
  TypeOK
  RequestsFresh
  SweepFresh
PROPERTIES
  LedgerSpec
CHECK_DEADLOCK FALSE
