CONSTANTS
  AssignmentIds = {a1, a2}
  SessionIds = {s1, s2}
  Members = {m1}
  Clients = {c1}
  Nil = Nil
  PageCount = 2
  ProgramWindow <- MCProgramWindow
  TicksPerSecond = 1
  SessionLeaseTTL = 1
  BatchLimit = 1
  InputPages <- MCPages
  InputWindows <- MCAnyWindows
  Horizon = 4
  MaxVersion = 2
SPECIFICATION Spec
INVARIANTS
  SectionsInsideProgram
CHECK_DEADLOCK FALSE
