CONSTANTS
  AssignmentIds = {a1, a2}
  SessionIds = {s1, s2}
  Members = {m1}
  Clients = {c1}
  Nil = Nil
  PageCount = 2
  ProgramWindow <- MCHalfSecondProgram
  TicksPerSecond = 2
  SessionLeaseTTL = 1
  BatchLimit = 1
  InputPages <- MCPages
  InputWindows <- MCHalfSecondWindows
  Horizon = 6
  MaxVersion = 2
SPECIFICATION Spec
INVARIANTS
  NoDoubleBooking
CHECK_DEADLOCK FALSE
