CONSTANTS
  AssignmentIds = {a1, a2, a3}
  SessionIds = {s1, s2}
  Members = {m1}
  Nil = Nil
  PageCount = 2
  SessionLeaseTTL = 1
  InputPages <- MCPages
  InputWindows <- MCWindows
  Horizon = 3
  MaxVersion = 2
SPECIFICATION LedgerSpec
SYMMETRY MCSymmetry
INVARIANTS
  NoDoubleBooking
  LeaseBelongsToReader
  SessionMatchesAssignment
  SubmittedHasSession
  EvidenceInsideSection
PROPERTIES
  TerminalIsFinal
  VersionsAdvance
CHECK_DEADLOCK FALSE
