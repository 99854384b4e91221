CONSTANTS
  UserIds = {u1, u2}
  SessionIds = {s1, s2}
  Emails = {admin, reader}
  AdminEmail = admin
  Clients = {c1, c2}
  Nil = Nil
  SessionTTL = 2
  TouchInterval = 1
  Horizon = 4
SPECIFICATION Spec
SYMMETRY MCSymmetry
INVARIANTS
  TypeOK
  SeenFresh
  DeadNotAdmitted
PROPERTIES
  RevokedIsFinal
  LastSeenThrottled
CHECK_DEADLOCK FALSE
