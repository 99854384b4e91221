CONSTANTS
  ProgramIds = {p1}
  Users = {co, u1, u2}
  Coordinators = {co}
  Researchers = {co, u1, u2}
  Keys = {k1, k2}
  Bodies = {b1, b2}
  Clients = {c1, c2}
  Nil = Nil
  Capacities = {2, 3}
  StartsAt = 2
  EndsAt = 3
  Horizon = 3
SPECIFICATION Spec
SYMMETRY MCSymmetry
INVARIANTS
  TypeOK
  CapacityHeld
  RunningHasMembers
  KeysNameMembers
  ToldMembersExist
PROPERTIES
  EnrolledInTime
CHECK_DEADLOCK FALSE
