CONSTANTS
  ClaimIds = {q1}
  ReviewIds = {v1, v2}
  Users = {author, u1, u2}
  Author = author
  Reviewers = {author, u1, u2}
  Workers = {w1}
  Clients = {c1}
  Nil = Nil
  LeaseTTL = 2
  Horizon = 4
  MaxVersion = 3
SPECIFICATION Spec
PROPERTIES
  ResolutionIsStored
CHECK_DEADLOCK FALSE
