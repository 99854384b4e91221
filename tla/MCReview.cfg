CONSTANTS
  ClaimIds = {q1}
  ReviewIds = {v1, v2}
  Users = {author, u1, u2}
  Author = author
  Reviewers = {author, u1, u2}
  Workers = {w1, w2}
  Clients = {c1, c2}
  Nil = Nil
  LeaseTTL = 2
  Horizon = 4
  MaxVersion = 4
SPECIFICATION Spec
SYMMETRY MCSymmetry
INVARIANTS
  TypeOK
  OneLiveReview
  VerdictHasDecision
  IndependentReview
  RequestsFresh
PROPERTIES
  VerdictIsFinal
  ReviewIsLeased
CHECK_DEADLOCK FALSE
