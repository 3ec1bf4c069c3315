SPECIFICATION Spec
CONSTANTS
  u1 = u1
  u2 = u2
  w1 = w1
  w2 = w2
  Users <- MCUsers
  Reviewers <- MCUsers
  Workers <- MCWorkers
  Nobody = Nobody
  MaxRows = 3
  MaxAttempts = 2
  MaxLosses = 1
  MaxDeploys = 0
SYMMETRY Symmetry
INVARIANTS
  AuthorDoesNotDecide
