SPECIFICATION Spec
CONSTANTS
  owner = owner
  ops = ops
  p1 = p1
  p2 = p2
  w1 = w1
  w2 = w2
  Ids = {a1}
  Users <- MCUsers
  Owners <- MCOwners
  Submitters <- MCSubmitters
  Payloads <- MCPayloads
  Workers <- MCWorkers
  Nobody = Nobody
  MaxVersion = 5
SYMMETRY Symmetry
PROPERTIES
  RevocationIsImmediate
