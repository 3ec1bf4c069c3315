SPECIFICATION FairSpec
CONSTANTS
  u1 = u1
  u2 = u2
  w1 = w1
  w2 = w2
  Users <- MCOneUser
  Reviewers <- MCPeer
  Workers <- MCWorkers
  Nobody = Nobody
  MaxRows = 2
  MaxAttempts = 2
  MaxLosses = 1
  MaxDeploys = 1
PROPERTIES
  ImplementsOutbox
  EveryIntentSettles
CHECK_DEADLOCK FALSE
