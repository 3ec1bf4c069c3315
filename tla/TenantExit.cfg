SPECIFICATION FairSpec
CONSTANTS
  g1 = g1
  c1 = c1
  j1 = j1
  j2 = j2
  Guests <- MCGuests
  Staff <- MCStaff
  Source <- MCSource
  Janitors <- MCJanitors
  MaxFaults = 1
INVARIANTS
  TypeOK
  OwnedBytesExist
  NothingForgotten
  NothingLeftBehind
  CountedOnce
PROPERTIES
  CaughtBeforeDestroyed
  OnlyDestroyedLeaves
  ExitCompletes
  StragglersDestroyed
CHECK_DEADLOCK FALSE
