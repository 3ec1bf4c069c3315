SPECIFICATION Spec
CONSTANTS
  w1 = w1
  w2 = w2
  Workers <- MCWorkers
  Amounts <- MCAmounts
  Rates <- MCRates
  OrgShares <- MCOrgShares
  Splits <- MCSplits
  StartStages <- MCStartStages
  MaxCalls = 4
SYMMETRY Symmetry
INVARIANTS
  TypeOK
  SettledIsComplete
  PoolIsLanded
  PaidUnderLive
  OneLivePerLine
  PoolIsExhausted
  OnlyVoidsDeadlock
PROPERTIES
  BooksClosed
  AuditIsHonest
  InvoiceBillsItsLine
CHECK_DEADLOCK FALSE
