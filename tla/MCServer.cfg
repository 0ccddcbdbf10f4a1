CONSTANTS
  Calls = {c1, c2, c3, c4}
  NoCall = NoCall
  burger = burger
  fries = fries
  Items <- MCItems
  Cost <- MCCost
  InitialAmount <- MCInitialAmount
  Sessions = {1, 2, 3, 5}
  Requests <- MixedRequests
  Modulus = 8
  MaxUsers = 2
  MaxElements = 4
  MainThreads = 2
  OrderThreads = 2
  WriterPreferring = FALSE
SPECIFICATION Spec
INVARIANTS
  TypeOK
  LockDiscipline
  IndexInRange
  CopyIsFresh
  CountIsInFlight
  StockCheckHolds
  SettledIsFlagged
  NoLostWakeup
  OrderFollowsAPurchase
  ItemsConserved
  SalesArePaid
PROPERTY RefinesLedger
SYMMETRY CallSymmetry
CHECK_DEADLOCK FALSE
