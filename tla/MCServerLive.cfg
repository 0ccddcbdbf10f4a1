CONSTANTS
  Calls = {c1, c2, c3}
  NoCall = NoCall
  burger = burger
  fries = fries
  Items <- MCItems
  Cost <- MCCost
  InitialAmount <- MCInitialAmount
  Sessions = {1, 2, 3, 5}
  Requests <- ProgressRequests
  Modulus = 8
  MaxUsers = 2
  MaxElements = 4
  MainThreads = 1
  OrderThreads = 1
  WriterPreferring = FALSE
SPECIFICATION FairSpec
INVARIANT StuckHasCause
PROPERTY AnsweredIfOrdersFollow
CHECK_DEADLOCK FALSE
