CONSTANTS
  Calls = {k1, k2}
  NoCall = NoCall
  burger = burger
  Items <- MCItems
  Cost <- MCCost
  InitialAmount <- MCInitialAmount
  Sessions = {1, 2, 3, 5}
  Requests <- MCRequests
  Exchanges <- ProgressExchanges
  Modulus = 8
  MaxUsers = 2
  MaxElements = 4
  MainThreads = 1
  OrderThreads = 1
  IoThreads = 1
  WriterPreferring = FALSE
SPECIFICATION RestaurantFairSpec
PROPERTY EveryExchangeEnds
CHECK_DEADLOCK FALSE
