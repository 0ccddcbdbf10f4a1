CONSTANTS
  Calls = {k1, k2}
  NoCall = NoCall
  burger = burger
  Items <- MCItems
  Cost <- MCCost
  InitialAmount <- MCInitialAmount
  Sessions = {1, 2, 3, 5}
  Requests <- MCRequests
  Exchanges <- AllExchanges
  Modulus = 8
  MaxUsers = 2
  MaxElements = 4
  MainThreads = 2
  OrderThreads = 1
  IoThreads = 2
  WriterPreferring = FALSE
SPECIFICATION RestaurantSpec
INVARIANTS
  CallersInTurn
  ClientToldTruth
  HungHasCause
PROPERTY KeepsHttpContract
SYMMETRY CallSymmetry
CHECK_DEADLOCK FALSE
