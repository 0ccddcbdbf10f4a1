CONSTANTS
  Calls = {1, 2}
  NoCall = NoCall
  burger = burger
  Items <- MCItems
  Cost <- MCCost
  InitialAmount <- MCInitialAmount
  Sessions = {1, 2}
  Requests <- BuyAndRemove
  Modulus = 8
  MaxUsers = 2
  MaxElements = 4
  MainThreads = 2
  OrderThreads = 2
  WriterPreferring = FALSE
SPECIFICATION SerialSpec
INVARIANT StockWithinSupply
CHECK_DEADLOCK FALSE
