CONSTANTS
  Calls = {1, 2, 3}
  NoCall = NoCall
  burger = burger
  Items <- MCItems
  Cost <- MCCost
  InitialAmount <- MCInitialAmount
  Sessions = {1, 2}
  Requests <- PurchaseThenOrder
  Modulus = 8
  MaxUsers = 2
  MaxElements = 4
  MainThreads = 2
  OrderThreads = 2
  WriterPreferring = FALSE
SPECIFICATION SerialSpec
INVARIANT OrderSeesEarlierPurchases
CHECK_DEADLOCK FALSE
