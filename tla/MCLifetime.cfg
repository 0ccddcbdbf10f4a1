CONSTANTS
  Calls = {k1, k2, k3}
  NoCall = NoCall
  burger = burger
  Items <- MCItems
  Cost <- MCCost
  InitialAmount <- MCInitialAmount
  Sessions = {1, 2, 3, 5}
  Requests <- MCRequests
  Modulus = 8
  MaxUsers = 2
  MaxElements = 4
  MainThreads = 1
  OrderThreads = 1
  WriterPreferring = FALSE
SPECIFICATION LifetimeFairSpec
INVARIANTS
  DestroyedAtRest
  JoinMeansDone
  JoinedDiesOutside
PROPERTIES
  JoinReturns
  LetGoIsDestroyed
CHECK_DEADLOCK FALSE
