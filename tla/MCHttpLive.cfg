CONSTANTS
  Connections = {k1, k2}
  NoConnection = NoConnection
  Messages <- ProgressMessages
  IoThreads = 1
SPECIFICATION FairSpec
PROPERTIES
  EveryConnectionEnds
  EndsWithoutListener
CHECK_DEADLOCK FALSE
