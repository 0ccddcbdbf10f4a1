CONSTANTS
  Connections = {k1, k2}
  NoConnection = NoConnection
  Messages <- DocumentedMessages
  IoThreads = 2
SPECIFICATION Spec
INVARIANT DocumentedFormIsServed
CHECK_DEADLOCK FALSE
