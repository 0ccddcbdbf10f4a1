CONSTANTS
  Connections = {k1, k2, k3}
  NoConnection = NoConnection
  Messages <- MixedMessages
  IoThreads = 2
SPECIFICATION Spec
INVARIANTS
  HttpTypeOK
  OneAnswer
  AnswerTellsEffect
  WaitersStayOpen
  EndsAfterReturn
SYMMETRY ConnectionSymmetry
CHECK_DEADLOCK FALSE
