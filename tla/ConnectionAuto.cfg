\* Automatic reconnection; the program connects again after it has failed.
SPECIFICATION Spec
CONSTANTS
  EnableReconnect = TRUE
  MaxReconnectDelay = 5
  MaxReconnectTries = 3
  Sockets = {s1, s2}
  None = None
  ConnectPoints <- AutomaticPoints
  MaxConnects = 3
INVARIANTS
  TypeOK
  ConnectedIffOpen
  OneConnection
  BackoffSchedule
  GivesUpAtBudget
  NeverSilent
  StopIsFinal
PROPERTIES
  LossIsAnswered
  KeepsPromise
\* The event loop really stops when nothing is open or on its way.
CHECK_DEADLOCK FALSE
