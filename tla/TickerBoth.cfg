\* The program and the ticker both reconnect, and several connections may be
\* open at once.
SPECIFICATION TickerSpec
CONSTANTS
  EnableReconnect = TRUE
  MaxReconnectDelay = 3
  MaxReconnectTries = 2
  Sockets = {s1, s2}
  None = None
  ConnectPoints <- Eager
  MaxConnects = 2
  Tokens = {t1}
  MaxInFlight = 1
  Listens = {"onTicks", "onOrderUpdate", "onMessage", "onError"}
  MaxBeats = 1
INVARIANTS
  NoDanglingSocket
  GivesUpAtBudget
  BackoffSchedule
  InSync
CHECK_DEADLOCK FALSE
