\* subscribe() on an open connection.
SPECIFICATION TickerSpec
CONSTANTS
  EnableReconnect = TRUE
  MaxReconnectDelay = 5
  MaxReconnectTries = 1
  Sockets = {s1}
  None = None
  ConnectPoints <- MainOnly
  MaxConnects = 1
  Tokens = {t1, t2}
  MaxInFlight = 2
  Listens = {"onTicks", "onOrderUpdate", "onMessage", "onError"}
  MaxBeats = 0
INVARIANT
  SubscribedIsServed
CHECK_DEADLOCK FALSE
