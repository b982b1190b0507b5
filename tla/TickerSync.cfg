\* Subscriptions and messages across losses and reconnections.
SPECIFICATION TickerSpec
CONSTANTS
  EnableReconnect = TRUE
  MaxReconnectDelay = 5
  MaxReconnectTries = 1
  Sockets = {s1}
  None = None
  ConnectPoints <- MainOnly
  MaxConnects = 1
  Tokens = {t1, t2}
  MaxInFlight = 2
  Listens = {"onTicks", "onOrderUpdate", "onMessage", "onError"}
  MaxBeats = 0
INVARIANTS
  TickerTypeOK
  InSync
\* The event loop really stops when nothing is open or on its way.
PROPERTY
  ServerCatchesUp
CHECK_DEADLOCK FALSE
