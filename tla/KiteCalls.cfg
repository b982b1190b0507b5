\* Two calls over a network that loses and delays: enough for a request to come
\* late, during or after the next call, and for a session to be used, ended and
\* asked for again.
SPECIFICATION Spec
CONSTANTS
  Keys = {k1, k2}
  Tokens = {t1, t2}
  None = None
  RejectionTypes = {"TokenException", "OrderException"}
  UncertainTypes = {"NetworkException"}
  MaxCalls = 2
INVARIANTS
  TypeOK
  AtMostOnce
  OutcomeTells
  LoggedOut
PROPERTIES
  KeepsPromise
\* The program makes MaxCalls calls and stops.
CHECK_DEADLOCK FALSE
