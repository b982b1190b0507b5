\* An error answer to a request for instruments.
SPECIFICATION Spec
CONSTANTS
  Keys = {k1}
  Tokens = {t1}
  None = None
  RejectionTypes = {"TokenException", "OrderException"}
  UncertainTypes = {"NetworkException"}
  MaxCalls = 1
PROPERTY
  ErrorsRaise
\* The program makes MaxCalls calls and stops.
CHECK_DEADLOCK FALSE
