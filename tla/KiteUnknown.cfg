\* An error answer that names no error.
SPECIFICATION Spec
CONSTANTS
  Keys = {k1}
  Tokens = {t1}
  None = None
  RejectionTypes = {"TokenException", "OrderException"}
  UncertainTypes = {"NetworkException"}
  MaxCalls = 2
PROPERTY
  UnnamedErrorsAreUnknown
\* The program makes MaxCalls calls and stops.
CHECK_DEADLOCK FALSE
