\* Whole numbers where the response types have a double.
SPECIFICATION Spec
CONSTANTS
  MaxElements = 1
INVARIANTS
  WholeNumbersDecode
CHECK_DEADLOCK FALSE
