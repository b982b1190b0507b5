\* The parent of a bracket order.
SPECIFICATION Spec
CONSTANTS
  Values = {"", "bo", "x"}
  SymbolNames <- FewSymbols
  MaxList = 2
  DecimalsSet = {4, 7}
INVARIANT
  ParentOrderReaches
CHECK_DEADLOCK FALSE
