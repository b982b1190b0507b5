\* Every method with every choice of three values for each argument of its
\* path, of the optional members it sets, and of the lengths of its lists.
SPECIFICATION Spec
CONSTANTS
  Values = {"", "bo", "x"}
  SymbolNames <- FewSymbols
  MaxList = 2
  DecimalsSet = {4, 7}
INVARIANTS
  PathsExpand
  EveryArgumentCounts
  MethodsAreDistinct
  BodiesAgree
  ParametersReach
  NamesAgree
\* One call is made, and then the model stops.
CHECK_DEADLOCK FALSE
