CONSTANTS
  a = a
  b = b
  c = c
  d = d
  e = e
  NewRules = {d, e}
  RuleLists <- MCLists
  MaxIndex = 2
  MaxAdds = 2
  MaxRemoves = 2
  MaxReplaces = 1
  MaxVersion = 2
SPECIFICATION Spec
CHECK_DEADLOCK FALSE
INVARIANTS
  AdditionsStay
  OthersKeepOrder
  OperationsFit
