SPECIFICATION Spec
CONSTANTS
  NodeNames = {n1}
  AttNames = {a1, a2}
  EdgeNames = {e1, e2}
  Values = {v1, v2}
  NoName = NoName
  CharRange = 128
  PageBound = 1
  ListBound = 3
  NewAttBound = 1
INVARIANTS
  TypeOK
PROPERTIES
  OperationsMatch
