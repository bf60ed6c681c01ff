SPECIFICATION Spec
CONSTANTS
  NodeNames = {n1}
  AttNames = {}
  EdgeNames = {e1}
  Values = {}
  NoName = NoName
  CharRange = 128
  PageBound = 3
  ListBound = 1
  NewAttBound = 0
PROPERTIES
  GraphSpec
  OperationsMatch
