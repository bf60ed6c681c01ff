SPECIFICATION Spec
CONSTANTS
  NodeNames = {n1}
  AttNames = {}
  EdgeNames = {}
  Values = {}
  NoName = NoName
  CharRange = 2
  PageBound = 4
  ListBound = 0
  NewAttBound = 0
INVARIANTS
  MissingMeansAbsent
