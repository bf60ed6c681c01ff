SPECIFICATION Spec
CONSTANTS
  NodeNames = {n1, n2}
  AttNames = {}
  EdgeNames = {}
  Values = {}
  NoName = NoName
  CharRange = 2
  PageBound = 6
  ListBound = 0
  NewAttBound = 0
INVARIANTS
  IdIsPosition
  LowIdsExact
  AtMostOneUnsaved
PROPERTIES
  GrowsOnlyWhenFull
