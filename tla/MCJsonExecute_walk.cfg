SPECIFICATION JSpec
CONSTANTS
  AnyName = AnyName
  NoName = NoName
  CharRange = 128
  e1 = e1
  a1 = a1
  a2 = a2
  NodeNames = {n1, n2}
  AttNames = {a1}
  EdgeNames = {e1, e2}
  Values <- NumberValues
  PageBound = 2
  ListBound = 2
  NewAttBound = 2
  Pipelines <- OutPipelines
  StackPages <- ZeroPages
INVARIANTS
  SelectionIsWalkEnds
  RepliesHold
