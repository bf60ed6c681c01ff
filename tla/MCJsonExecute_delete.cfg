SPECIFICATION JSpec
CONSTANTS
  AnyName = AnyName
  NoName = NoName
  CharRange = 128
  e1 = e1
  a1 = a1
  a2 = a2
  NodeNames = {n1}
  AttNames = {a1}
  EdgeNames = {e1}
  Values <- StringValues
  PageBound = 3
  ListBound = 1
  NewAttBound = 0
  Pipelines <- DanglingPipelines
  StackPages <- JunkPages
INVARIANTS
  JTypeOK
  CrashNeedsCause
  SelectionIsCurrent
  DeleteRemovesSelection
PROPERTIES
  DeletesOnlySelected
