SPECIFICATION JSpec
CONSTANTS
  AnyName = AnyName
  NoName = NoName
  CharRange = 128
  e1 = e1
  a1 = a1
  a2 = a2
  NodeNames = {n1, n2}
  AttNames = {a1}
  EdgeNames = {}
  Values <- TypedValues
  PageBound = 3
  ListBound = 0
  NewAttBound = 1
  Pipelines <- FilterPipelines
  StackPages <- ZeroPages
INVARIANTS
  CrashNeedsCause
  HasIsExact
  SharedAreListedOnce
PROPERTIES
  FirstReferenceStaysInside
