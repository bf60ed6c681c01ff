SPECIFICATION JSpec
CONSTANTS
  AnyName = AnyName
  NoName = NoName
  CharRange = 128
  e1 = e1
  a1 = a1
  a2 = a2
  NodeNames = {n1}
  AttNames = {a1}
  EdgeNames = {}
  Values <- StringValues
  PageBound = 1
  ListBound = 0
  NewAttBound = 1
  Pipelines <- StringPipelines
  StackPages <- ZeroPages
INVARIANTS
  StringsCompareAsPrinted
