SPECIFICATION RSpec
CONSTANTS
  NodeNames <- OneName
  AttNames <- ShortNames
  EdgeNames <- EdgeLabels
  Values <- NumberAndStrings
  NoName = NoName
  CharRange = 4
  PageSize = 16
  PageBound = 2
  ListBound = 2
CHECK_DEADLOCK FALSE
INVARIANTS
  RTypeOK
  ReadBackIffFits
