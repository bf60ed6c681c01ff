SPECIFICATION GSpec
CONSTANTS
  n1 = n1
  Names = {n1}
  Options = {0, 1}
  Compared <- ComparedScalars
  Stored <- StoredScalars
  Null = Null
  Garbage = Garbage
  InitialCapacity = 1
  IntRange = 4
  FloatRange = 8
  RequestSize = 6
  TypedBound = 8
  PairBound = 3
CHECK_DEADLOCK FALSE
INVARIANTS
  GTypeOK
  SentAsTyped
  CrashesForCause
  NumbersKept
