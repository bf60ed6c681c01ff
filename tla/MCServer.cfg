SPECIFICATION SSpec
CONSTANTS
  AnyName = AnyName
  NoName = NoName
  CharRange = 128
  n1 = n1
  NodeNames = {n1}
  AttNames = {}
  EdgeNames = {}
  Values = {}
  PageBound = 3
  ListBound = 0
  NewAttBound = 0
  Pipelines <- ServerPipelines
  StackPages <- ServerStack
  ClientBound = 3
  Commands <- ServerCommands
  NoClient = NoClient
  QueueSize = 2
  FdLimit = 2
  ReplySize = 1
  KillBound = 1
INVARIANTS
  STypeOK
  RequestsInTurn
  AnswersAreInTurn
  LostByKillsOnly
  EndsForCause
PROPERTIES
  OnlyIdleClientsBlock
CHECK_DEADLOCK FALSE
