SPECIFICATION SystemSpec
CONSTANTS
  ClientRange = 4
  IdRange = 4
  LengthRange = 2048
  CodeRange = 2048
  SIGMA_TEARDOWN_MAGIC = 77
  NoProtocol = NoProtocol
  Statuses = {1, 2048}
  RspSizes = {4}
  Unset = Unset
  NoMessage = NoMessage
  NoReply = NoReply
  c1 = c1
  c2 = c2
  Conns <- TwoConns
  Capacity = 2
  None = None
  Asks <- FewAsks
  Requests <- AllTaken
  MaxWords = 3
  MaxAsked = 2
SYMMETRY Symmetry
INVARIANTS
  SystemTypeOK
  OnlyAsked
  AnswersTrue
  RepliesInOrder
CHECK_DEADLOCK FALSE
