SPECIFICATION FairSystemSpec
CONSTANTS
  ClientRange = 4
  IdRange = 4
  LengthRange = 2048
  CodeRange = 2048
  SIGMA_TEARDOWN_MAGIC = 77
  NoProtocol = NoProtocol
  Statuses = {0}
  RspSizes = {4}
  Unset = Unset
  NoMessage = NoMessage
  NoReply = NoReply
  c1 = c1
  c2 = c2
  Conns <- TwoConns
  Capacity = 2
  None = None
  Asks <- OneAsk
  Requests <- AllTaken
  MaxWords = 3
  MaxAsked = 1
PROPERTIES
  Answered
CHECK_DEADLOCK FALSE
