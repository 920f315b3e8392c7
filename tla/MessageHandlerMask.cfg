SPECIFICATION HandlerSpec
CONSTANTS
  ClientRange = 16
  IdRange = 16
  LengthRange = 2048
  CodeRange = 2048
  SIGMA_TEARDOWN_MAGIC = 77
  NoProtocol = NoProtocol
  Statuses <- SomeStatuses
  RspSizes <- SomeRspSizes
  Unset = Unset
  Requests <- CertificateRequests
  NoMessage = NoMessage
  NoReply = NoReply
INVARIANTS
  CertificateRequestFiveBits
