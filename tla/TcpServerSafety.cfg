SPECIFICATION Spec
CONSTANTS
  c1 = c1
  c2 = c2
  c3 = c3
  ServerFd = ServerFd
  NoFd = NoFd
  Zero = Zero
  Conns <- ThreeConns
  kMaxNumberOfConnections = 2
  kMaxMessageSize = 2
  MaxRx = 2
  SndBuf = 1
  HangupRevents <- AllHangups
SYMMETRY Symmetry
INVARIANTS
  TypeOK
  DescriptorAccounting
  RecvNeverBlocks
  RepliesToSender
PROPERTIES
  NoRequestDropped
  ImplementsPool
CHECK_DEADLOCK FALSE
