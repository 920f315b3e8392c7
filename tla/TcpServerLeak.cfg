SPECIFICATION FairSpec
CONSTANTS
  c1 = c1
  c2 = c2
  c3 = c3
  ServerFd = ServerFd
  NoFd = NoFd
  Zero = Zero
  Conns <- TwoConns
  kMaxNumberOfConnections = 1
  kMaxMessageSize = 1
  MaxRx = 1
  SndBuf = 1
  HangupRevents <- LinuxReset
PROPERTIES
  ResetReaped
CHECK_DEADLOCK FALSE
