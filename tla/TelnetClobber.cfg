\* A session whose connection was reset, against the connection that reuses its number.
CONSTANTS
  c1 = c1  c2 = c2  c3 = c3  p1 = p1  NoConn = NoConn
  Conns <- TwoConns
  MaxSession = 2
  Timeout = 1
  MaxFd = 3
  Kinds = {"cmd", "quit"}
  PeerEnds = {"rst"}
  MaxInbox = 1
  MaxStarts = 1
  MaxShuts = 0
  MayFail = FALSE
  Foreign <- NoForeign
  MaxCount = 2
SPECIFICATION Spec
SYMMETRY ConnSymmetry
PROPERTIES OwnersOnlyClose
