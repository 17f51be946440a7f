\* shutdown() against a running server, and a second life of the server; resets,
\* connected callbacks that throw, a descriptor of another component.
CONSTANTS
  c1 = c1  c2 = c2  c3 = c3  p1 = p1  NoConn = NoConn
  Conns <- TwoConns
  MaxSession = 2
  Timeout = 1
  MaxFd = 2
  Kinds = {"bad"}
  PeerEnds = {"rst"}
  MaxInbox = 0
  MaxStarts = 2
  MaxShuts = 1
  MayFail = FALSE
  Foreign <- OneForeign
  MaxCount = 0
SPECIFICATION FairSpec
INVARIANTS Inductive StoppedMeansStopped
PROPERTIES OnlyResetsClobber QuietShutdownClosesAll ShutdownReturns
