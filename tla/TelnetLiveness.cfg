\* Clients that may send for ever and leave in order, with fairness; one more
\* client than sessions.
CONSTANTS
  c1 = c1  c2 = c2  c3 = c3  p1 = p1  NoConn = NoConn
  Conns <- TwoConns
  MaxSession = 1
  Timeout = 1
  MaxFd = 2
  Kinds = {"cmd", "quit"}
  PeerEnds = {"fin"}
  MaxInbox = 2
  MaxStarts = 1
  MaxShuts = 0
  MayFail = FALSE
  Foreign <- NoForeign
  MaxCount = 3
SPECIFICATION FairSpec
INVARIANTS StatisticsExact
PROPERTIES PendingTaken QuitEndsSession GoneClientReaped
