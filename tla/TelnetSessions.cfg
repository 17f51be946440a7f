\* Clients that leave in order, one more than sessions; lines and connected
\* callbacks that throw, binds that fail.
CONSTANTS
  c1 = c1  c2 = c2  c3 = c3  p1 = p1  NoConn = NoConn
  Conns <- ThreeConns
  MaxSession = 2
  Timeout = 1
  MaxFd = 3
  Kinds = {"quit", "bad"}
  PeerEnds = {"fin"}
  MaxInbox = 1
  MaxStarts = 2
  MaxShuts = 0
  MayFail = TRUE
  Foreign <- NoForeign
  MaxCount = 0
SPECIFICATION Spec
SYMMETRY ConnSymmetry
INVARIANTS RoundServesEach NoDescriptorLeak Inductive
PROPERTIES ImplementsService
