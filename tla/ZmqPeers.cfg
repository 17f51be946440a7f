\* The peer count, with two clients that come and leave.
CONSTANTS
  c1 = c1  c2 = c2   NoRequest = NoRequest
  Clients <- TwoClients
  Kinds = {"good"}
  Hooked = TRUE
  MaxSteps = 2
  MaxStarts = 1
  MaxShuts = 0
SPECIFICATION Spec
INVARIANTS PeersCounted
