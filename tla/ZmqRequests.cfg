\* Requests of two clients that may leave, across shutdown(), which ends their
\* connections, and initialise(); a callback that throws.
CONSTANTS
  c1 = c1  c2 = c2   NoRequest = NoRequest
  Clients <- TwoClients
  Kinds = {"good", "odd", "throw"}
  Hooked = TRUE
  MaxSteps = 5
  MaxStarts = 2
  MaxShuts = 1
SPECIFICATION FairSpec
INVARIANTS Inductive StopsBetweenRequests EachCountedOnce
PROPERTIES RequestAnswered StuckIsReported ShutdownReturns ImplementsService
