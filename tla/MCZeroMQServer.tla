--------------------------- MODULE MCZeroMQServer ---------------------------
(* ZeroMQServer on small instances: see ZmqRequests.cfg and ZmqPeers.cfg    *)
(* for the bounds.                                                         *)
EXTENDS ZeroMQServer

CONSTANTS c1, c2

TwoClients == {c1, c2}
=============================================================================
