----------------------------- MODULE RequestReply -----------------------------
(***************************************************************************)
(* What ZeroMQServer promises its clients, without threads, the states of  *)
(* a socket, or statistics: requests are answered one at a time in the     *)
(* order they came, each at most once, by a server that is up.  When it    *)
(* goes down every client's connection ends, and their requests may be     *)
(* lost.  The one failure is a request that is never answered: it is the   *)
(* last one the server takes.                                              *)
(*                                                                         *)
(* ZeroMQServer implements this specification (ZeroMQServer!Service).      *)
(***************************************************************************)
EXTENDS Naturals, Sequences

CONSTANT Clients

VARIABLES
  up,      \* the server is up
  broken,  \* it has failed to answer a request
  client,  \* each client: "away", "idle", "waiting" for an answer, or "gone"
  queue    \* the clients whose requests have not been answered, oldest first

vars == <<up, broken, client, queue>>

Init ==
  /\ up = FALSE /\ broken = FALSE
  /\ client = [c \in Clients |-> "away"] /\ queue = <<>>

Start == ~up /\ up' = TRUE /\ UNCHANGED <<broken, client, queue>>

Stop ==
  /\ up /\ up' = FALSE
  /\ client' = [c \in Clients |-> IF client[c] \in {"idle", "waiting"}
                                  THEN "gone" ELSE client[c]]
  /\ queue' \in {queue, <<>>}
  /\ UNCHANGED broken

Goes(c, from, to) == client[c] \in from /\ client' = [client EXCEPT ![c] = to]

Come(c) == up /\ Goes(c, {"away"}, "idle") /\ UNCHANGED <<up, broken, queue>>

Leave(c) == Goes(c, {"idle", "waiting"}, "gone") /\ UNCHANGED <<up, broken, queue>>

Ask(c) ==
  /\ Goes(c, {"idle"}, "waiting") /\ queue' = Append(queue, c)
  /\ UNCHANGED <<up, broken>>

\* The oldest request is answered; nobody sees it if its client has gone.
Answer ==
  /\ up /\ ~broken /\ queue # <<>>
  /\ queue' = Tail(queue)
  /\ \/ Goes(Head(queue), {"waiting"}, "idle")
     \/ client[Head(queue)] = "gone" /\ UNCHANGED client
  /\ UNCHANGED <<up, broken>>

Fail ==
  /\ up /\ ~broken /\ queue # <<>>
  /\ queue' = Tail(queue) /\ broken' = TRUE
  /\ UNCHANGED <<up, client>>

Next ==
  \/ Start \/ Stop \/ Answer \/ Fail
  \/ \E c \in Clients : Come(c) \/ Leave(c) \/ Ask(c)

Spec == Init /\ [][Next]_vars
===============================================================================
