---------------------------- MODULE SessionService ----------------------------
(***************************************************************************)
(* What TelnetServer promises its clients, without threads, descriptors,   *)
(* buffers or time: while the service is open, clients queue up; whoever   *)
(* has come first is served next if there is room, and turned away only if *)
(* there is none; who is served stays served until the session ends.       *)
(*                                                                         *)
(* TelnetServer implements this specification (TelnetServer!Service).      *)
(***************************************************************************)
EXTENDS Naturals, Sequences, SequencesExt

CONSTANTS
  Clients,   \* the connections clients may open
  Room       \* how many are served at a time

VARIABLES
  open,      \* clients may come
  arrived,   \* those that have come so far
  waiting,   \* those that wait, in the order they came
  serving    \* those being served, in the order they were admitted

vars == <<open, arrived, waiting, serving>>

Init == open = FALSE /\ arrived = {} /\ waiting = <<>> /\ serving = <<>>

Open ==
  /\ ~open /\ open' = TRUE
  /\ UNCHANGED <<arrived, waiting, serving>>

\* The service closes.  All who wait are sent away, but for one the service
\* may have turned to already.
Close ==
  /\ open /\ open' = FALSE
  /\ \E n \in 0 .. 1 : waiting' = SubSeq(waiting, 1, n)
  /\ UNCHANGED <<arrived, serving>>

Arrive(c) ==
  /\ open /\ c \notin arrived
  /\ arrived' = arrived \cup {c} /\ waiting' = Append(waiting, c)
  /\ UNCHANGED <<open, serving>>

Serve ==
  /\ waiting # <<>> /\ Len(serving) < Room
  /\ serving' = Append(serving, Head(waiting)) /\ waiting' = Tail(waiting)
  /\ UNCHANGED <<open, arrived>>

TurnAway ==
  /\ waiting # <<>> /\ Len(serving) = Room
  /\ waiting' = Tail(waiting)
  /\ UNCHANGED <<open, arrived, serving>>

End ==
  /\ \E i \in 1 .. Len(serving) : serving' = RemoveAt(serving, i)
  /\ UNCHANGED <<open, arrived, waiting>>

EndAll ==
  /\ serving' = <<>>
  /\ UNCHANGED <<open, arrived, waiting>>

Next ==
  \/ Open \/ Close \/ \E c \in Clients : Arrive(c)
  \/ Serve \/ TurnAway \/ End \/ EndAll

Spec == Init /\ [][Next]_vars
===============================================================================
