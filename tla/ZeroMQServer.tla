---------------------------- MODULE ZeroMQServer ----------------------------
(***************************************************************************)
(* ZeroMQServer of src/src/zeromq/: the thread that answers the requests of *)
(* a REP socket, the thread that calls initialise() and shutdown(), the     *)
(* statistics, the monitor that counts peers, and the health flag, which    *)
(* the alarm handler of main.cpp clears.                                    *)
(*                                                                         *)
(* libzmq is external: a REP socket accepts requests from connected clients *)
(* in one queue, and must send a reply between two receives.  A request is  *)
(* known by the client that sent it and by what the message callback makes  *)
(* of it.  Sizes of messages are small numbers.                             *)
(***************************************************************************)
EXTENDS Integers, Sequences, FiniteSets

CONSTANTS
  Clients,      \* the connections of REQ clients, each with at most one
                \* request in flight; one that has ended does not come back
  Kinds,        \* the requests they send, a subset of AllKinds
  Hooked,       \* whether messageCallback() was set, as main() does
  MaxSteps,     \* bound: connections and requests in all
  MaxStarts,    \* bound: calls of initialise() that succeed
  MaxShuts,     \* bound: calls of shutdown()
  NoRequest     \* no request

\* "good": a command the callback carries out; "bad": an unknown command, or one
\* with the wrong number of parts; "odd": the first part has not four bytes;
\* "throw": a callback that throws.
AllKinds == {"good", "bad", "odd", "throw"}

ASSUME ConstantsAssumption ==
  /\ Kinds \subseteq AllKinds /\ Hooked \in BOOLEAN
  /\ MaxSteps \in Nat /\ MaxStarts \in Nat /\ MaxShuts \in Nat
  /\ NoRequest \notin [client : Clients, kind : Kinds]

VARIABLES
  mpc,       \* the controlling thread: "idle", or "joining" in shutdown()
  isActive,  \* _isActive: the socket is bound
  stopReq,   \* the stop token of _serverThread
  pc,        \* where the server thread is; "none": there is none
  fsm,       \* what the REP socket may do next, "recv" or "send"
  inbox,     \* requests the socket has queued
  work,      \* recvMsgs: the request update() works on
  reply,     \* replyMsgs: the sizes of the parts
  good,      \* serverStats.isSuccessful
  flag,      \* *_checkFlag
  clients,   \* each client: "away", "idle", "waiting" or "gone"
  events,    \* events the socket monitor has not handled yet
  peerCount, \* _peerCount
  totals,    \* the Prometheus counters
  taken,     \* history: the requests received
  steps, starts, shuts  \* the bounded counters

mainVars == <<mpc, isActive, stopReq, starts, shuts>>
netVars == <<clients, events, steps>>
statVars == <<totals, taken>>
vars == <<mainVars, pc, fsm, inbox, work, reply, good, flag, netVars,
          peerCount, statVars>>

Requests == [client : Clients, kind : Kinds]
ReplySizes == {<<>>, <<4, 0>>, <<4, 1>>, <<0, 0>>}

Init ==
  /\ mpc = "idle" /\ isActive = FALSE /\ stopReq = FALSE /\ pc = "none"
  /\ fsm = "recv" /\ inbox = <<>> /\ work = NoRequest /\ reply = <<>>
  /\ good = FALSE /\ flag = FALSE
  /\ clients = [c \in Clients |-> "away"] /\ events = <<>> /\ peerCount = 0
  /\ totals = [succeeded |-> 0, failed |-> 0, uploaded |-> 0]
  /\ taken = <<>> /\ steps = 0 /\ starts = 0 /\ shuts = 0

-----------------------------------------------------------------------------
(* The controlling thread.                                                 *)

\* initialise(): start() binds the socket, then the thread is started.  A call
\* on an active server changes nothing.
Initialise ==
  /\ mpc = "idle" /\ ~isActive /\ starts < MaxStarts
  /\ isActive' = TRUE /\ pc' = "top" /\ stopReq' = FALSE
  /\ starts' = starts + 1
  /\ UNCHANGED <<mpc, shuts, fsm, inbox, work, reply, good, flag, netVars,
                 peerCount, statVars>>

\* shutdown(): _serverThread.reset() requests the stop and joins.
ShutdownBegin ==
  /\ mpc = "idle" /\ shuts < MaxShuts
  /\ mpc' = "joining" /\ stopReq' = TRUE /\ shuts' = shuts + 1
  /\ UNCHANGED <<isActive, starts, pc, fsm, inbox, work, reply, good, flag,
                 netVars, peerCount, statVars>>

\* The thread has ended; stop() unbinds a bound socket.
\* Mutant: shutdown() does not wait for the thread.
ThreadGoneDetached == TRUE
ThreadGone == pc = "none"

\* The connections end with the listener they were accepted by: the queue is
\* still there to be read or goes with them, and the monitor is told of all,
\* some or none.
Connected == {c \in Clients : clients[c] \in {"idle", "waiting"}}

Unbind ==
  /\ clients' = [c \in Clients |-> IF c \in Connected THEN "gone"
                                   ELSE clients[c]]
  /\ inbox' \in {inbox, <<>>}
  /\ \E n \in 0 .. Cardinality(Connected) :
       events' = events \o [i \in 1 .. n |-> "disconnected"]

ShutdownEnd ==
  /\ mpc = "joining" /\ ThreadGone
  /\ mpc' = "idle" /\ isActive' = FALSE
  /\ \/ isActive /\ Unbind
     \/ ~isActive /\ UNCHANGED <<clients, inbox, events>>
  /\ UNCHANGED <<stopReq, starts, shuts, pc, fsm, work, reply, good, flag,
                 steps, peerCount, statVars>>

-----------------------------------------------------------------------------
(* The server thread.                                                      *)

CheckStop ==
  /\ pc = "top"
  /\ pc' = IF stopReq THEN "none" ELSE "recv"
  /\ UNCHANGED <<mainVars, fsm, inbox, work, reply, good, flag, netVars,
                 peerCount, statVars>>

\* recv_multipart() returns the oldest request.
Recv ==
  /\ pc = "recv" /\ fsm = "recv" /\ inbox # <<>>
  /\ pc' = "work" /\ fsm' = "send"
  /\ work' = Head(inbox) /\ inbox' = Tail(inbox)
  /\ taken' = Append(taken, Head(inbox))
  /\ UNCHANGED <<mainVars, reply, good, flag, netVars, peerCount, totals>>

\* Mutants: update() goes on without a request; it tries again.
AfterTimeoutWorks == "work"
AfterTimeoutAgain == "recv"
AfterTimeout == "flag"

\* It times out: update() returns at once.
RecvTimesOut ==
  /\ pc = "recv" /\ fsm = "recv" /\ inbox = <<>>
  /\ pc' = AfterTimeout
  /\ UNCHANGED <<mainVars, fsm, inbox, work, reply, good, flag, netVars,
                 peerCount, statVars>>

\* It throws, for the last request was never answered; threadFunc() catches
\* the exception and leaves the flag alone.  Mutant: it sets it all the same.
AfterThrowFlag == "flag"
AfterThrow == "top"

RecvThrows ==
  /\ pc = "recv" /\ fsm = "send"
  /\ pc' = AfterThrow
  /\ UNCHANGED <<mainVars, fsm, inbox, work, reply, good, flag, netVars,
                 peerCount, statVars>>

\* The reply to a request, by ZeroMQServerMessageCallback or update() itself.
\* Mutant: a request whose first part has not four bytes is not answered.
ReplyToSilent(kind) ==
  IF kind = "odd" \/ ~Hooked THEN <<>>
  ELSE IF kind = "good" THEN <<4, 1>> ELSE <<4, 0>>
ReplyTo(kind) ==
  IF kind # "odd" /\ ~Hooked THEN <<>>
  ELSE IF kind = "good" THEN <<4, 1>> ELSE <<4, 0>>

\* Mutant: a stop request is obeyed before the reply.
AfterWorkStops == IF stopReq THEN "none" ELSE "send"
AfterWork == "send"

Work ==
  /\ pc = "work" /\ ~(Hooked /\ work.kind = "throw")
  /\ pc' = AfterWork
  /\ reply' = ReplyTo(work.kind) /\ good' = (Hooked /\ work.kind = "good")
  /\ UNCHANGED <<mainVars, fsm, inbox, work, flag, netVars, peerCount,
                 statVars>>

WorkThrows ==
  /\ pc = "work" /\ Hooked /\ work.kind = "throw"
  /\ pc' = AfterThrow /\ work' = NoRequest
  /\ UNCHANGED <<mainVars, fsm, inbox, reply, good, flag, netVars, peerCount,
                 statVars>>

\* send_multipart() hands the parts to libzmq, and leaves empty messages.  A
\* reply to a client that is gone is dropped.
Moved(parts) == [i \in DOMAIN parts |-> 0]
BytesOf(parts) == IF parts = <<>> THEN 0 ELSE parts[1] + parts[2]

Send ==
  /\ pc = "send"
  /\ pc' = "count"
  /\ fsm' = IF reply # <<>> THEN "recv" ELSE fsm
  /\ reply' = Moved(reply)
  /\ clients' = IF reply # <<>> /\ clients[work.client] = "waiting"
                THEN [clients EXCEPT ![work.client] = "idle"] ELSE clients
  /\ UNCHANGED <<mainVars, inbox, work, good, flag, events, steps, peerCount,
                 totals, taken>>

\* consumeStats().  Mutant: a failed command is also a succeeded one.
SucceededAlways(n) == n + 1
Succeeded(n) == IF good THEN n + 1 ELSE n

Count ==
  /\ pc = "count"
  /\ pc' = "flag" /\ work' = NoRequest /\ reply' = <<>>
  /\ totals' = [succeeded |-> Succeeded(totals.succeeded),
                failed    |-> totals.failed + (IF good THEN 0 ELSE 1),
                uploaded  |-> totals.uploaded + BytesOf(reply)]
  /\ good' = FALSE
  /\ UNCHANGED <<mainVars, fsm, inbox, flag, netVars, peerCount, taken>>

SetFlag ==
  /\ pc = "flag"
  /\ pc' = "top" /\ flag' = TRUE
  /\ UNCHANGED <<mainVars, fsm, inbox, work, reply, good, netVars, peerCount,
                 statVars>>

-----------------------------------------------------------------------------
(* Clients, the monitor's thread and the alarm.                            *)

Connect(c) ==
  /\ clients[c] = "away" /\ isActive /\ steps < MaxSteps
  /\ clients' = [clients EXCEPT ![c] = "idle"]
  /\ events' = Append(events, "accepted")
  /\ steps' = steps + 1
  /\ UNCHANGED <<mainVars, pc, fsm, inbox, work, reply, good, flag,
                 peerCount, statVars>>

Request(c, k) ==
  /\ clients[c] = "idle" /\ steps < MaxSteps
  /\ clients' = [clients EXCEPT ![c] = "waiting"]
  /\ inbox' = Append(inbox, [client |-> c, kind |-> k]) /\ steps' = steps + 1
  /\ UNCHANGED <<mainVars, pc, fsm, work, reply, good, flag, events,
                 peerCount, statVars>>

\* A client goes away, perhaps before its answer; its request stays queued.
Disconnect(c) ==
  /\ clients[c] \in {"idle", "waiting"}
  /\ clients' = [clients EXCEPT ![c] = "gone"]
  /\ events' = Append(events, "disconnected")
  /\ UNCHANGED <<mainVars, pc, fsm, inbox, work, reply, good, flag, steps,
                 peerCount, statVars>>

\* on_event_accepted() counts nothing, on_event_disconnected() counts down;
\* on_event_connected(), which counts up, is for sockets that connect.
Counted(event) == IF event = "disconnected" THEN peerCount - 1 ELSE peerCount

MonitorEvent ==
  /\ events # <<>>
  /\ events' = Tail(events) /\ peerCount' = Counted(Head(events))
  /\ UNCHANGED <<mainVars, pc, fsm, inbox, work, reply, good, flag, clients,
                 steps, statVars>>

\* alarmFunc() clears every health flag.
Alarm ==
  /\ flag
  /\ flag' = FALSE
  /\ UNCHANGED <<mainVars, pc, fsm, inbox, work, reply, good, netVars,
                 peerCount, statVars>>

ServerStep ==
  \/ CheckStop \/ Recv \/ RecvTimesOut \/ RecvThrows \/ Work \/ WorkThrows
  \/ Send \/ Count \/ SetFlag

Environment ==
  \/ \E c \in Clients : Connect(c) \/ Disconnect(c)
  \/ \E c \in Clients, k \in Kinds : Request(c, k)
  \/ MonitorEvent \/ Alarm

Next == Initialise \/ ShutdownBegin \/ ShutdownEnd \/ ServerStep \/ Environment

Spec == Init /\ [][Next]_vars

\* The threads are scheduled and the alarm is re-armed.  Nothing has to start
\* the server, or to start it again once it was shut down.
FairSpec ==
  Spec /\ WF_vars(ServerStep) /\ WF_vars(ShutdownEnd) /\ WF_vars(Alarm)

-----------------------------------------------------------------------------
(* What the server promises: RequestReply, with this state seen as its.    *)

\* The reply to a request taken is owed, and nothing is at work on it.
Broken == fsm = "send" /\ pc \notin {"work", "send"}

\* The requests not answered: the one at work, and those in the socket.
InWork == IF pc \in {"work", "send"} THEN <<work.client>> ELSE <<>>
Unanswered == InWork \o [i \in DOMAIN inbox |-> inbox[i].client]

Service == INSTANCE RequestReply WITH
  up <- isActive, broken <- Broken, client <- clients, queue <- Unanswered

\* Whatever the order of shutdown(), initialise(), requests and clients that
\* leave: the requests are answered one by one in their order, by a server whose
\* socket is bound; a callback that throws, or none, ends that for good.
ImplementsService == Service!Spec

-----------------------------------------------------------------------------
(* Properties.                                                             *)

TypeOK ==
  /\ mpc \in {"idle", "joining"} /\ isActive \in BOOLEAN
  /\ stopReq \in BOOLEAN /\ fsm \in {"recv", "send"}
  /\ pc \in {"none", "top", "recv", "work", "send", "count", "flag"}
  /\ inbox \in Seq(Requests) /\ taken \in Seq(Requests)
  /\ work \in Requests \cup {NoRequest}
  /\ pc \in {"work", "send", "count"} => work \in Requests
  /\ reply \in ReplySizes
  /\ good \in BOOLEAN /\ flag \in BOOLEAN
  /\ clients \in [Clients -> {"away", "idle", "waiting", "gone"}]
  /\ events \in Seq({"accepted", "disconnected"}) /\ peerCount \in Int
  /\ totals \in [succeeded : Nat, failed : Nat, uploaded : Nat]
  /\ steps \in Nat /\ starts \in Nat /\ shuts \in Nat

\* So far every callback has returned a reply, as main()'s does.
Replies == Hooked /\ \A i \in DOMAIN taken : taken[i].kind # "throw"

\* shutdown() and the next initialise(): the socket outlives the thread, so
\* the thread must never end, or start, between a request and its reply.
StopsBetweenRequests ==
  Replies /\ pc \in {"none", "top", "recv", "flag"} => fsm = "recv"

\* start() and stop(): before the socket is bound, and once it is unbound, no
\* thread uses it; a ZeroMQ socket is not thread-safe.
SocketHasOneUser == ~isActive => pc = "none"

\* Where the thread holds a request, the socket waits for the reply, and a
\* reply is at hand before it is sent; that request is among those taken.
Owing ==
  /\ pc = "work" => \E i \in DOMAIN taken : taken[i] = work
  /\ Replies => /\ fsm = "send" <=> pc \in {"work", "send"}
                /\ pc = "send" => reply # <<>>

\* The socket's queue and the request at work hold one request of a client at
\* most, and that client waits for it or has left.
Asked(state) == state \in {"waiting", "gone"}
AtWork == pc \in {"work", "send"}

QueueInv ==
  /\ AtWork => fsm = "send"
  /\ \A i \in 1 .. Len(inbox) : Asked(clients[inbox[i].client])
  /\ \A i, j \in 1 .. Len(inbox) : inbox[i].client = inbox[j].client => i = j
  /\ AtWork => /\ Asked(clients[work.client])
               /\ \A i \in 1 .. Len(inbox) : inbox[i].client # work.client

\* The counters and the request between its receipt and consumeStats().
Succeeding == {i \in DOMAIN taken : taken[i].kind = "good"}
InProgress == pc \in {"work", "send", "count"}

CountInv ==
  Replies =>
    /\ totals.succeeded + totals.failed + (IF InProgress THEN 1 ELSE 0)
         = Len(taken)
    /\ totals.succeeded + (IF InProgress /\ work.kind = "good" THEN 1 ELSE 0)
         = Cardinality(Succeeding)
    /\ pc \in {"send", "count"} => (good <=> work.kind = "good")

\* The socket, the thread and the clients agree, whatever was interrupted: the
\* types, who uses the socket and when, whose requests it holds, and how many of
\* them are counted.
Inductive == TypeOK /\ Owing /\ SocketHasOneUser /\ QueueInv /\ CountInv

\* ZeroMQStats: between two rounds the counters have each request exactly
\* once, with the outcome the callback reported.
EachCountedOnce ==
  Replies /\ pc \in {"none", "top", "recv", "flag"} =>
    /\ totals.succeeded = Cardinality(Succeeding)
    /\ totals.succeeded + totals.failed = Len(taken)

\* ZeroMQMonitor.hpp of getPeerCount(): "Get the number of peers connected",
\* that is once the monitor has handled the events there are.  The code does
\* not do that: see Counted.
PeersCounted == events = <<>> => peerCount = Cardinality(Connected)

\* A request is answered, unless its client leaves, the server is shut down,
\* which ends its connection, or a callback threw: a server that was shut down
\* between a request and its reply, and started again, answers like a new one.
RequestAnswered ==
  \A c \in Clients :
    clients[c] = "waiting" ~> (clients[c] # "waiting" \/ ~Replies)

\* A server whose socket still owes a reply can answer nothing any more: the
\* health flag does not hide it for long.
Stuck == fsm = "send" /\ pc \in {"top", "recv"}
StuckIsReported == Stuck ~> []~flag

\* shutdown() returns, whatever the thread was doing when it was called, and
\* also if no client sends a request that would end a receive.
ShutdownReturns == mpc = "joining" ~> mpc = "idle"
=============================================================================
