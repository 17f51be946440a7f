---------------------------- MODULE TelnetServer ----------------------------
(***************************************************************************)
(* TelnetServer of src/src/telnet/TelnetServer.cpp: the server thread that *)
(* polls the listening socket and serves every session once per round, the *)
(* thread that calls initialise() and shutdown(), the kernel's descriptor  *)
(* table the two share, the clients and the clock.                         *)
(*                                                                         *)
(* A session (a TelnetSession object) is named by the connection accept()  *)
(* returned for it; a connection is used once.  The bytes a client sends   *)
(* are abstracted to the lines they hold: "cmd" (a line whose callback     *)
(* returns), "quit" (the callback calls markTimeout) and "bad" (a callback *)
(* that throws).  What happens inside a line is the module TelnetLine.     *)
(* Time is counted in ticks since a session was last seen.                 *)
(***************************************************************************)
EXTENDS Integers, Sequences, FiniteSets, SequencesExt

CONSTANTS
  Conns,        \* the connections clients may open
  MaxSession,   \* MAX_AVAILABLE_SESSION
  Timeout,      \* TELNET_TIMEOUT
  MaxFd,        \* the process may use the descriptors 0 .. MaxFd
  Kinds,        \* the lines clients send, a subset of {"cmd", "quit", "bad"}
  PeerEnds,     \* how a client may go away, a subset of {"fin", "rst"}
  MaxInbox,     \* bound: lines buffered by the kernel for one connection
  MaxStarts,    \* bound: calls of initialise()
  MaxShuts,     \* bound: calls of shutdown()
  MayFail,      \* whether initialise() may fail after socket()
  Foreign,      \* the descriptors another component of the process may hold
  MaxCount,     \* bound: the counters saturate here
  NoConn        \* no connection

ASSUME BoundsAssumption ==
  /\ MaxSession \in Nat \ {0} /\ Timeout \in Nat \ {0} /\ MaxFd \in Nat
  /\ MaxInbox \in Nat /\ MaxStarts \in Nat /\ MaxShuts \in Nat
  /\ MaxCount \in Nat /\ MayFail \in BOOLEAN

ASSUME InputsAssumption ==
  /\ Kinds \subseteq {"cmd", "quit", "bad"}
  /\ PeerEnds \subseteq {"fin", "rst"}

ASSUME NamesAssumption ==
  /\ NoConn \notin Conns
  /\ Conns \cap {"free", "listen"} = {}
  /\ Foreign \cap (Conns \cup {NoConn, "free", "listen"}) = {}

ASSUME NoConnAssumption == NoConn \notin [conn : Conns, fd : Nat]

Fds == 0 .. MaxFd
NoFd == -1                             \* INVALID_SOCKET
Age == 0 .. Timeout + 1                \* Timeout + 1: older than the timeout
Sessions == [conn : Conns, fd : Fds, age : Age]

VARIABLES
  mpc,          \* where the controlling thread is in shutdown()
  initialised,  \* m_initialised
  listenSocket, \* m_listenSocket
  closing,      \* the elements shutdown()'s loop has left to close, as a range
  pc,           \* where the server thread is
  stopReq,      \* the stop token of m_serverThread
  idx,          \* the loop counter of update(), from 1
  incoming,     \* ClientSocket: the connection accept() has just returned
  decision,     \* newConnectionAccept / newConnectionRefused
  sessions,     \* m_sessions
  fdTab,        \* kernel: what each descriptor of the process refers to
  backlog,      \* kernel: connections waiting in the listening socket
  inbox,        \* kernel: lines received and not yet read, per connection
  peer,         \* the client's end of each connection
  active, accepted, refused,   \* the gauge and the two counters of TelnetStats
  stage,        \* history: what became of each connection
  roster,       \* history: the sessions at the start of this round
  served,       \* history: the sessions updated so far in this round
  starts, shuts \* bounds: calls made so far

mainVars    == <<mpc, initialised, listenSocket, closing, starts, shuts>>
threadVars  == <<pc, stopReq, idx, incoming, decision>>
netVars     == <<backlog, inbox, peer>>
statVars    == <<active, accepted, refused>>
historyVars == <<stage, roster, served>>
vars ==
  <<mainVars, threadVars, sessions, fdTab, netVars, statVars, historyVars>>

NoRange == [from |-> 1, to |-> 0]

TypeOK ==
  /\ mpc \in {"idle", "closing", "stale", "cleared", "listenClosed", "join",
              "aborted"}
  /\ initialised \in BOOLEAN
  /\ listenSocket \in Fds \cup {NoFd}
  /\ closing \in [from : Nat \ {0}, to : Nat]
  /\ pc \in {"stopped", "top", "poll", "accept", "admit", "serve", "check",
             "erase", "report", "aborted"}
  /\ stopReq \in BOOLEAN
  /\ idx \in Nat \ {0}
  /\ incoming \in [conn : Conns, fd : Fds] \cup {NoConn}
  /\ decision \in {"none", "accepted", "refused"}
  /\ sessions \in Seq(Sessions)
  /\ fdTab \in [Fds -> Conns \cup Foreign \cup {"free", "listen"}]
  /\ backlog \in Seq(Conns)
  /\ inbox \in [Conns -> Seq(Kinds)]
  /\ peer \in [Conns -> {"none", "up", "fin", "rst"}]
  /\ active \in Nat /\ accepted \in 0 .. MaxCount /\ refused \in 0 .. MaxCount
  /\ stage \in [Conns -> {"new", "pending", "taken", "admitted", "refused",
                          "dropped"}]
  /\ roster \in Seq(Conns) /\ served \in Seq(Conns)
  /\ starts \in Nat /\ shuts \in Nat

Init ==
  /\ mpc = "idle" /\ initialised = FALSE /\ listenSocket = NoFd
  /\ closing = NoRange /\ starts = 0 /\ shuts = 0
  /\ pc = "stopped" /\ stopReq = FALSE /\ idx = 1
  /\ incoming = NoConn /\ decision = "none"
  /\ sessions = <<>>
  /\ fdTab = [f \in Fds |-> "free"]
  /\ backlog = <<>>
  /\ inbox = [c \in Conns |-> <<>>]
  /\ peer = [c \in Conns |-> "none"]
  /\ active = 0 /\ accepted = 0 /\ refused = 0
  /\ stage = [c \in Conns |-> "new"]
  /\ roster = <<>> /\ served = <<>>

-----------------------------------------------------------------------------
(* The kernel's descriptor table.                                          *)

FreeFds == {f \in Fds : fdTab[f] = "free"}
LowestFree == CHOOSE f \in FreeFds : \A g \in FreeFds : f <= g

\* close(f): the table after it; closing what is not open changes nothing.
Closed(f) == [g \in Fds |-> IF g = f THEN "free" ELSE fdTab[g]]

\* close(f) by the server.  Closing the listening socket drops the connections
\* that wait in it.
Close(f) ==
  /\ fdTab' = Closed(f)
  /\ IF f \in Fds /\ fdTab[f] = "listen"
     THEN /\ backlog' = <<>>
          /\ stage' = [c \in Conns |-> IF Contains(backlog, c) THEN "dropped"
                                       ELSE stage[c]]
     ELSE UNCHANGED <<backlog, stage>>

\* The listening socket named by m_listenSocket is really one.
Listening == listenSocket \in Fds /\ fdTab[listenSocket] = "listen"

Bump(n) == IF n < MaxCount THEN n + 1 ELSE n

\* The process dies: a failed _GLIBCXX_ASSERTIONS or _FORTIFY_SOURCE check.
Abort ==
  /\ pc' = "aborted" /\ mpc' = "aborted"
  /\ UNCHANGED <<initialised, listenSocket, closing, starts, shuts, stopReq,
                 idx, incoming, decision, sessions, fdTab, netVars, statVars,
                 historyVars>>

-----------------------------------------------------------------------------
(* initialise(), called by the controlling thread.                         *)

\* Everything succeeds and the server thread starts.
InitialiseOk ==
  /\ mpc = "idle" /\ ~initialised /\ starts < MaxStarts /\ FreeFds # {}
  /\ starts' = starts + 1
  /\ listenSocket' = LowestFree
  /\ fdTab' = [fdTab EXCEPT ![LowestFree] = "listen"]
  /\ initialised' = TRUE
  /\ pc' = "top" /\ stopReq' = FALSE
  /\ UNCHANGED <<mpc, closing, shuts, idx, incoming, decision, sessions,
                 netVars, statVars, historyVars>>

\* setsockopt(), bind() or listen() fails: the socket is closed again, its
\* number stays in m_listenSocket.
InitialiseBindFails ==
  /\ MayFail
  /\ mpc = "idle" /\ ~initialised /\ starts < MaxStarts /\ FreeFds # {}
  /\ starts' = starts + 1
  /\ listenSocket' = LowestFree
  /\ UNCHANGED <<mpc, initialised, closing, shuts, threadVars, sessions, fdTab,
                 netVars, statVars, historyVars>>

\* socket() fails for want of a descriptor.
InitialiseNoSocket ==
  /\ mpc = "idle" /\ ~initialised /\ starts < MaxStarts /\ FreeFds = {}
  /\ starts' = starts + 1
  /\ listenSocket' = NoFd
  /\ UNCHANGED <<mpc, initialised, closing, shuts, threadVars, sessions, fdTab,
                 netVars, statVars, historyVars>>

-----------------------------------------------------------------------------
(* shutdown(), called by the controlling thread while the server thread    *)
(* runs: nothing locks m_sessions or m_listenSocket.                       *)

\* A bug: the loop stops before the last session.
LoopEndShort == Len(sessions) - 1
LoopEnd == Len(sessions)

\* The range-for takes its end iterator once.
ShutdownBegin ==
  /\ mpc = "idle" /\ shuts < MaxShuts
  /\ shuts' = shuts + 1
  /\ closing' = [from |-> 1, to |-> LoopEnd]
  /\ mpc' = "closing"
  /\ UNCHANGED <<initialised, listenSocket, starts, threadVars, sessions, fdTab,
                 netVars, statVars, historyVars>>

\* closeClient() on the next session of the loop.
ShutdownCloseSession ==
  /\ mpc \in {"closing", "stale"}
  /\ closing.from <= closing.to /\ closing.from <= Len(sessions)
  /\ Close(sessions[closing.from].fd)
  /\ closing' = [closing EXCEPT !.from = @ + 1]
  /\ UNCHANGED <<mpc, initialised, listenSocket, starts, shuts, threadVars,
                 sessions, inbox, peer, statVars, roster, served>>

\* The server thread has erased or appended under the loop, which reads a
\* moved-from or freed element: the assertion on a null shared_ptr fails, or
\* the element of a session already closed is met and nothing changes.
ShutdownStaleElement ==
  /\ mpc = "stale" /\ closing.from <= closing.to
  /\ \/ Abort
     \/ /\ closing.from > Len(sessions)
        /\ closing' = [closing EXCEPT !.from = @ + 1]
        /\ UNCHANGED <<mpc, initialised, listenSocket, starts, shuts,
                       threadVars, sessions, fdTab, netVars, statVars,
                       historyVars>>

\* m_sessions.clear()
ShutdownClear ==
  /\ mpc \in {"closing", "stale"} /\ closing.from > closing.to
  /\ sessions' = <<>> /\ closing' = NoRange
  /\ mpc' = "cleared"
  /\ UNCHANGED <<initialised, listenSocket, starts, shuts, threadVars, fdTab,
                 netVars, statVars, historyVars>>

\* close(m_listenSocket): whatever has that number now is closed.
ShutdownCloseListen ==
  /\ mpc = "cleared"
  /\ Close(listenSocket)
  /\ mpc' = "listenClosed"
  /\ UNCHANGED <<initialised, listenSocket, closing, starts, shuts, threadVars,
                 sessions, inbox, peer, statVars, roster, served>>

\* The members are reset and the stop of the server thread is requested.
ShutdownRequestStop ==
  /\ mpc = "listenClosed"
  /\ listenSocket' = NoFd /\ initialised' = FALSE
  /\ stopReq' = TRUE
  /\ mpc' = "join"
  /\ UNCHANGED <<closing, starts, shuts, pc, idx, incoming, decision, sessions,
                 fdTab, netVars, statVars, historyVars>>

\* A bug: the thread is detached instead of joined.
ThreadGoneDetached == TRUE
ThreadGone == pc = "stopped"

\* m_serverThread.reset() joins the thread and shutdown() returns.
ShutdownJoin ==
  /\ mpc = "join" /\ ThreadGone
  /\ mpc' = "idle"
  /\ UNCHANGED <<initialised, listenSocket, closing, starts, shuts, threadVars,
                 sessions, fdTab, netVars, statVars, historyVars>>

-----------------------------------------------------------------------------
(* The server thread: threadFunc() and update().                           *)

\* push_back and erase invalidate the iterators of shutdown()'s loop.
Invalidate == mpc' = IF mpc = "closing" THEN "stale" ELSE mpc

\* The top of threadFunc()'s loop: leave it once the stop is requested.
CheckStop ==
  /\ pc = "top"
  /\ pc' = IF stopReq THEN "stopped" ELSE "poll"
  /\ decision' = "none"
  /\ UNCHANGED <<mainVars, stopReq, idx, incoming, sessions, fdTab, netVars,
                 statVars, historyVars>>

\* The loop over m_sessions starts; the sessions it will meet are ss.
StartServing(ss) ==
  /\ pc' = "serve" /\ idx' = 1
  /\ roster' = [i \in DOMAIN ss |-> ss[i].conn]
  /\ served' = <<>>

\* FD_SET(-1, &readSet): shutdown() has reset m_listenSocket meanwhile.
PollInvalidSocket == pc = "poll" /\ listenSocket = NoFd /\ Abort

\* A bug: a full server does not look at the listening socket.
PendingIfRoom == Listening /\ backlog # <<>> /\ Len(sessions) < MaxSession
Pending == Listening /\ backlog # <<>>

\* select() reports a connection pending on the listening socket.
PollPending ==
  /\ pc = "poll" /\ Pending
  /\ pc' = "accept"
  /\ UNCHANGED <<mainVars, stopReq, idx, incoming, decision, sessions, fdTab,
                 netVars, statVars, historyVars>>

\* select() reports nothing, or fails on a socket closed meanwhile.
PollNothing ==
  /\ pc = "poll" /\ listenSocket # NoFd /\ ~Pending
  /\ StartServing(sessions)
  /\ UNCHANGED <<mainVars, stopReq, incoming, decision, sessions, fdTab,
                 netVars, statVars, stage>>

\* accept() takes the oldest pending connection and the lowest free number.
Accept ==
  /\ pc = "accept" /\ Listening /\ FreeFds # {}
  /\ LET c == Head(backlog) IN
       /\ incoming' = [conn |-> c, fd |-> LowestFree]
       /\ fdTab' = [fdTab EXCEPT ![LowestFree] = c]
       /\ stage' = [stage EXCEPT ![c] = "taken"]
  /\ backlog' = Tail(backlog)
  /\ pc' = "admit"
  /\ UNCHANGED <<mainVars, stopReq, idx, decision, sessions, inbox, peer,
                 statVars, roster, served>>

\* A bug: accept() is retried until it succeeds.
AcceptFailsNever == FALSE

\* accept() fails: the listening socket is gone, or no descriptor is free (the
\* connection then stays pending).  update() counts a refused connection.
AcceptFails ==
  /\ pc = "accept" /\ ~(Listening /\ FreeFds # {})
  /\ decision' = "refused"
  /\ StartServing(sessions)
  /\ UNCHANGED <<mainVars, stopReq, incoming, sessions, fdTab, netVars,
                 statVars, stage>>

\* A bug: one session too many.
IsFullOffByOne == Len(sessions) > MaxSession
IsFull == Len(sessions) >= MaxSession

\* A bug: the refused connection is told, but not closed.
RefusedTableLeak == fdTab
RefusedTable == Closed(incoming.fd)

AdmittedList(age) ==
  Append(sessions, [conn |-> incoming.conn, fd |-> incoming.fd, age |-> age])

\* The connection becomes a session: push_back, then initialise(), which sends
\* the banner, calls the connected callback and sets lastSeenTime.
Admit ==
  /\ pc = "admit" /\ ~IsFull
  /\ sessions' = AdmittedList(0)
  /\ stage' = [stage EXCEPT ![incoming.conn] = "admitted"]
  /\ decision' = "accepted" /\ incoming' = NoConn
  /\ StartServing(sessions')
  /\ Invalidate
  /\ UNCHANGED <<initialised, listenSocket, closing, starts, shuts, stopReq,
                 fdTab, netVars, statVars>>

\* The connected callback throws after push_back: update() is left, lastSeenTime
\* stays at the epoch.
AdmitThrows ==
  /\ pc = "admit" /\ ~IsFull /\ "bad" \in Kinds
  /\ sessions' = AdmittedList(Timeout + 1)
  /\ stage' = [stage EXCEPT ![incoming.conn] = "admitted"]
  /\ incoming' = NoConn
  /\ pc' = "top"
  /\ Invalidate
  /\ UNCHANGED <<initialised, listenSocket, closing, starts, shuts, stopReq,
                 idx, decision, fdTab, netVars, statVars, roster, served>>

\* The list is full: the client is told so on a temporary session and closed.
Refuse ==
  /\ pc = "admit" /\ IsFull
  /\ fdTab' = RefusedTable
  /\ stage' = [stage EXCEPT ![incoming.conn] = "refused"]
  /\ decision' = "refused" /\ incoming' = NoConn
  /\ StartServing(sessions)
  /\ UNCHANGED <<mainVars, stopReq, sessions, netVars, statVars>>

\* The connected callback throws on the temporary session, which is forgotten
\* with its connection open.
RefuseThrows ==
  /\ pc = "admit" /\ IsFull /\ "bad" \in Kinds
  /\ incoming' = NoConn
  /\ pc' = "top"
  /\ UNCHANGED <<mainVars, stopReq, idx, decision, sessions, fdTab, netVars,
                 statVars, historyVars>>

-----------------------------------------------------------------------------
(* The loop of update() over m_sessions.                                   *)

This == sessions[idx]
Holder == fdTab[This.fd]          \* what the session's m_socket refers to now
Aged(age) == [sessions EXCEPT ![idx].age = age]

\* One call of TelnetSession::update() on the session at idx is over.
SessionUpdated ==
  /\ pc = "serve" /\ idx <= Len(sessions)
  /\ pc' = "check"
  /\ served' = Append(served, This.conn)

\* recv() finds nothing (EAGAIN), or returns 0: the client has closed its end,
\* which update() ignores.  A descriptor of another component may be idle too.
ServeIdle ==
  /\ SessionUpdated
  /\ \/ /\ Holder \in Conns /\ peer[Holder] \in {"up", "fin"}
        /\ inbox[Holder] = <<>>
     \/ Holder \in Foreign
  /\ UNCHANGED <<mainVars, stopReq, idx, incoming, decision, sessions, fdTab,
                 netVars, statVars, stage, roster>>

\* recv() fails: the connection was reset, or m_socket is no connection any
\* more.  The descriptor is closed, the session stays in m_sessions.
ServeError ==
  /\ SessionUpdated
  /\ Holder \in Conns => peer[Holder] = "rst"
  /\ Close(This.fd)
  /\ UNCHANGED <<mainVars, stopReq, idx, incoming, decision, sessions, inbox,
                 peer, statVars, roster>>

\* A bug: lastSeenTime is set after the callbacks ran, not before.
AgeAfterRefreshedLate(lines) == 0

\* The age recv() and the callbacks of these lines leave: the session has just
\* been seen, unless a "quit" that is reached marks it.
AgeAfter(lines) ==
  IF \E i \in DOMAIN lines :
       lines[i] = "quit" /\ \A j \in 1 .. i : lines[j] # "bad"
  THEN Timeout + 1 ELSE 0

\* recv() reads some of what has arrived; the callback runs on each line.
\* One that throws ends the round: no later session is served, nothing counted.
ServeLines ==
  /\ pc = "serve" /\ idx <= Len(sessions)
  /\ Holder \in Conns /\ peer[Holder] \in {"up", "fin"}
  /\ \E n \in 1 .. Len(inbox[Holder]) :
       LET lines == SubSeq(inbox[Holder], 1, n) IN
         /\ sessions' = Aged(AgeAfter(lines))
         /\ inbox' = [inbox EXCEPT ![Holder] = SubSeq(@, n + 1, Len(@))]
         /\ IF Contains(lines, "bad")
            THEN pc' = "top" /\ served' = served
            ELSE SessionUpdated
  /\ UNCHANGED <<mainVars, stopReq, idx, incoming, decision, fdTab, backlog,
                 peer, statVars, stage, roster>>

\* m_sessions[idx], or erase(), after shutdown() has cleared the vector.
ServeCleared == pc \in {"check", "erase"} /\ idx > Len(sessions) /\ Abort

\* A bug: a session never times out.
TimedOutNever == FALSE
TimedOut == This.age > Timeout           \* checkTimeout()

\* The session stays; its statistics are consumed.
KeepSession ==
  /\ pc = "check" /\ idx <= Len(sessions) /\ ~TimedOut
  /\ pc' = "serve" /\ idx' = idx + 1
  /\ UNCHANGED <<mainVars, stopReq, incoming, decision, sessions, fdTab,
                 netVars, statVars, historyVars>>

\* closeClient() on a session that timed out or was marked by "quit".
CloseSession ==
  /\ pc = "check" /\ idx <= Len(sessions) /\ TimedOut
  /\ Close(This.fd)
  /\ pc' = "erase"
  /\ UNCHANGED <<mainVars, stopReq, idx, incoming, decision, sessions, inbox,
                 peer, statVars, roster, served>>

\* A bug: --idx is missing.
IdxAfterEraseSkips == idx + 1
IdxAfterErase == idx                     \* --idx, then the loop's ++idx

\* A bug: the last session is erased, not the one closed.
ErasedLast == Front(sessions)
Erased == RemoveAt(sessions, idx)

\* m_sessions.erase() of the session just closed.
EraseSession ==
  /\ pc = "erase" /\ idx <= Len(sessions)
  /\ sessions' = Erased
  /\ pc' = "serve" /\ idx' = IdxAfterErase
  /\ Invalidate
  /\ UNCHANGED <<initialised, listenSocket, closing, starts, shuts, stopReq,
                 incoming, decision, fdTab, netVars, statVars, historyVars>>

\* The loop is over.
LoopDone ==
  /\ pc = "serve" /\ idx > Len(sessions)
  /\ pc' = "report"
  /\ UNCHANGED <<mainVars, stopReq, idx, incoming, decision, sessions, fdTab,
                 netVars, statVars, historyVars>>

\* A bug: the gauge is read before the loop.
GaugeEarly == Len(roster)
Gauge == Len(sessions)
AcceptedNow == IF decision = "accepted" THEN Bump(accepted) ELSE accepted
RefusedNow == IF decision = "refused" THEN Bump(refused) ELSE refused

\* The server's statistics of the round are consumed; the thread then sleeps.
Report ==
  /\ pc = "report"
  /\ active' = Gauge /\ accepted' = AcceptedNow /\ refused' = RefusedNow
  /\ pc' = "top"
  /\ UNCHANGED <<mainVars, stopReq, idx, incoming, decision, sessions, fdTab,
                 netVars, historyVars>>

-----------------------------------------------------------------------------
(* The environment: clients, the clock, the rest of the process.           *)

Connect(c) ==
  /\ peer[c] = "none"
  /\ \E f \in Fds : fdTab[f] = "listen"
  /\ peer' = [peer EXCEPT ![c] = "up"]
  /\ backlog' = Append(backlog, c)
  /\ stage' = [stage EXCEPT ![c] = "pending"]
  /\ UNCHANGED <<mainVars, threadVars, sessions, fdTab, inbox, statVars, roster,
                 served>>

\* The server's end of c exists.
Reachable(c) == Contains(backlog, c) \/ \E f \in Fds : fdTab[f] = c

Send(c, k) ==
  /\ peer[c] = "up" /\ Reachable(c) /\ Len(inbox[c]) < MaxInbox
  /\ inbox' = [inbox EXCEPT ![c] = Append(@, k)]
  /\ UNCHANGED <<mainVars, threadVars, sessions, fdTab, backlog, peer, statVars,
                 historyVars>>

\* The client closes its end in order ("fin") or resets the connection ("rst").
Depart(c, how) ==
  /\ peer[c] = "up" /\ Reachable(c)
  /\ peer' = [peer EXCEPT ![c] = how]
  /\ UNCHANGED <<mainVars, threadVars, sessions, fdTab, backlog, inbox,
                 statVars, historyVars>>

\* Time passes for every session; an age past the timeout is all the same.
Tick ==
  /\ sessions' = [i \in DOMAIN sessions |->
       [sessions[i] EXCEPT !.age = IF @ > Timeout THEN @ ELSE @ + 1]]
  /\ UNCHANGED <<mainVars, threadVars, fdTab, netVars, statVars, historyVars>>

\* Another component of the process opens and closes a descriptor of its own.
ForeignOpen(p) ==
  /\ FreeFds # {} /\ \A f \in Fds : fdTab[f] # p
  /\ fdTab' = [fdTab EXCEPT ![LowestFree] = p]
  /\ UNCHANGED <<mainVars, threadVars, sessions, netVars, statVars,
                 historyVars>>

ForeignClose(p) ==
  \E f \in Fds :
    /\ fdTab[f] = p
    /\ fdTab' = Closed(f)
    /\ UNCHANGED <<mainVars, threadVars, sessions, netVars, statVars,
                   historyVars>>

-----------------------------------------------------------------------------

InitialiseStep == InitialiseOk \/ InitialiseBindFails \/ InitialiseNoSocket

\* shutdown() once it has been called.
ShutdownStep ==
  \/ ShutdownCloseSession \/ ShutdownStaleElement \/ ShutdownClear
  \/ ShutdownCloseListen \/ ShutdownRequestStop \/ ShutdownJoin

ServerStep ==
  \/ CheckStop
  \/ PollInvalidSocket \/ PollPending \/ PollNothing
  \/ Accept \/ AcceptFails
  \/ Admit \/ AdmitThrows \/ Refuse \/ RefuseThrows
  \/ ServeIdle \/ ServeError \/ ServeLines \/ ServeCleared
  \/ KeepSession \/ CloseSession \/ EraseSession \/ LoopDone \/ Report

Environment ==
  /\ pc # "aborted"
  /\ \/ \E c \in Conns : \/ Connect(c)
                         \/ \E k \in Kinds : Send(c, k)
                         \/ \E how \in PeerEnds : Depart(c, how)
     \/ \E p \in Foreign : ForeignOpen(p) \/ ForeignClose(p)
     \/ Tick

\* A process that has died stays dead.
Dead == pc = "aborted" /\ UNCHANGED vars

Next == \/ InitialiseStep \/ ShutdownBegin \/ ShutdownStep \/ ServerStep
        \/ Environment \/ Dead

Spec == Init /\ [][Next]_vars

\* The server thread runs, a call of shutdown() proceeds and time passes; what
\* clients and callers do is up to them.
Fairness == WF_vars(ServerStep) /\ WF_vars(ShutdownStep) /\ WF_vars(Tick)

FairSpec == Spec /\ Fairness

-----------------------------------------------------------------------------
(* What the server promises: SessionService, with this state seen as its.  *)

IsOpen  == \E f \in Fds : fdTab[f] = "listen"
Arrived == {c \in Conns : peer[c] # "none"}

\* The connection acceptConnection() has in hand, if any, and those still in the
\* listening socket.
InHands == IF incoming = NoConn THEN <<>> ELSE <<incoming.conn>>
Waiting == InHands \o backlog
Serving == [i \in DOMAIN sessions |-> sessions[i].conn]

Service == INSTANCE SessionService WITH
  Clients <- Conns, Room <- MaxSession,
  open <- IsOpen, arrived <- Arrived, waiting <- Waiting, serving <- Serving

\* Clients are admitted in the order they connected, at most MaxSession at a
\* time, and refused only when there are so many; a session is given up one by
\* one, or all at once by shutdown(); whatever descriptors are lost, callbacks
\* throw, or calls of initialise() and shutdown() interfere.
ImplementsService == Service!Spec

-----------------------------------------------------------------------------
(* Properties.                                                             *)

HasSession(c) == \E i \in DOMAIN sessions : sessions[i].conn = c
OpenConns == {fdTab[f] : f \in Fds} \cap Conns
InStage(st) == {c \in Conns : stage[c] = st}

\* MAX_AVAILABLE_SESSION, "Maximum number of concurrent sessions": the size is
\* read by acceptConnection() and the vector appended to later, while shutdown()
\* may clear it in between and sessions that failed still hold their place.
Capacity == Len(sessions) <= MaxSession

\* update() erases from the vector it walks by index: still, unless shutdown()
\* interferes, every session that was there when the loop began is updated
\* exactly once, in order, before the round is reported.
RoundServesEach == pc = "report" /\ mpc = "idle" => served = roster

\* A connection accept() returned is never forgotten: until shutdown() is called
\* it is still in acceptConnection()'s hands or it belongs to a session, which
\* will close it; but for one that was to be refused by a callback that threw.
NoDescriptorLeak ==
  shuts = 0 => \A c \in OpenConns :
                 \/ HasSession(c)
                 \/ incoming # NoConn /\ incoming.conn = c
                 \/ "bad" \in Kinds /\ stage[c] = "taken"

\* What the proofs of Capacity and StoppedMeansStopped rest on (the runs check
\* it as well): a thread exists only between initialise() and the join, the
\* only listening socket is the one m_listenSocket names and it is open only
\* while the server is initialised, and what update() has in hand between two
\* of its steps is still there when it goes on.
ThreadOwned ==
  /\ ~initialised /\ mpc # "join" => pc \in {"stopped", "aborted"}
  /\ pc = "aborted" <=> mpc = "aborted"

ListenOwned ==
  /\ \A f \in Fds : fdTab[f] = "listen" => f = listenSocket /\ initialised
  /\ mpc \in {"listenClosed", "join"} => \A f \in Fds : fdTab[f] # "listen"

InHand ==
  /\ pc = "admit" => incoming # NoConn /\ fdTab[incoming.fd] # "listen"
  /\ incoming # NoConn => pc \in {"admit", "aborted"}
  /\ pc = "accept" /\ Listening => backlog # <<>>

IInv == TypeOK /\ ThreadOwned /\ ListenOwned /\ InHand /\ Capacity

\* Why RoundServesEach holds: the sessions from position next on are exactly the
\* part of the roster not served yet, however many were erased before them.
Remaining(next) ==
  /\ Len(roster) = Len(served) + Len(sessions) + 1 - next
  /\ \A i \in 1 .. Len(served) : served[i] = roster[i]
  /\ \A j \in next .. Len(sessions) :
       sessions[j].conn = roster[Len(served) + 1 + j - next]

RoundInv ==
  mpc = "idle" =>
    /\ pc = "serve" => idx <= Len(sessions) + 1 /\ Remaining(idx)
    /\ pc \in {"check", "erase"} => idx <= Len(sessions) /\ Remaining(idx + 1)
    /\ pc = "report" => served = roster

\* Where each connection is: it waits once, is accepted once, and has then at most
\* one descriptor, the one that its session, or ClientSocket, names.
HoldsAtMost(c, fd) == \A f \in Fds : fdTab[f] = c => f = fd

Waits ==
  /\ \A c \in Conns : stage[c] = "new" <=> peer[c] = "none"
  /\ \A i \in 1 .. Len(backlog) : stage[backlog[i]] = "pending"
  /\ \A i, j \in 1 .. Len(backlog) : backlog[i] = backlog[j] => i = j

Holds ==
  /\ \A f \in Fds : fdTab[f] \in Conns => /\ stage[fdTab[f]] \in {"taken", "admitted"}
                                        /\ HoldsAtMost(fdTab[f], f)
  /\ incoming # NoConn => /\ stage[incoming.conn] = "taken"
                          /\ HoldsAtMost(incoming.conn, incoming.fd)

Names ==
  /\ \A i \in 1 .. Len(sessions) :
       /\ stage[sessions[i].conn] = "admitted"
       /\ HoldsAtMost(sessions[i].conn, sessions[i].fd)
  /\ \A i, j \in 1 .. Len(sessions) :
       sessions[i].conn = sessions[j].conn => i = j

Places == Waits /\ Holds /\ Names

\* What is closed: a session about to be erased, and those shutdown() is done
\* with, as long as its iterators are good.
IsClosed(c) == \A f \in Fds : fdTab[f] # c

ClosedInTime ==
  /\ pc = "erase" /\ idx <= Len(sessions) => IsClosed(sessions[idx].conn)
  /\ mpc = "closing" =>
       /\ closing.to = Len(sessions)
       /\ \A i \in 1 .. Len(sessions) :
            i < closing.from => IsClosed(sessions[i].conn)

\* What is open, until shutdown() is called: the connection in hand, and, as long
\* as no admitted client has reset its connection, that of every session; and an
\* open connection that was admitted has its session.
NoneReset == \A c \in InStage("admitted") : peer[c] # "rst"

OpenInTime ==
  shuts = 0 =>
    /\ mpc \in {"idle", "aborted"}
    /\ incoming # NoConn => fdTab[incoming.fd] = incoming.conn
    /\ NoneReset => \A i \in 1 .. Len(sessions) :
         \/ pc = "erase" /\ i = idx
         \/ fdTab[sessions[i].fd] = sessions[i].conn
    /\ \A c \in Conns : stage[c] = "admitted" => IsClosed(c) \/ HasSession(c)

\* The connection taken is the one in hand, if no callback throws.
TakenInHand ==
  "bad" \notin Kinds =>
    \A c \in Conns : stage[c] = "taken" => incoming # NoConn /\ incoming.conn = c

DescriptorInv == Places /\ ClosedInTime /\ OpenInTime /\ TakenInHand

\* All that the proofs rest on.
Inductive == IInv /\ RoundInv /\ DescriptorInv

\* TelnetServerStats: accepted, refused and active connections are what became of
\* the connections, at the top of every round.  The three numbers come from a
\* flag of acceptConnection() and from the size of a list update() erases from,
\* consumed together at the end of the round.  (A reset, a callback that throws
\* and a lack of descriptors break it, so the run has none of them.)
StatisticsExact ==
  pc = "top" /\ shuts = 0 =>
    /\ accepted = Cardinality(InStage("admitted"))
    /\ refused = Cardinality(InStage("refused"))
    /\ active = Cardinality(OpenConns)

\* Close by its owner: a connection by its session or by its refusal, another
\* component's descriptor by that component.
ClosedByOwner(f) ==
  \/ fdTab[f] \in Foreign /\ UNCHANGED <<pc, mpc, closing>>
  \/ pc = "admit" /\ incoming.fd = f
  \/ pc \in {"serve", "check"} /\ fdTab[f] = This.conn

\* m_socket is a bare number that outlives close().  Until shutdown(), as long
\* as no admitted client has reset its connection, every descriptor is closed
\* by its owner; a reset is the only way for a session to reach another's.
OnlyResetsClobber ==
  [][shuts = 0 /\ NoneReset
       => \A f \in Fds : fdTab[f] \in Conns \cup Foreign /\ fdTab'[f] # fdTab[f]
                           => ClosedByOwner(f)]_vars

\* The same without exception: "Finish the session" (closeClient) and
\* "Closes the Telnet Server" (shutdown) close what is theirs.
OwnersOnlyClose ==
  [][\A f \in Fds : fdTab[f] \in Conns \cup Foreign /\ fdTab'[f] # fdTab[f]
                      => \/ ClosedByOwner(f)
                         \/ /\ mpc \in {"closing", "stale"}
                            /\ fdTab[f] = sessions[closing.from].conn]_vars

\* A pending connection is eventually taken from the listening socket.
PendingTaken == \A c \in Conns : stage[c] = "pending" ~> stage[c] # "pending"

\* "quit" ends the session, whatever the client sends after it.
QuitEndsSession ==
  \A c \in Conns :
    stage[c] = "admitted" /\ Contains(inbox[c], "quit") ~> ~HasSession(c)

\* A session whose client has gone is eventually removed: update() ignores the
\* end of the stream, the timeout must catch it.
GoneClientReaped ==
  \A c \in Conns : peer[c] \in {"fin", "rst"} ~> ~HasSession(c)

\* After shutdown() has returned, no server thread is left running on the
\* members of the object.
StoppedMeansStopped == ~initialised /\ mpc = "idle" => pc = "stopped"

\* shutdown() returns, unless the process died of it.
ShutdownReturns == mpc = "closing" ~> mpc \in {"idle", "aborted"}

\* "Attempt to cleanly close every telnet session in flight": when the server
\* thread did not change the list meanwhile, m_sessions.clear() drops no session
\* whose connection is open.
QuietShutdownClosesAll ==
  [][mpc = "closing" /\ mpc' = "cleared" =>
       \A i \in DOMAIN sessions : sessions[i].conn \notin OpenConns]_vars

=============================================================================
