------------------------ MODULE TelnetServer_proofs ------------------------
(***************************************************************************)
(* What holds of TelnetServer for every number of clients, sessions and    *)
(* descriptors, proved with TLAPS.                                         *)
(***************************************************************************)
EXTENDS TelnetServer, DataLemmas, WellFoundedInduction

(* The lowest free descriptor exists when there is a free one.             *)
LEMMA LowestFreeIsFree ==
  ASSUME FreeFds # {}
  PROVE  LowestFree \in FreeFds
<1> DEFINE Less == OpToRel(<, Nat)
<1>1. FreeFds \subseteq Nat
  BY BoundsAssumption DEF FreeFds, Fds
<1>2. PICK f \in FreeFds : \A g \in FreeFds : <<g, f>> \notin Less
  <2> HIDE DEF Less
  <2> QED BY <1>1, NatLessThanWellFounded, WFMin, Zenon DEF Less
<1>3. \A g \in FreeFds : f <= g
  <2> SUFFICES ASSUME NEW g \in FreeFds, g < f PROVE FALSE
    BY <1>1
  <2>1. <<g, f>> \in Less
    BY <1>1 DEF OpToRel
  <2> QED BY <1>2, <2>1
<1> QED BY <1>3, Zenon DEF LowestFree

(* The sequences update() and the clock build are of the right type.       *)
LEMMA SessionTypes ==
  ASSUME TypeOK
  PROVE  /\ [i \in DOMAIN sessions |-> sessions[i].conn] \in Seq(Conns)
         /\ \A i \in 1 .. Len(sessions) :
              /\ sessions[i].conn \in Conns
              /\ sessions[i].fd \in Fds
              /\ sessions[i].age \in Age
         /\ \A i \in 1 .. Len(sessions) :
              Append(served, sessions[i].conn) \in Seq(Conns)
<1> USE DEF TypeOK
<1>1. \A i \in 1 .. Len(sessions) : sessions[i] \in Sessions
  BY ElementOfSeq
<1>2. \A i \in 1 .. Len(sessions) :
        /\ sessions[i].conn \in Conns
        /\ sessions[i].fd \in Fds
        /\ sessions[i].age \in Age
  BY <1>1 DEF Sessions
<1>3. [i \in DOMAIN sessions |-> sessions[i].conn] \in Seq(Conns)
  <2>1. DOMAIN sessions = 1 .. Len(sessions) /\ Len(sessions) \in Nat
    BY LenProperties
  <2> QED BY <1>2, <2>1
<1>4. \A i \in 1 .. Len(sessions) :
        Append(served, sessions[i].conn) \in Seq(Conns)
  BY <1>2, AppendProperties
<1> QED BY <1>2, <1>3, <1>4

\* A session's part in a round adds its owner to those served.
LEMMA ServedTypes ==
  ASSUME TypeOK, SessionUpdated
  PROVE  served' \in Seq(Conns)
<1>1. idx \in 1 .. Len(sessions)
  BY LenProperties DEF TypeOK, SessionUpdated
<1> QED BY <1>1, SessionTypes DEF SessionUpdated, This

(* Changing the age of one session, or of all, keeps the list a list of    *)
(* sessions of the same length.                                            *)
LEMMA AgedTypes ==
  ASSUME TypeOK, BoundsAssumption
  PROVE  /\ \A a \in Age : idx <= Len(sessions) =>
              Aged(a) \in Seq(Sessions) /\ Len(Aged(a)) = Len(sessions)
         /\ Tick => /\ sessions' \in Seq(Sessions)
                    /\ Len(sessions') = Len(sessions)
<1> USE DEF TypeOK
<1>1. /\ DOMAIN sessions = 1 .. Len(sessions) /\ Len(sessions) \in Nat
      /\ \A i \in 1 .. Len(sessions) : sessions[i] \in Sessions
  BY LenProperties, ElementOfSeq
<1>0. \A r \in Sessions, a \in Age : [r EXCEPT !.age = a] \in Sessions
  BY DEF Sessions
<1>2. ASSUME NEW a \in Age, idx <= Len(sessions)
      PROVE  Aged(a) \in Seq(Sessions) /\ Len(Aged(a)) = Len(sessions)
  <2>1. [sessions[idx] EXCEPT !.age = a] \in Sessions
    <3>1. idx \in 1 .. Len(sessions)
      BY <1>1, <1>2
    <3>2. sessions[idx] \in Sessions
      BY <1>1, <3>1
    <3> QED BY <1>0, <3>2
  <2>2. Aged(a) = [sessions EXCEPT ![idx] = [sessions[idx] EXCEPT !.age = a]]
    BY DEF Aged
  <2>3. idx \in 1 .. Len(sessions) /\ sessions \in Seq(Sessions)
    BY <1>1, <1>2
  <2> HIDE DEF TypeOK
  <2> QED BY <2>1, <2>2, <2>3, ExceptSeq
<1>3. ASSUME Tick
      PROVE  sessions' \in Seq(Sessions) /\ Len(sessions') = Len(sessions)
  <2>1. \A i \in 1 .. Len(sessions) :
          [sessions[i] EXCEPT !.age =
             IF @ > Timeout THEN @ ELSE @ + 1] \in Sessions
    <3> SUFFICES ASSUME NEW i \in 1 .. Len(sessions)
                 PROVE [sessions[i] EXCEPT !.age =
                          IF @ > Timeout THEN @ ELSE @ + 1] \in Sessions
      OBVIOUS
    <3>1. sessions[i] \in Sessions /\ sessions[i].age \in Age
      BY <1>1 DEF Sessions
    <3> DEFINE older == IF sessions[i].age > Timeout THEN sessions[i].age
                        ELSE sessions[i].age + 1
    <3>2. older \in Age
      BY <3>1, BoundsAssumption DEF Age
    <3> HIDE DEF older
    <3>3. [sessions[i] EXCEPT !.age = older] \in Sessions
      BY <1>0, <3>1, <3>2
    <3> QED BY <3>3 DEF older
  <2> DEFINE e(i) == [sessions[i] EXCEPT !.age =
                        IF @ > Timeout THEN @ ELSE @ + 1]
             n == Len(sessions)
  <2>2. sessions' = [i \in 1 .. n |-> e(i)]
    BY <1>1, <1>3 DEF Tick
  <2>3. n \in Nat /\ \A i \in 1 .. n : e(i) \in Sessions
    BY <1>1, <2>1
  <2> HIDE DEF e, n, TypeOK
  <2>4. sessions' \in Seq(Sessions) /\ Len(sessions') = n
    BY <2>2, <2>3
  <2> QED BY <2>4 DEF n
<1> QED BY <1>2, <1>3

(* close() opens nothing, and empties the backlog only with the listening  *)
(* socket.                                                                 *)
LEMMA CloseTypes ==
  ASSUME TypeOK, NEW f, Close(f)
  PROVE  /\ fdTab' \in [Fds -> Conns \cup Foreign \cup {"free", "listen"}]
         /\ backlog' \in Seq(Conns)
         /\ stage' \in [Conns -> {"new", "pending", "taken", "admitted",
                                  "refused", "dropped"}]
         /\ \A g \in Fds : fdTab'[g] = "listen" => fdTab[g] = "listen" /\ g # f
         /\ backlog' # backlog => f \in Fds /\ fdTab[f] = "listen"
<1>1. /\ fdTab' \in [Fds -> Conns \cup Foreign \cup {"free", "listen"}]
      /\ \A g \in Fds : fdTab'[g] = "listen" => fdTab[g] = "listen" /\ g # f
  BY DEF TypeOK, Close, Closed
<1>2. CASE f \in Fds /\ fdTab[f] = "listen"
  <2>1. backlog' = <<>>
    BY <1>2 DEF Close
  <2>2. \A c \in Conns : stage[c] \in {"new", "pending", "taken", "admitted",
                                       "refused", "dropped"}
    BY DEF TypeOK
  <2>3. stage' \in [Conns -> {"new", "pending", "taken", "admitted",
                              "refused", "dropped"}]
    BY <1>2, <2>2 DEF Close
  <2> QED BY <1>1, <1>2, <2>1, <2>3
<1>3. CASE ~(f \in Fds /\ fdTab[f] = "listen")
  BY <1>1, <1>3 DEF TypeOK, Close
<1> QED BY <1>2, <1>3

\* A close makes no descriptor listen, and leaves what a step left for the next.
LEMMA CloseKeeps ==
  ASSUME TypeOK, ListenOwned, InHand, NEW f, Close(f),
         UNCHANGED <<mpc, initialised, listenSocket, incoming>>,
         pc' = pc \/ (/\ pc \notin {"admit", "aborted"}
                     /\ pc' \notin {"accept", "admit"})
  PROVE  ListenOwned' /\ InHand'
<1>1. /\ \A g \in Fds : fdTab'[g] = "listen" => fdTab[g] = "listen" /\ g # f
      /\ backlog' # backlog => f \in Fds /\ fdTab[f] = "listen"
  BY CloseTypes
<1>2. ListenOwned'
  BY <1>1 DEF ListenOwned
<1>3. Listening' => Listening /\ backlog' = backlog
  BY <1>1 DEF Listening, ListenOwned
<1>4. incoming # NoConn => incoming.fd \in Fds
  BY DEF TypeOK
<1>5. InHand'
  <2>1. pc' = "admit" => incoming' # NoConn /\ fdTab'[incoming'.fd] # "listen"
    BY <1>1, <1>4 DEF InHand
  <2>2. pc' = "accept" /\ Listening' => backlog' # <<>>
    BY <1>3 DEF InHand
  <2>3. incoming' # NoConn => pc' \in {"admit", "aborted"}
    BY DEF InHand
  <2> QED BY <2>1, <2>2, <2>3 DEF InHand
<1> QED BY <1>2, <1>5

(* One more pending connection.                                            *)
LEMMA PendingTypes ==
  ASSUME TypeOK, NEW c \in Conns
  PROVE  Append(backlog, c) \in Seq(Conns) /\ Append(backlog, c) # <<>>
<1>1. backlog \in Seq(Conns)
  BY DEF TypeOK
<1> QED BY <1>1, AppendProperties

(* shutdown()'s loop moves on.                                             *)
LEMMA ClosingAdvances ==
  ASSUME TypeOK
  PROVE  [closing EXCEPT !.from = @ + 1] \in [from : Nat \ {0}, to : Nat]
<1>1. /\ closing = [from |-> closing.from, to |-> closing.to]
      /\ closing.from \in Nat \ {0} /\ closing.to \in Nat
  BY DEF TypeOK
<1>2. [closing EXCEPT !.from = @ + 1]
        = [from |-> closing.from + 1, to |-> closing.to]
  BY <1>1
<1>3. closing.from + 1 \in Nat \ {0}
  BY <1>1
<1> QED BY <1>1, <1>2, <1>3

-----------------------------------------------------------------------------
(* The inductive invariant IInv, one step per action.                      *)

\* The invariant holds at first.
LEMMA InitIInv == Init => IInv
BY BoundsAssumption DEF Init, IInv, TypeOK, ThreadOwned, ListenOwned, InHand,
   Capacity, Fds, NoFd, NoRange, Listening

\* Every step keeps it: one case for each action.
LEMMA StepIInv == IInv /\ [Next]_vars => IInv'
<1> SUFFICES ASSUME IInv, [Next]_vars
             PROVE  IInv'
  OBVIOUS
<1> USE BoundsAssumption, InputsAssumption, NamesAssumption
<1> USE DEF IInv, TypeOK, ThreadOwned, ListenOwned, InHand, Capacity, Fds, NoFd,
            Listening, mainVars, threadVars, netVars, statVars, historyVars
<1>1. CASE InitialiseOk
  <2>1. LowestFree \in Fds /\ fdTab[LowestFree] = "free"
    BY <1>1, LowestFreeIsFree DEF InitialiseOk, FreeFds
  <2>2. fdTab' \in [Fds -> Conns \cup Foreign \cup {"free", "listen"}]
    BY <1>1, <2>1 DEF InitialiseOk
  <2>3. pc = "stopped"
    BY <1>1 DEF InitialiseOk
  <2>4. \A f \in Fds : fdTab'[f] = "listen" => f = LowestFree
    BY <1>1, <2>1 DEF InitialiseOk
  <2>5. TypeOK'
    <3>1. UNCHANGED <<mpc, closing, shuts, idx, incoming, decision, sessions,
                      netVars, statVars, historyVars>>
      BY <1>1 DEF InitialiseOk
    <3>2. /\ starts' \in Nat /\ listenSocket' \in Fds /\ initialised' = TRUE
          /\ pc' = "top" /\ stopReq' = FALSE
      BY <1>1, <2>1 DEF InitialiseOk
    <3> QED BY <2>2, <3>1, <3>2
  <2> QED BY <1>1, <2>1, <2>3, <2>4, <2>5 DEF InitialiseOk
<1>2. CASE InitialiseBindFails
  BY <1>2, LowestFreeIsFree DEF InitialiseBindFails, FreeFds
<1>3. CASE InitialiseNoSocket
  BY <1>3 DEF InitialiseNoSocket
<1>4. CASE ShutdownBegin
  BY <1>4 DEF ShutdownBegin, LoopEnd
<1>5. CASE ShutdownCloseSession
  <2>1. Close(sessions[closing.from].fd)
    BY <1>5 DEF ShutdownCloseSession
  <2>2. closing' \in [from : Nat \ {0}, to : Nat]
    BY <1>5, ClosingAdvances DEF ShutdownCloseSession
  <2>3. UNCHANGED <<mpc, initialised, listenSocket, starts, shuts, threadVars,
                    sessions, inbox, peer, statVars, roster, served>>
    BY <1>5 DEF ShutdownCloseSession
  <2>4. TypeOK'
    BY <2>1, <2>2, <2>3, CloseTypes
  <2>5. ListenOwned' /\ InHand'
    BY <2>1, <2>3, CloseKeeps
  <2>6. ThreadOwned' /\ Capacity'
    BY <2>3
  <2> QED BY <2>4, <2>5, <2>6
<1>6. CASE ShutdownStaleElement
  <2>1. CASE Abort
    BY <1>6, <2>1 DEF ShutdownStaleElement, Abort
  <2>2. CASE ~Abort
    <3>1. closing' \in [from : Nat \ {0}, to : Nat]
      BY <1>6, <2>2, ClosingAdvances DEF ShutdownStaleElement
    <3>2. UNCHANGED <<mpc, initialised, listenSocket, starts, shuts, threadVars,
                      sessions, fdTab, netVars, statVars, historyVars>>
      BY <1>6, <2>2 DEF ShutdownStaleElement
    <3>3. TypeOK'
      BY <3>1, <3>2
    <3>4. ThreadOwned' /\ ListenOwned'
      BY <3>2
    <3>5. InHand' /\ Capacity'
      BY <3>2
    <3> QED BY <3>3, <3>4, <3>5
  <2> QED BY <2>1, <2>2
<1>7. CASE ShutdownClear
  BY <1>7 DEF ShutdownClear, NoRange
<1>8. CASE ShutdownCloseListen
  <2>1. Close(listenSocket)
    BY <1>8 DEF ShutdownCloseListen
  <2>2. /\ mpc = "cleared" /\ mpc' = "listenClosed"
        /\ UNCHANGED <<initialised, listenSocket, closing, starts, shuts,
                       threadVars, sessions, inbox, peer, statVars, roster,
                       served>>
    BY <1>8 DEF ShutdownCloseListen
  <2>3. TypeOK'
    BY <2>1, <2>2, CloseTypes
  <2>4. ListenOwned'
    BY <2>1, <2>2, CloseTypes
  <2>5. InHand'
    BY <2>2, <2>4
  <2>6. ThreadOwned' /\ Capacity'
    BY <2>2
  <2> QED BY <2>3, <2>4, <2>5, <2>6
<1>9. CASE ShutdownRequestStop
  BY <1>9 DEF ShutdownRequestStop
<1>10. CASE ShutdownJoin
  BY <1>10 DEF ShutdownJoin, ThreadGone
<1>11. CASE CheckStop
  BY <1>11 DEF CheckStop
<1>12. CASE PollInvalidSocket
  BY <1>12 DEF PollInvalidSocket, Abort
<1>13. CASE PollPending
  BY <1>13 DEF PollPending, Pending
<1>14. CASE PollNothing
  BY <1>14, SessionTypes DEF PollNothing, StartServing
<1>15. CASE Accept
  <2>1. LowestFree \in Fds /\ fdTab[LowestFree] = "free"
    BY <1>15, LowestFreeIsFree DEF Accept, FreeFds
  <2>2. Head(backlog) \in Conns /\ Tail(backlog) \in Seq(Conns)
    BY <1>15, HeadTailProperties DEF Accept
  <2>3. /\ fdTab' \in [Fds -> Conns \cup Foreign \cup {"free", "listen"}]
        /\ \A f \in Fds : fdTab'[f] = "listen" => fdTab[f] = "listen"
    BY <1>15, <2>1, <2>2 DEF Accept
  <2>4. incoming' \in [conn : Conns, fd : Fds]
    BY <1>15, <2>1, <2>2 DEF Accept
  <2>5. incoming' # NoConn
    BY <2>4, NoConnAssumption DEF Fds
  <2>6. fdTab'[incoming'.fd] # "listen"
    BY <1>15, <2>1, <2>2, NamesAssumption DEF Accept
  <2>7. /\ pc = "accept" /\ pc' = "admit" /\ backlog' = Tail(backlog)
        /\ stage' = [stage EXCEPT ![Head(backlog)] = "taken"]
        /\ UNCHANGED <<mpc, initialised, listenSocket, closing, starts, shuts,
                       stopReq, idx, decision, sessions, inbox, peer, active,
                       accepted, refused, roster, served>>
    BY <1>15 DEF Accept
  <2>8. TypeOK'
    BY <2>2, <2>3, <2>4, <2>7
  <2>9. ThreadOwned' /\ ListenOwned' /\ Capacity'
    BY <2>3, <2>7
  <2>10. InHand'
    BY <2>5, <2>6, <2>7
  <2> QED BY <2>8, <2>9, <2>10
<1>16. CASE AcceptFails
  BY <1>16, SessionTypes DEF AcceptFails, StartServing
<1>17. CASE Admit
  <2>1. incoming \in [conn : Conns, fd : Fds]
    BY <1>17 DEF Admit
  <2> DEFINE new == [conn |-> incoming.conn, fd |-> incoming.fd, age |-> 0]
  <2>2. new \in Sessions
    BY <2>1 DEF Sessions, Age
  <2> HIDE DEF new
  <2>3. sessions' = Append(sessions, new)
    BY <1>17 DEF Admit, AdmittedList, new
  <2>4. sessions' \in Seq(Sessions) /\ Len(sessions') = Len(sessions) + 1
    BY <2>2, <2>3, AppendProperties
  <2>5. roster' \in Seq(Conns)
    <3>1. \A i \in 1 .. Len(sessions') : sessions'[i].conn \in Conns
      <4>1. \A i \in 1 .. Len(sessions') : sessions'[i] \in Sessions
        BY <2>4, ElementOfSeq
      <4> QED BY <4>1 DEF Sessions
    <3>2. DOMAIN sessions' = 1 .. Len(sessions') /\ Len(sessions') \in Nat
      BY <2>4, LenProperties
    <3>3. roster' = [i \in 1 .. Len(sessions') |-> sessions'[i].conn]
      BY <1>17, <3>2 DEF Admit, StartServing
    <3> QED BY <3>1, <3>2, <3>3
  <2> QED BY <1>17, <2>1, <2>4, <2>5 DEF Admit, IsFull, Invalidate, StartServing
<1>18. CASE AdmitThrows
  <2>1. incoming \in [conn : Conns, fd : Fds]
    BY <1>18 DEF AdmitThrows
  <2> DEFINE new == [conn |-> incoming.conn, fd |-> incoming.fd,
                     age |-> Timeout + 1]
  <2>2. new \in Sessions
    BY <2>1 DEF Sessions, Age
  <2> HIDE DEF new
  <2>3. sessions' = Append(sessions, new)
    BY <1>18 DEF AdmitThrows, AdmittedList, new
  <2>4. sessions' \in Seq(Sessions) /\ Len(sessions') = Len(sessions) + 1
    BY <2>2, <2>3, AppendProperties
  <2> QED BY <1>18, <2>1, <2>4 DEF AdmitThrows, IsFull, Invalidate
<1>19. CASE Refuse
  <2>1. /\ fdTab' \in [Fds -> Conns \cup Foreign \cup {"free", "listen"}]
        /\ \A f \in Fds : fdTab'[f] = "listen" => fdTab[f] = "listen"
    BY <1>19 DEF Refuse, RefusedTable, Closed
  <2>2. incoming.conn \in Conns
    BY <1>19 DEF Refuse
  <2> QED BY <1>19, <2>1, <2>2, SessionTypes DEF Refuse, StartServing
<1>20. CASE ServeIdle
  <2>1. served' \in Seq(Conns)
    BY <1>20, ServedTypes DEF ServeIdle
  <2>2. /\ pc = "serve" /\ pc' = "check"
        /\ UNCHANGED <<mainVars, stopReq, idx, incoming, decision, sessions,
                       fdTab, netVars, statVars, stage, roster>>
    BY <1>20 DEF ServeIdle, SessionUpdated
  <2> QED BY <2>1, <2>2
<1>21. CASE ServeError
  <2>1. Close(This.fd)
    BY <1>21 DEF ServeError
  <2>2. served' \in Seq(Conns)
    BY <1>21, ServedTypes DEF ServeError
  <2>3. /\ pc = "serve" /\ pc' = "check"
        /\ UNCHANGED <<mainVars, stopReq, idx, incoming, decision, sessions,
                       inbox, peer, statVars, roster>>
    BY <1>21 DEF ServeError, SessionUpdated
  <2>4. TypeOK'
    BY <2>1, <2>2, <2>3, CloseTypes
  <2>5. ListenOwned' /\ InHand'
    BY <2>1, <2>3, CloseKeeps
  <2>6. ThreadOwned' /\ Capacity'
    BY <2>3
  <2> QED BY <2>4, <2>5, <2>6
<1>22. CASE ServeLines
  <2>1. PICK n \in 1 .. Len(inbox[Holder]) :
          LET lines == SubSeq(inbox[Holder], 1, n) IN
            /\ sessions' = Aged(AgeAfter(lines))
            /\ inbox' = [inbox EXCEPT ![Holder] = SubSeq(@, n + 1, Len(@))]
            /\ IF Contains(lines, "bad")
               THEN pc' = "top" /\ served' = served
               ELSE SessionUpdated
    BY <1>22 DEF ServeLines
  <2>2. sessions' \in Seq(Sessions) /\ Len(sessions') = Len(sessions)
    <3> DEFINE a == AgeAfter(SubSeq(inbox[Holder], 1, n))
    <3>1. a \in Age
      BY DEF AgeAfter, Age
    <3>2. sessions' = Aged(a)
      BY <2>1
    <3> HIDE DEF a
    <3> QED BY <1>22, <3>1, <3>2, AgedTypes DEF ServeLines
  <2>3. inbox' \in [Conns -> Seq(Kinds)]
    <3>1. Holder \in Conns /\ inbox[Holder] \in Seq(Kinds)
      BY <1>22 DEF ServeLines
    <3>2. SubSeq(inbox[Holder], n + 1, Len(inbox[Holder])) \in Seq(Kinds)
      BY <2>1, <3>1, ElementOfSeq, LenProperties, SubSeqProperties
    <3> QED BY <2>1, <3>1, <3>2
  <2>4. served' \in Seq(Conns) /\ pc' \in {"top", "check"}
    <3>1. \/ pc' = "top" /\ served' = served
          \/ SessionUpdated
      BY <2>1
    <3>2. SessionUpdated => pc' = "check" /\ served' \in Seq(Conns)
      BY ServedTypes DEF SessionUpdated
    <3> QED BY <3>1, <3>2
  <2>5. /\ pc = "serve"
        /\ UNCHANGED <<mainVars, stopReq, idx, incoming, decision, fdTab,
                       backlog, peer, statVars, stage, roster>>
    BY <1>22 DEF ServeLines
  <2>6. TypeOK'
    BY <2>2, <2>3, <2>4, <2>5
  <2>7. ThreadOwned' /\ ListenOwned'
    BY <2>4, <2>5
  <2>8. InHand' /\ Capacity'
    BY <2>2, <2>4, <2>5
  <2> QED BY <2>6, <2>7, <2>8
<1>23. CASE ServeCleared
  BY <1>23 DEF ServeCleared, Abort
<1>24. CASE KeepSession
  BY <1>24 DEF KeepSession
<1>25. CASE CloseSession
  <2>1. Close(This.fd)
    BY <1>25 DEF CloseSession
  <2>2. /\ pc = "check" /\ pc' = "erase"
        /\ UNCHANGED <<mainVars, stopReq, idx, incoming, decision, sessions,
                       inbox, peer, statVars, roster, served>>
    BY <1>25 DEF CloseSession
  <2>3. TypeOK'
    BY <2>1, <2>2, CloseTypes
  <2>4. ListenOwned' /\ InHand'
    BY <2>1, <2>2, CloseKeeps
  <2>5. ThreadOwned' /\ Capacity'
    BY <1>25, <2>2 DEF CloseSession
  <2> QED BY <2>3, <2>4, <2>5
<1>26. CASE EraseSession
  <2>1. idx \in 1 .. Len(sessions) /\ sessions' = RemoveAt(sessions, idx)
    BY <1>26 DEF EraseSession, Erased
  <2>2. sessions' \in Seq(Sessions) /\ Len(sessions') <= Len(sessions)
    BY <2>1, RemoveAtProperties
  <2>3. /\ pc = "erase" /\ pc' = "serve" /\ idx' = idx
        /\ mpc' = IF mpc = "closing" THEN "stale" ELSE mpc
        /\ UNCHANGED <<initialised, listenSocket, closing, starts, shuts,
                       stopReq, incoming, decision, fdTab, netVars, statVars,
                       historyVars>>
    BY <1>26 DEF EraseSession, IdxAfterErase, Invalidate
  <2>4. TypeOK'
    BY <2>2, <2>3
  <2>5. ThreadOwned' /\ ListenOwned' /\ InHand' /\ Capacity'
    BY <2>2, <2>3
  <2> QED BY <2>4, <2>5
<1>27. CASE LoopDone
  BY <1>27 DEF LoopDone
<1>28. CASE Report
  BY <1>28 DEF Report, Bump, Gauge, AcceptedNow, RefusedNow
<1>29. ASSUME NEW c \in Conns, Connect(c) PROVE IInv'
  <2>1. backlog' = Append(backlog, c)
    BY <1>29 DEF Connect
  <2>2. backlog' \in Seq(Conns) /\ backlog' # <<>>
    BY <2>1, PendingTypes
  <2>3. /\ peer' \in [Conns -> {"none", "up", "fin", "rst"}]
        /\ stage' \in [Conns -> {"new", "pending", "taken", "admitted",
                                 "refused", "dropped"}]
    BY <1>29 DEF Connect
  <2>4. UNCHANGED <<mainVars, threadVars, sessions, fdTab, inbox, statVars,
                    roster, served>>
    BY <1>29 DEF Connect
  <2> QED BY <2>2, <2>3, <2>4
<1>30. ASSUME NEW c \in Conns, NEW k \in Kinds, Send(c, k) PROVE IInv'
  BY <1>30, AppendProperties DEF Send
<1>31. ASSUME NEW c \in Conns, NEW how \in PeerEnds, Depart(c, how) PROVE IInv'
  <2>1. peer' \in [Conns -> {"none", "up", "fin", "rst"}]
    BY <1>31 DEF Depart
  <2>2. UNCHANGED <<mainVars, threadVars, sessions, fdTab, backlog, inbox,
                    statVars, historyVars>>
    BY <1>31 DEF Depart
  <2> QED BY <2>1, <2>2
<1>32. ASSUME NEW p \in Foreign, ForeignOpen(p) PROVE IInv'
  <2>1. LowestFree \in Fds /\ fdTab[LowestFree] = "free"
    BY <1>32, LowestFreeIsFree DEF ForeignOpen, FreeFds
  <2>2. /\ fdTab' \in [Fds -> Conns \cup Foreign \cup {"free", "listen"}]
        /\ \A f \in Fds : fdTab'[f] = "listen" <=> fdTab[f] = "listen"
        /\ \A f \in Fds : fdTab'[f] = fdTab[f] \/ f = LowestFree
    BY <1>32, <2>1 DEF ForeignOpen
  <2>3. UNCHANGED <<mainVars, threadVars, sessions, netVars, statVars,
                    historyVars>>
    BY <1>32 DEF ForeignOpen
  <2>4. pc = "admit" => fdTab'[incoming.fd] # "listen"
    BY <2>2
  <2> QED BY <2>1, <2>2, <2>3, <2>4
<1>33. ASSUME NEW p \in Foreign, ForeignClose(p) PROVE IInv'
  BY <1>33 DEF ForeignClose, Closed
<1>34. CASE Tick
  <2>1. sessions' \in Seq(Sessions) /\ Len(sessions') = Len(sessions)
    BY <1>34, AgedTypes
  <2>2. UNCHANGED <<mainVars, threadVars, fdTab, netVars, statVars,
                    historyVars>>
    BY <1>34 DEF Tick
  <2> QED BY <2>1, <2>2
<1>35. CASE RefuseThrows
  BY <1>35 DEF RefuseThrows
<1>36. CASE UNCHANGED vars
  BY <1>36 DEF vars
<1> QED
  BY <1>1, <1>2, <1>3, <1>4, <1>5, <1>6, <1>7, <1>8, <1>9, <1>10, <1>11,
     <1>12, <1>13, <1>14, <1>15, <1>16, <1>17, <1>18, <1>19, <1>20, <1>21,
     <1>22, <1>23, <1>24, <1>25, <1>26, <1>27, <1>28, <1>29, <1>30, <1>31,
     <1>32, <1>33, <1>34, <1>35, <1>36
  DEF Next, InitialiseStep, ShutdownStep, ServerStep, Environment, Dead

-----------------------------------------------------------------------------

\* So it holds of every state.
LEMMA IInvHolds == Spec => []IInv
<1>1. Init => IInv
  BY InitIInv
<1>2. IInv /\ [Next]_vars => IInv'
  BY StepIInv
<1> QED BY <1>1, <1>2, PTL DEF Spec

(* Every variable keeps its type.                                          *)
THEOREM TypeCorrect == Spec => []TypeOK
<1>1. IInv => TypeOK
  BY DEF IInv
<1> QED BY <1>1, IInvHolds, PTL

(* acceptConnection(): never more than MAX_AVAILABLE_SESSION sessions.     *)
THEOREM CapacityHolds == Spec => []Capacity
<1>1. IInv => Capacity
  BY DEF IInv
<1> QED BY <1>1, IInvHolds, PTL

(* shutdown(): when it has returned, or before the first successful         *)
(* initialise(), no server thread works on the members.                    *)
THEOREM NoThreadAfterShutdown == Spec => []StoppedMeansStopped
<1>1. IInv => StoppedMeansStopped
  BY DEF IInv, ThreadOwned, StoppedMeansStopped
<1> QED BY <1>1, IInvHolds, PTL

-----------------------------------------------------------------------------
(* Every round serves every session once.                                  *)

(* The start of update()'s loop: nothing is served, all of it remains.     *)
LEMMA StartRemaining ==
  ASSUME IInv, StartServing(sessions'),
         sessions' \in Seq(Sessions)
  PROVE  pc' = "serve" /\ idx' = 1 /\ Remaining(1)'
<1>1. Len(sessions') \in Nat /\ DOMAIN sessions' = 1 .. Len(sessions')
  BY LenProperties
<1>2. roster' = [i \in 1 .. Len(sessions') |-> sessions'[i].conn]
  BY <1>1 DEF StartServing
<1>3. /\ \A j \in 1 .. Len(sessions') : sessions'[j].conn = roster'[j]
      /\ Len(roster') = Len(sessions')
  BY <1>1, <1>2
<1>4. Len(served') = 0 /\ served' = <<>>
  BY DEF StartServing
<1> QED BY <1>1, <1>3, <1>4 DEF StartServing, Remaining

(* One session updated: it is the next of the roster.                      *)
LEMMA ServeRemaining ==
  ASSUME IInv, idx <= Len(sessions), Remaining(idx),
         served' = Append(served, This.conn), idx' = idx, roster' = roster,
         Len(sessions') = Len(sessions),
         \A j \in 1 .. Len(sessions) : sessions'[j].conn = sessions[j].conn
  PROVE  Remaining(idx + 1)'
<1>0. /\ served \in Seq(Conns) /\ sessions \in Seq(Sessions)
      /\ roster \in Seq(Conns) /\ idx \in Nat \ {0}
      /\ TypeOK
  BY DEF IInv, TypeOK
<1>9. This.conn \in Conns /\ This.conn = sessions[idx].conn
  <2>1. idx \in 1 .. Len(sessions)
    BY <1>0, LenProperties
  <2> QED BY <1>0, <2>1, SessionTypes DEF This
<1>1. /\ Len(served') = Len(served) + 1
      /\ \A i \in 1 .. Len(served) : served'[i] = served[i]
      /\ served'[Len(served) + 1] = sessions[idx].conn
  BY <1>0, <1>9, AppendProperties
<1>2. /\ Len(served) \in Nat /\ Len(sessions) \in Nat /\ Len(roster) \in Nat
      /\ idx \in Nat \ {0}
  BY <1>0, LenProperties
<1>3. served'[Len(served) + 1] = roster'[Len(served) + 1]
  BY <1>1, <1>2 DEF Remaining
<1>4. \A i \in 1 .. Len(served') : served'[i] = roster'[i]
  <2>1. ASSUME NEW i \in 1 .. Len(served')
        PROVE  served'[i] = roster'[i]
    <3>1. i \in 1 .. Len(served) \/ i = Len(served) + 1
      BY <1>1, <1>2
    <3>2. CASE i \in 1 .. Len(served)
      <4>1. served'[i] = served[i]
        BY <1>1, <3>2
      <4>2. served[i] = roster[i]
        BY <3>2 DEF Remaining
      <4> QED BY <4>1, <4>2
    <3> QED BY <1>3, <3>1, <3>2
  <2> QED BY <2>1
<1>5. \A j \in idx + 1 .. Len(sessions) :
        sessions'[j].conn = roster'[Len(served') + 1 + j - (idx + 1)]
  BY <1>1, <1>2 DEF Remaining
<1>6. Len(roster') = Len(served') + Len(sessions') + 1 - (idx' + 1)
  BY <1>1, <1>2 DEF Remaining
<1>7. \A j \in idx' + 1 .. Len(sessions') :
        sessions'[j].conn = roster'[Len(served') + 1 + j - (idx' + 1)]
  BY <1>5
<1> QED BY <1>4, <1>6, <1>7 DEF Remaining

(* The session just served leaves the list: what remains is what remained. *)
LEMMA EraseRemaining ==
  ASSUME IInv, idx <= Len(sessions), Remaining(idx + 1),
         sessions' = RemoveAt(sessions, idx), idx' = idx,
         UNCHANGED <<served, roster>>
  PROVE  idx' <= Len(sessions') + 1 /\ Remaining(idx)'
<1>0. /\ served \in Seq(Conns) /\ sessions \in Seq(Sessions)
      /\ roster \in Seq(Conns) /\ idx \in Nat \ {0}
  BY DEF IInv, TypeOK
<1>1. /\ Len(served) \in Nat /\ Len(sessions) \in Nat /\ Len(roster) \in Nat
      /\ idx \in 1 .. Len(sessions)
  BY <1>0, LenProperties
<1>2. /\ Len(sessions') = Len(sessions) - 1
      /\ \A j \in 1 .. Len(sessions) - 1 :
           sessions'[j] = IF j < idx THEN sessions[j] ELSE sessions[j + 1]
  BY <1>0, <1>1, RemoveAtProperties
<1>3. ASSUME NEW j \in idx .. Len(sessions')
      PROVE  sessions'[j].conn = roster'[Len(served') + 1 + j - idx']
  <2>1. j \in 1 .. Len(sessions) - 1 /\ j + 1 \in idx + 1 .. Len(sessions)
    BY <1>1, <1>2
  <2>2. sessions'[j] = sessions[j + 1]
    BY <1>1, <1>2, <2>1
  <2>3. sessions[j + 1].conn = roster[Len(served) + 1 + (j + 1) - (idx + 1)]
    BY <2>1 DEF Remaining
  <2>4. Len(served) + 1 + (j + 1) - (idx + 1) = Len(served) + 1 + j - idx
    BY <1>1, <2>1
  <2> QED BY <2>2, <2>3, <2>4
<1>4. Len(roster') = Len(served') + Len(sessions') + 1 - idx'
  <2>1. Len(roster) = Len(served) + Len(sessions) + 1 - (idx + 1)
    BY DEF Remaining
  <2>2. /\ Len(roster') = Len(roster) /\ Len(served') = Len(served)
        /\ Len(sessions') = Len(sessions) - 1 /\ idx' = idx
    BY <1>2
  <2> QED BY <1>1, <2>1, <2>2
<1>5. \A i \in 1 .. Len(served') : served'[i] = roster'[i]
  BY DEF Remaining
<1>6. idx' <= Len(sessions') + 1
  BY <1>1, <1>2
<1> QED BY <1>3, <1>4, <1>5, <1>6 DEF Remaining

\* The invariant of a round holds at first.
LEMMA InitRoundInv == Init => RoundInv
BY DEF Init, RoundInv

\* Every step keeps it.
LEMMA StepRoundInv ==
  ASSUME IInv, IInv', RoundInv, [Next]_vars
  PROVE  RoundInv'
<1> SUFFICES ASSUME mpc' = "idle" PROVE RoundInv'
  BY DEF RoundInv
<1> USE DEF mainVars, threadVars, netVars, statVars, historyVars
<1>1. CASE InitialiseStep
  BY <1>1 DEF InitialiseStep, InitialiseOk, InitialiseBindFails,
     InitialiseNoSocket, RoundInv, Remaining, IInv, ThreadOwned
<1>2. CASE ShutdownBegin
  BY <1>2 DEF ShutdownBegin
<1>3. CASE ShutdownStep
  BY <1>3 DEF ShutdownStep, ShutdownCloseSession, ShutdownStaleElement, Abort,
     ShutdownClear, ShutdownCloseListen, ShutdownRequestStop, ShutdownJoin,
     ThreadGone, RoundInv
<1>4. CASE \/ CheckStop \/ PollPending \/ Accept
            \/ AdmitThrows \/ RefuseThrows \/ Report
  BY <1>4 DEF CheckStop, PollPending, Accept, AdmitThrows, RefuseThrows,
     Report, RoundInv
<1>5. CASE PollInvalidSocket \/ ServeCleared
  BY <1>5 DEF PollInvalidSocket, ServeCleared, Abort
<1>6. CASE PollNothing \/ AcceptFails \/ Admit \/ Refuse
  <2>1. StartServing(sessions')
    BY <1>6 DEF PollNothing, AcceptFails, Admit, Refuse
  <2>2. sessions' \in Seq(Sessions)
    BY DEF IInv, TypeOK
  <2>3. pc' = "serve" /\ idx' = 1 /\ Remaining(1)'
    BY <2>1, <2>2, StartRemaining
  <2>4. Remaining(idx)'
    BY <2>3
  <2> QED BY <2>2, <2>3, <2>4, LenProperties DEF RoundInv
<1>7. CASE ServeIdle \/ ServeError
  <2>1. /\ pc = "serve" /\ pc' = "check" /\ idx <= Len(sessions)
        /\ served' = Append(served, This.conn)
        /\ UNCHANGED <<mpc, idx, roster, sessions>>
    BY <1>7 DEF ServeIdle, ServeError, SessionUpdated
  <2>2. Remaining(idx)
    BY <2>1 DEF RoundInv
  <2>3. Remaining(idx + 1)'
    BY <2>1, <2>2, ServeRemaining
  <2> QED BY <2>1, <2>3 DEF RoundInv
<1>8. CASE ServeLines
  <2>0. \A lines : AgeAfter(lines) \in Age
    BY BoundsAssumption DEF AgeAfter, Age
  <2>1. /\ pc = "serve" /\ idx <= Len(sessions)
        /\ UNCHANGED <<mpc, idx, roster>>
        /\ \E a \in Age : sessions' = Aged(a)
        /\ \/ pc' = "top"
           \/ pc' = "check" /\ served' = Append(served, This.conn)
    <3>1. PICK n \in 1 .. Len(inbox[Holder]) :
            LET lines == SubSeq(inbox[Holder], 1, n) IN
              /\ sessions' = Aged(AgeAfter(lines))
              /\ IF Contains(lines, "bad")
                 THEN pc' = "top" /\ served' = served
                 ELSE SessionUpdated
      BY <1>8 DEF ServeLines
    <3>2. \E a \in Age : sessions' = Aged(a)
      BY <2>0, <3>1
    <3> QED BY <1>8, <3>1, <3>2 DEF ServeLines, SessionUpdated
  <2>2. /\ Len(sessions') = Len(sessions)
        /\ \A j \in 1 .. Len(sessions) : sessions'[j].conn = sessions[j].conn
    BY <2>1, AgedTypes, BoundsAssumption DEF IInv, Aged
  <2>3. Remaining(idx)
    BY <2>1 DEF RoundInv
  <2>4. CASE pc' = "top"
    BY <2>4 DEF RoundInv
  <2>5. CASE pc' = "check" /\ served' = Append(served, This.conn)
    <3>1. Remaining(idx + 1)'
      BY <2>1, <2>2, <2>3, <2>5, ServeRemaining
    <3> QED BY <2>1, <2>2, <2>5, <3>1 DEF RoundInv
  <2> QED BY <2>1, <2>4, <2>5
<1>9. CASE KeepSession
  <2>1. /\ pc = "check" /\ pc' = "serve" /\ idx <= Len(sessions)
        /\ idx' = idx + 1 /\ UNCHANGED <<mpc, roster, served, sessions>>
    BY <1>9 DEF KeepSession
  <2>2. Remaining(idx + 1)
    BY <2>1 DEF RoundInv
  <2>3. Remaining(idx)'
    BY <2>1, <2>2 DEF Remaining
  <2> QED BY <2>1, <2>3 DEF RoundInv, IInv, TypeOK
<1>10. CASE CloseSession
  <2>1. /\ pc = "check" /\ pc' = "erase" /\ idx <= Len(sessions)
        /\ UNCHANGED <<mpc, idx, roster, served, sessions>>
    BY <1>10 DEF CloseSession
  <2> QED BY <2>1 DEF RoundInv, Remaining
<1>11. CASE EraseSession
  <2>1. /\ pc = "erase" /\ pc' = "serve" /\ mpc = "idle" /\ idx <= Len(sessions)
        /\ sessions' = RemoveAt(sessions, idx) /\ idx' = idx
        /\ UNCHANGED <<served, roster>>
    BY <1>11 DEF EraseSession, Erased, IdxAfterErase, Invalidate
  <2>2. Remaining(idx + 1)
    BY <2>1 DEF RoundInv
  <2>3. idx' <= Len(sessions') + 1 /\ Remaining(idx)'
    BY <2>1, <2>2, EraseRemaining
  <2> QED BY <2>1, <2>3 DEF RoundInv
<1>12. CASE LoopDone
  <2>1. /\ pc = "serve" /\ pc' = "report" /\ idx > Len(sessions)
        /\ UNCHANGED <<mpc, idx, roster, served, sessions>>
    BY <1>12 DEF LoopDone
  <2>2. idx <= Len(sessions) + 1 /\ Remaining(idx)
    BY <2>1 DEF RoundInv
  <2>3. /\ served \in Seq(Conns) /\ roster \in Seq(Conns)
        /\ idx \in Nat /\ Len(sessions) \in Nat
    BY LenProperties DEF IInv, TypeOK
  <2>4. Len(roster) = Len(served)
    BY <2>1, <2>2, <2>3 DEF Remaining
  <2>5. served = roster
    BY <2>2, <2>3, <2>4, SeqEqual DEF Remaining
  <2> QED BY <2>1, <2>5 DEF RoundInv
<1>13. CASE Environment
  <2>1. CASE Tick
    <3>1. /\ Len(sessions') = Len(sessions)
          /\ \A j \in 1 .. Len(sessions) : sessions'[j].conn = sessions[j].conn
      <4>1. DOMAIN sessions = 1 .. Len(sessions)
        BY LenProperties DEF IInv, TypeOK
      <4>2. \A j \in 1 .. Len(sessions) : sessions[j] \in Sessions
        BY ElementOfSeq DEF IInv, TypeOK
      <4>3. \A j \in 1 .. Len(sessions) : sessions'[j].conn = sessions[j].conn
        BY <2>1, <4>1, <4>2 DEF Tick, Sessions
      <4> QED BY <2>1, <4>3, AgedTypes, BoundsAssumption DEF IInv
    <3>2. UNCHANGED <<mpc, pc, idx, roster, served>>
      BY <2>1 DEF Tick
    <3>3. ASSUME NEW next \in Nat \ {0}, Remaining(next)
          PROVE  Remaining(next)'
      <4>1. \A j \in next .. Len(sessions) : j \in 1 .. Len(sessions)
        OBVIOUS
      <4>2. ASSUME NEW j \in next .. Len(sessions')
            PROVE  sessions'[j].conn = roster'[Len(served') + 1 + j - next]
        <5>1. j \in next .. Len(sessions) /\ j \in 1 .. Len(sessions)
          BY <3>1, <4>1
        <5>2. sessions[j].conn = roster[Len(served) + 1 + j - next]
          BY <3>3, <5>1 DEF Remaining
        <5> QED BY <3>1, <3>2, <5>1, <5>2
      <4>3. Len(roster') = Len(served') + Len(sessions') + 1 - next
        BY <3>1, <3>2, <3>3 DEF Remaining
      <4>4. \A i \in 1 .. Len(served') : served'[i] = roster'[i]
        BY <3>2, <3>3 DEF Remaining
      <4> QED BY <4>2, <4>3, <4>4 DEF Remaining
    <3>4. idx \in Nat \ {0} /\ idx + 1 \in Nat \ {0}
      BY DEF IInv, TypeOK
    <3>5. (Remaining(idx) => Remaining(idx)')
          /\ (Remaining(idx + 1) => Remaining(idx + 1)')
      BY <3>2, <3>3, <3>4
    <3> QED BY <3>1, <3>2, <3>5 DEF RoundInv
  <2>2. CASE ~Tick
    <3>1. UNCHANGED <<mpc, pc, idx, roster, served, sessions>>
      BY <1>13, <2>2 DEF Environment, Connect, Send, Depart, ForeignOpen,
         ForeignClose
    <3> QED BY <3>1 DEF RoundInv, Remaining
  <2> QED BY <2>1, <2>2
<1>14. CASE UNCHANGED vars
  BY <1>14 DEF vars, RoundInv, Remaining
<1> QED
  BY <1>1, <1>2, <1>3, <1>4, <1>5, <1>6, <1>7, <1>8, <1>9, <1>10, <1>11,
     <1>12, <1>13, <1>14 DEF Next, ServerStep, Dead

\* What the walk over m_sessions maintains, from the first state on.
LEMMA RoundInvHolds == Spec => []RoundInv
<1>1. Init => RoundInv
  BY InitRoundInv
<1>2. IInv /\ IInv' /\ RoundInv /\ [Next]_vars => RoundInv'
  BY StepRoundInv
<1> QED BY <1>1, <1>2, IInvHolds, PTL DEF Spec

(* update(): unless shutdown() is under way, a round reports its statistics *)
(* only after it has updated every session that was there, exactly once and *)
(* in order, although sessions are erased from the vector it walks.        *)
THEOREM RoundServesEachHolds == Spec => []RoundServesEach
<1>1. RoundInv => RoundServesEach
  BY DEF RoundInv, RoundServesEach
<1> QED BY <1>1, RoundInvHolds, PTL

-----------------------------------------------------------------------------
(* TelnetServer implements SessionService: every step of the server, of its *)
(* caller, of the kernel and of the clients is a step of the service or     *)
(* leaves it alone.                                                        *)

(* The connections of a list of sessions.                                  *)
ConnsOf(ss) == [i \in DOMAIN ss |-> ss[i].conn]

\* The owners of a list of sessions are connections, one for each entry.
LEMMA ConnsOfTypes ==
  ASSUME NEW ss \in Seq(Sessions)
  PROVE  /\ ConnsOf(ss) \in Seq(Conns) /\ Len(ConnsOf(ss)) = Len(ss)
         /\ Len(ss) \in Nat
         /\ \A i \in 1 .. Len(ss) :
              ConnsOf(ss)[i] = ss[i].conn /\ ss[i].conn \in Conns
<1>1. Len(ss) \in Nat /\ DOMAIN ss = 1 .. Len(ss)
  BY LenProperties
<1>2. \A i \in 1 .. Len(ss) : ss[i] \in Sessions
  BY ElementOfSeq
<1> DEFINE n == Len(ss)
           e(i) == ss[i].conn
<1>3. ConnsOf(ss) = [i \in 1 .. n |-> e(i)]
  BY <1>1 DEF ConnsOf
<1>4. n \in Nat /\ \A i \in 1 .. n : e(i) \in Conns
  BY <1>1, <1>2 DEF Sessions
<1> HIDE DEF n, e
<1>5. ConnsOf(ss) \in Seq(Conns) /\ Len(ConnsOf(ss)) = n
  BY <1>3, <1>4
<1>6. \A i \in 1 .. n : ConnsOf(ss)[i] = e(i)
  BY <1>3
<1> QED BY <1>1, <1>4, <1>5, <1>6 DEF n, e

(* Two lists with the same connections serve the same.                     *)
LEMMA ConnsOfSame ==
  ASSUME NEW ss \in Seq(Sessions), NEW tt \in Seq(Sessions),
         Len(ss) = Len(tt),
         \A i \in 1 .. Len(ss) : ss[i].conn = tt[i].conn
  PROVE  ConnsOf(ss) = ConnsOf(tt)
BY ConnsOfTypes, SeqEqual

\* Appending a session appends its owner.
LEMMA ConnsOfAppend ==
  ASSUME NEW ss \in Seq(Sessions), NEW r \in Sessions
  PROVE  ConnsOf(Append(ss, r)) = Append(ConnsOf(ss), r.conn)
<1> DEFINE tt == Append(ss, r)
<1>1. /\ tt \in Seq(Sessions) /\ Len(tt) = Len(ss) + 1
      /\ \A i \in 1 .. Len(ss) : tt[i] = ss[i]
      /\ tt[Len(ss) + 1] = r
  BY AppendProperties
<1> HIDE DEF tt
<1>2. r.conn \in Conns
  BY DEF Sessions
<1>3. /\ ConnsOf(ss) \in Seq(Conns) /\ Len(ConnsOf(ss)) = Len(ss)
      /\ Len(ss) \in Nat
      /\ \A i \in 1 .. Len(ss) : ConnsOf(ss)[i] = ss[i].conn
  BY ConnsOfTypes
<1>4. /\ ConnsOf(tt) \in Seq(Conns) /\ Len(ConnsOf(tt)) = Len(ss) + 1
      /\ \A i \in 1 .. Len(ss) + 1 : ConnsOf(tt)[i] = tt[i].conn
  BY <1>1, ConnsOfTypes
<1> DEFINE uu == Append(ConnsOf(ss), r.conn)
<1>5. /\ uu \in Seq(Conns) /\ Len(uu) = Len(ss) + 1
      /\ \A i \in 1 .. Len(ss) : uu[i] = ConnsOf(ss)[i]
      /\ uu[Len(ss) + 1] = r.conn
  BY <1>2, <1>3, AppendProperties
<1> HIDE DEF uu
<1>6. \A i \in 1 .. Len(ss) + 1 : ConnsOf(tt)[i] = uu[i]
  BY <1>1, <1>3, <1>4, <1>5
<1>7. ConnsOf(tt) = uu
  BY <1>4, <1>5, <1>6, SeqEqual
<1> QED BY <1>7 DEF tt, uu

\* Erasing a session erases its owner.
LEMMA ConnsOfRemove ==
  ASSUME NEW ss \in Seq(Sessions), NEW k \in 1 .. Len(ss)
  PROVE  ConnsOf(RemoveAt(ss, k)) = RemoveAt(ConnsOf(ss), k)
<1> DEFINE tt == RemoveAt(ss, k)
           uu == RemoveAt(ConnsOf(ss), k)
<1>1. /\ tt \in Seq(Sessions) /\ Len(tt) = Len(ss) - 1
      /\ \A j \in 1 .. Len(ss) - 1 : tt[j] = IF j < k THEN ss[j] ELSE ss[j + 1]
  BY RemoveAtProperties
<1>2. /\ ConnsOf(ss) \in Seq(Conns) /\ Len(ConnsOf(ss)) = Len(ss)
      /\ Len(ss) \in Nat
      /\ \A i \in 1 .. Len(ss) : ConnsOf(ss)[i] = ss[i].conn
  BY ConnsOfTypes
<1>3. /\ uu \in Seq(Conns) /\ Len(uu) = Len(ss) - 1
      /\ \A j \in 1 .. Len(ss) - 1 :
           uu[j] = IF j < k THEN ConnsOf(ss)[j] ELSE ConnsOf(ss)[j + 1]
  BY <1>2, RemoveAtProperties
<1> HIDE DEF tt, uu
<1>4. /\ ConnsOf(tt) \in Seq(Conns) /\ Len(ConnsOf(tt)) = Len(ss) - 1
      /\ \A i \in 1 .. Len(ss) - 1 : ConnsOf(tt)[i] = tt[i].conn
  BY <1>1, ConnsOfTypes
<1>5. ASSUME NEW i \in 1 .. Len(ss) - 1
      PROVE  ConnsOf(tt)[i] = uu[i]
  <2>1. i \in 1 .. Len(ss) /\ i + 1 \in 1 .. Len(ss)
    BY <1>2
  <2>2. ConnsOf(ss)[i] = ss[i].conn /\ ConnsOf(ss)[i + 1] = ss[i + 1].conn
    BY <1>2, <2>1
  <2>3. tt[i] = IF i < k THEN ss[i] ELSE ss[i + 1]
    BY <1>1
  <2>4. uu[i] = IF i < k THEN ConnsOf(ss)[i] ELSE ConnsOf(ss)[i + 1]
    BY <1>3
  <2>5. ConnsOf(tt)[i] = tt[i].conn
    BY <1>4
  <2> QED BY <2>2, <2>3, <2>4, <2>5
<1>6. ConnsOf(tt) = uu
  BY <1>3, <1>4, <1>5, SeqEqual
<1> QED BY <1>6 DEF tt, uu

\* Serving is the owners of the list, before and after a step.
LEMMA ServingIs == Serving = ConnsOf(sessions) /\ Serving' = ConnsOf(sessions')
BY DEF Serving, ConnsOf

(* The connection in hand and those that wait behind it.                   *)
LEMMA WaitingTypes ==
  ASSUME TypeOK
  PROVE  /\ incoming = NoConn => Waiting = backlog
         /\ incoming # NoConn =>
              /\ incoming.conn \in Conns
              /\ Waiting # <<>> /\ Head(Waiting) = incoming.conn
              /\ Tail(Waiting) = backlog
              /\ SubSeq(Waiting, 1, 1) = <<incoming.conn>>
         /\ Waiting \in Seq(Conns) /\ SubSeq(Waiting, 1, 0) = <<>>
<1>1. backlog \in Seq(Conns)
  BY DEF TypeOK
<1>2. incoming # NoConn => incoming.conn \in Conns
  BY DEF TypeOK
<1>3. incoming = NoConn => Waiting = backlog
  BY <1>1, ConcatEmptySeq DEF Waiting, InHands
<1>4. incoming # NoConn => Waiting = <<incoming.conn>> \o backlog
  BY DEF Waiting, InHands
<1>5. SubSeq(Waiting, 1, 0) = <<>>
  BY SubSeqEmpty
<1> DEFINE c == incoming.conn
           w == <<c>> \o backlog
<1>6. c \in Conns =>
        /\ w \in Seq(Conns) /\ w # <<>> /\ Head(w) = c /\ Tail(w) = backlog
        /\ SubSeq(w, 1, 1) = <<c>>
  <2> HIDE DEF c
  <2> QED BY <1>1, PutInFront
<1>7. CASE incoming = NoConn
  BY <1>1, <1>3, <1>5, <1>7
<1>8. CASE incoming # NoConn
  <2>1. Waiting = w /\ c \in Conns
    BY <1>2, <1>4, <1>8
  <2> HIDE DEF w
  <2>2. /\ Waiting # <<>> /\ Head(Waiting) = c /\ Tail(Waiting) = backlog
        /\ SubSeq(Waiting, 1, 1) = <<c>> /\ Waiting \in Seq(Conns)
    BY <1>6, <2>1
  <2> QED BY <1>5, <1>8, <2>1, <2>2
<1> QED BY <1>7, <1>8

-----------------------------------------------------------------------------
(* Steps of the service.                                                   *)

\* A step that changes nothing the service knows of is a stutter.
LEMMA Stutters ==
  ASSUME UNCHANGED <<IsOpen, Arrived, Waiting, Serving>>
  PROVE  [Service!Next]_Service!vars
BY DEF Service!vars

\* Nothing the service knows of is touched.
LEMMA SameState ==
  ASSUME UNCHANGED <<fdTab, backlog, incoming, peer, sessions>>
  PROVE  [Service!Next]_Service!vars
<1>1. UNCHANGED <<IsOpen, Arrived, Waiting, Serving>>
  BY DEF IsOpen, Arrived, Waiting, InHands, Serving
<1> QED BY <1>1, Stutters

\* The next in the queue becomes a session.
LEMMA AdmitServes ==
  ASSUME IInv, pc = "admit", ~IsFull, NEW age \in Age,
         sessions' = AdmittedList(age), incoming' = NoConn,
         UNCHANGED <<fdTab, backlog, peer>>
  PROVE  [Service!Next]_Service!vars
<1>1. TypeOK /\ incoming # NoConn
  BY DEF IInv, InHand
<1>2. [conn |-> incoming.conn, fd |-> incoming.fd, age |-> age] \in Sessions
  BY <1>1 DEF TypeOK, Sessions
<1>3. sessions \in Seq(Sessions) /\ backlog \in Seq(Conns)
  BY <1>1 DEF TypeOK
<1>4. Serving' = Append(Serving, incoming.conn)
  BY <1>2, <1>3, ConnsOfAppend, ServingIs DEF AdmittedList
<1>5. Len(Serving) = Len(sessions) /\ Len(sessions) \in Nat
  BY <1>3, ConnsOfTypes, ServingIs
<1>6. Len(Serving) < MaxSession
  BY <1>5, BoundsAssumption DEF IsFull
<1>7. Waiting' = backlog
  BY <1>3, ConcatEmptySeq DEF Waiting, InHands
<1>8. Waiting # <<>> /\ Head(Waiting) = incoming.conn /\ Tail(Waiting) = backlog
  BY <1>1, WaitingTypes
<1>9. UNCHANGED <<IsOpen, Arrived>>
  BY DEF IsOpen, Arrived
<1> QED BY <1>4, <1>6, <1>7, <1>8, <1>9 DEF Service!Next, Service!Serve

\* The next in the queue is turned away, its connection closed or not.
LEMMA RefuseTurnsAway ==
  ASSUME IInv, pc = "admit", IsFull, incoming' = NoConn,
         fdTab' = fdTab \/ fdTab' = RefusedTable,
         UNCHANGED <<backlog, peer, sessions>>
  PROVE  [Service!Next]_Service!vars
<1>1. /\ TypeOK /\ incoming # NoConn /\ fdTab[incoming.fd] # "listen"
      /\ Len(sessions) <= MaxSession
  BY DEF IInv, InHand, Capacity
<1>2. sessions \in Seq(Sessions) /\ backlog \in Seq(Conns)
  BY <1>1 DEF TypeOK
<1>3. Len(Serving) = Len(sessions) /\ Len(sessions) \in Nat
  BY <1>2, ConnsOfTypes, ServingIs
<1>4. Len(Serving) = MaxSession
  BY <1>1, <1>3, BoundsAssumption DEF IsFull
<1>5. Waiting' = backlog
  BY <1>2, ConcatEmptySeq DEF Waiting, InHands
<1>6. Waiting # <<>> /\ Tail(Waiting) = backlog
  BY <1>1, WaitingTypes
<1>7. \A f \in Fds : fdTab'[f] = "listen" <=> fdTab[f] = "listen"
  BY <1>1 DEF RefusedTable, Closed
<1>8. UNCHANGED <<IsOpen, Arrived, Serving>>
  BY <1>7 DEF IsOpen, Arrived, Serving
<1> QED BY <1>4, <1>5, <1>6, <1>8 DEF Service!Next, Service!TurnAway

\* close() of anything but the listening socket is nothing to the service;
\* close() of the listening socket closes it.
LEMMA CloseCloses ==
  ASSUME IInv, NEW f, Close(f), UNCHANGED <<incoming, peer, sessions>>
  PROVE  [Service!Next]_Service!vars
<1>1. TypeOK /\ ListenOwned
  BY DEF IInv
<1>2. UNCHANGED <<Arrived, Serving>>
  BY DEF Arrived, Serving
<1>3. CASE f \in Fds /\ fdTab[f] = "listen"
  <2>1. IsOpen
    BY <1>3 DEF IsOpen
  <2>2. ~IsOpen'
    BY <1>1, <1>3 DEF Close, Closed, IsOpen, ListenOwned
  <2>3. Waiting' = InHands
    <3>1. backlog' = <<>> /\ InHands' = InHands
      BY <1>3 DEF Close, InHands
    <3>2. InHands \in Seq(Conns)
      BY <1>1 DEF TypeOK, InHands
    <3> QED BY <3>1, <3>2, ConcatEmptySeq DEF Waiting
  <2>4. Waiting' = SubSeq(Waiting, 1, 0) \/ Waiting' = SubSeq(Waiting, 1, 1)
    BY <1>1, <2>3, WaitingTypes DEF InHands
  <2>5. Service!Close
    BY <1>2, <2>1, <2>2, <2>4 DEF Service!Close
  <2> QED BY <2>5 DEF Service!Next
<1>4. CASE ~(f \in Fds /\ fdTab[f] = "listen")
  <2>1. backlog' = backlog
    BY <1>4 DEF Close
  <2>2. \A g \in Fds : fdTab'[g] = "listen" <=> fdTab[g] = "listen"
    BY <1>4 DEF Close, Closed
  <2>3. UNCHANGED <<IsOpen, Waiting>>
    BY <2>1, <2>2 DEF IsOpen, Waiting, InHands
  <2> QED BY <1>2, <2>3, Stutters
<1> QED BY <1>3, <1>4

-----------------------------------------------------------------------------

\* The initial states correspond.
LEMMA InitServes == Init => Service!Init
<1> SUFFICES ASSUME Init PROVE Service!Init
  OBVIOUS
<1>1. Serving = <<>>
  BY DEF Init, Serving
<1>2. Waiting = <<>>
  <2>1. incoming = NoConn /\ backlog = <<>>
    BY DEF Init
  <2>2. backlog \in Seq(Conns)
    BY <2>1
  <2> QED BY <2>1, <2>2, ConcatEmptySeq DEF Waiting, InHands
<1>3. Arrived = {} /\ IsOpen = FALSE
  BY DEF Init, Arrived, IsOpen
<1> QED BY <1>1, <1>2, <1>3 DEF Service!Init

(* What m_sessions holds, one by one.                                      *)
LEMMA EachIsSession ==
  ASSUME TypeOK
  PROVE  \A i \in DOMAIN sessions : sessions[i] \in Sessions
<1>1. sessions \in Seq(Sessions)
  BY DEF TypeOK
<1> QED BY <1>1, ElementOfSeq, LenProperties

\* One step of the server is at most one step of the service.
LEMMA StepServes == IInv /\ IInv' /\ [Next]_vars => [Service!Next]_Service!vars
<1> SUFFICES ASSUME IInv, IInv', [Next]_vars
             PROVE  [Service!Next]_Service!vars
  OBVIOUS
<1> USE DEF mainVars, threadVars, netVars, statVars, historyVars
<1>0. TypeOK /\ TypeOK' /\ ThreadOwned /\ ListenOwned /\ InHand
  BY DEF IInv
<1>1. CASE InitialiseOk
  <2>1. LowestFree \in Fds
    BY <1>1, LowestFreeIsFree DEF InitialiseOk, FreeFds
  <2>2. ~IsOpen /\ IsOpen'
    BY <1>0, <1>1, <2>1 DEF InitialiseOk, IsOpen, ListenOwned, TypeOK
  <2>3. UNCHANGED <<Arrived, Waiting, Serving>>
    BY <1>1 DEF InitialiseOk, Arrived, Waiting, InHands, Serving
  <2> QED BY <2>2, <2>3 DEF Service!Next, Service!Open
<1>2. CASE InitialiseBindFails \/ InitialiseNoSocket
  BY <1>2, SameState DEF InitialiseBindFails, InitialiseNoSocket
<1>3. CASE ShutdownBegin \/ ShutdownRequestStop \/ ShutdownJoin
  BY <1>3, SameState DEF ShutdownBegin, ShutdownRequestStop, ShutdownJoin
<1>4. CASE ShutdownCloseSession \/ ShutdownCloseListen
  BY <1>4, CloseCloses DEF ShutdownCloseSession, ShutdownCloseListen
<1>5. CASE ShutdownStaleElement
  BY <1>5, SameState DEF ShutdownStaleElement, Abort
<1>6. CASE ShutdownClear
  <2>1. Serving' = <<>>
    BY <1>6 DEF ShutdownClear, Serving
  <2>2. UNCHANGED <<IsOpen, Arrived, Waiting>>
    BY <1>6 DEF ShutdownClear, IsOpen, Arrived, Waiting, InHands
  <2> QED BY <2>1, <2>2 DEF Service!Next, Service!EndAll
<1>7. CASE CheckStop \/ PollInvalidSocket \/ PollPending \/ PollNothing
  BY <1>7, SameState DEF CheckStop, PollInvalidSocket, PollPending,
     PollNothing, Abort
<1>8. CASE Accept
  <2>1. LowestFree \in Fds /\ fdTab[LowestFree] = "free"
    BY <1>8, LowestFreeIsFree DEF Accept, FreeFds
  <2>2. incoming = NoConn /\ backlog # <<>> /\ backlog \in Seq(Conns)
    BY <1>0, <1>8 DEF Accept, InHand, TypeOK
  <2>3. /\ Head(backlog) \in Conns /\ Tail(backlog) \in Seq(Conns)
        /\ backlog = <<Head(backlog)>> \o Tail(backlog)
    BY <2>2, HeadTailProperties
  <2>4. incoming' = [conn |-> Head(backlog), fd |-> LowestFree]
        /\ backlog' = Tail(backlog)
    BY <1>8 DEF Accept
  <2>5. incoming' # NoConn /\ incoming'.conn = Head(backlog)
    BY <2>1, <2>3, <2>4, NoConnAssumption, BoundsAssumption DEF Fds
  <2>6. Waiting' = backlog /\ Waiting = backlog
    BY <1>0, <2>2, <2>3, <2>4, <2>5, WaitingTypes DEF Waiting, InHands
  <2>7. \A f \in Fds : fdTab'[f] = "listen" <=> fdTab[f] = "listen"
    BY <1>0, <1>8, <2>1, <2>3, NamesAssumption DEF Accept, TypeOK
  <2>8. UNCHANGED <<IsOpen, Arrived, Serving>>
    BY <1>8, <2>7 DEF Accept, IsOpen, Arrived, Serving
  <2> QED BY <2>6, <2>8, Stutters
<1>9. CASE AcceptFails
  BY <1>9, SameState DEF AcceptFails
<1>10. CASE Admit
  <2>1. 0 \in Age
    BY BoundsAssumption DEF Age
  <2> QED BY <1>10, <2>1, AdmitServes DEF Admit
<1>11. CASE AdmitThrows
  <2>1. Timeout + 1 \in Age
    BY BoundsAssumption DEF Age
  <2> QED BY <1>11, <2>1, AdmitServes DEF AdmitThrows
<1>12. CASE Refuse \/ RefuseThrows
  BY <1>12, RefuseTurnsAway DEF Refuse, RefuseThrows
<1>13. CASE ServeIdle
  BY <1>13, SameState DEF ServeIdle
<1>14. CASE ServeError \/ CloseSession
  BY <1>14, CloseCloses DEF ServeError, CloseSession
<1>15. CASE ServeLines
  <2>1. PICK lines \in Seq(Kinds) : sessions' = Aged(AgeAfter(lines))
    <3>1. PICK n \in 1 .. Len(inbox[Holder]) :
            sessions' = Aged(AgeAfter(SubSeq(inbox[Holder], 1, n)))
      BY <1>15 DEF ServeLines
    <3>2. Holder \in Conns /\ inbox[Holder] \in Seq(Kinds)
      BY <1>0, <1>15 DEF ServeLines, TypeOK
    <3>3. SubSeq(inbox[Holder], 1, n) \in Seq(Kinds)
      BY <3>1, <3>2, ElementOfSeq, LenProperties, SubSeqProperties
    <3> QED BY <3>1, <3>3
  <2>2. Serving' = Serving
    <3>1. /\ sessions \in Seq(Sessions) /\ sessions' \in Seq(Sessions)
          /\ DOMAIN sessions = 1 .. Len(sessions)
          /\ DOMAIN sessions' = 1 .. Len(sessions')
      BY <1>0, LenProperties DEF TypeOK
    <3>2. DOMAIN sessions' = DOMAIN sessions
      BY <2>1 DEF Aged
    <3>3. \A i \in DOMAIN sessions : sessions'[i].conn = sessions[i].conn
      <4>1. \A i \in DOMAIN sessions : sessions[i] \in Sessions
        BY <3>1, ElementOfSeq
      <4> QED BY <2>1, <4>1 DEF Aged, Sessions
    <3> QED BY <3>2, <3>3 DEF Serving
  <2>3. UNCHANGED <<IsOpen, Arrived, Waiting>>
    BY <1>15 DEF ServeLines, IsOpen, Arrived, Waiting, InHands
  <2> QED BY <2>2, <2>3, Stutters
<1>16. CASE ServeCleared
  BY <1>16, SameState DEF ServeCleared, Abort
<1>17. CASE KeepSession \/ LoopDone \/ Report
  BY <1>17, SameState DEF KeepSession, LoopDone, Report
<1>18. CASE EraseSession
  <2>1. /\ sessions \in Seq(Sessions) /\ idx \in 1 .. Len(sessions)
        /\ sessions' = RemoveAt(sessions, idx)
    BY <1>0, <1>18, LenProperties DEF EraseSession, Erased, TypeOK
  <2>2. Serving' = RemoveAt(Serving, idx) /\ Len(Serving) = Len(sessions)
    BY <2>1, ConnsOfRemove, ConnsOfTypes, ServingIs
  <2>3. UNCHANGED <<IsOpen, Arrived, Waiting>>
    BY <1>18 DEF EraseSession, IsOpen, Arrived, Waiting, InHands
  <2>4. Service!End
    BY <2>1, <2>2, <2>3 DEF Service!End, RemoveAt, Service!RemoveAt
  <2> QED BY <2>4 DEF Service!Next
<1>19. ASSUME NEW c \in Conns, Connect(c)
       PROVE  [Service!Next]_Service!vars
  <2>1. IsOpen /\ c \notin Arrived /\ Arrived' = Arrived \cup {c}
    BY <1>0, <1>19 DEF Connect, IsOpen, Arrived, TypeOK
  <2>2. Waiting' = Append(Waiting, c)
    <3>1. backlog \in Seq(Conns) /\ InHands \in Seq(Conns)
      BY <1>0 DEF TypeOK, InHands
    <3>2. backlog' = backlog \o <<c>> /\ <<c>> \in Seq(Conns)
      BY <1>19, <3>1, AppendIsConcat DEF Connect
    <3>3. Waiting' = InHands \o (backlog \o <<c>>)
      BY <1>19, <3>2 DEF Connect, Waiting, InHands
    <3>4. Waiting' = Waiting \o <<c>>
      BY <3>1, <3>2, <3>3, ConcatAssociative DEF Waiting
    <3>5. Waiting \in Seq(Conns)
      BY <1>0, WaitingTypes
    <3> QED BY <3>4, <3>5, AppendIsConcat
  <2>3. UNCHANGED <<IsOpen, Serving>>
    BY <1>19 DEF Connect, IsOpen, Serving
  <2> QED BY <2>1, <2>2, <2>3 DEF Service!Next, Service!Arrive
<1>20. ASSUME NEW c \in Conns, NEW k \in Kinds, Send(c, k)
       PROVE  [Service!Next]_Service!vars
  BY <1>20, SameState DEF Send
<1>21. ASSUME NEW c \in Conns, NEW how \in PeerEnds, Depart(c, how)
       PROVE  [Service!Next]_Service!vars
  <2>1. Arrived' = Arrived
    BY <1>0, <1>21, InputsAssumption DEF Depart, Arrived, TypeOK
  <2>2. UNCHANGED <<IsOpen, Waiting, Serving>>
    BY <1>21 DEF Depart, IsOpen, Waiting, InHands, Serving
  <2> QED BY <2>1, <2>2, Stutters
<1>22. ASSUME NEW p \in Foreign, ForeignOpen(p) \/ ForeignClose(p)
       PROVE  [Service!Next]_Service!vars
  <2>1. \A f \in Fds : fdTab'[f] = "listen" <=> fdTab[f] = "listen"
    <3>1. p # "listen"
      BY NamesAssumption
    <3>2. CASE ForeignOpen(p)
      <4>1. LowestFree \in Fds /\ fdTab[LowestFree] = "free"
        BY <3>2, LowestFreeIsFree DEF ForeignOpen, FreeFds
      <4> QED BY <1>0, <3>1, <3>2, <4>1 DEF ForeignOpen, TypeOK
    <3>3. CASE ForeignClose(p)
      BY <3>1, <3>3 DEF ForeignClose, Closed
    <3> QED BY <1>22, <3>2, <3>3
  <2>2. UNCHANGED <<IsOpen, Arrived, Waiting, Serving>>
    BY <1>22, <2>1 DEF ForeignOpen, ForeignClose, IsOpen, Arrived, Waiting,
       InHands, Serving
  <2> QED BY <2>2, Stutters
<1>23. CASE Tick
  <2>1. \A i \in DOMAIN sessions : sessions'[i].conn = sessions[i].conn
    <3>1. \A i \in DOMAIN sessions : sessions[i] \in Sessions
      BY <1>0, EachIsSession
    <3> QED BY <1>23, <3>1 DEF Tick, Sessions
  <2>2. DOMAIN sessions' = DOMAIN sessions
    BY <1>23 DEF Tick
  <2>3. Serving' = Serving
    BY <2>1, <2>2 DEF Serving
  <2>4. UNCHANGED <<IsOpen, Arrived, Waiting>>
    BY <1>23 DEF Tick, IsOpen, Arrived, Waiting, InHands
  <2> QED BY <2>3, <2>4, Stutters
<1>24. CASE UNCHANGED vars
  BY <1>24, SameState DEF vars
<1> QED
  BY <1>1, <1>2, <1>3, <1>4, <1>5, <1>6, <1>7, <1>8, <1>9, <1>10, <1>11,
     <1>12, <1>13, <1>14, <1>15, <1>16, <1>17, <1>18, <1>19, <1>20, <1>21,
     <1>22, <1>23, <1>24
  DEF Next, InitialiseStep, ShutdownStep, ServerStep, Environment, Dead

(* The server thread, shutdown(), the kernel and the clients together do    *)
(* what SessionService promises: clients are admitted in the order they     *)
(* connected, at most MaxSession at a time, and refused only when there are *)
(* as many.                                                                *)
THEOREM ServiceImplemented == Spec => ImplementsService
<1>1. Init => Service!Init
  BY InitServes
<1>2. IInv /\ IInv' /\ [Next]_vars => [Service!Next]_Service!vars
  BY StepServes
<1> QED BY <1>1, <1>2, IInvHolds, PTL DEF Spec, ImplementsService, Service!Spec

-----------------------------------------------------------------------------
(***************************************************************************)
(* Who owns which descriptor of the server: where each connection is from  *)
(* the kernel's backlog to its session, that no descriptor is lost or      *)
(* closed by another than its owner, and what shutdown() leaves open.      *)
(***************************************************************************)

(* What the types say, in the form the steps below use it.                 *)
LEMMA Typed ==
  ASSUME TypeOK
  PROVE  /\ Len(sessions) \in Nat /\ DOMAIN sessions = 1 .. Len(sessions)
         /\ \A i \in 1 .. Len(sessions) :
              sessions[i].conn \in Conns /\ sessions[i].fd \in Fds
         /\ Len(backlog) \in Nat
         /\ \A i \in 1 .. Len(backlog) : backlog[i] \in Conns
         /\ incoming # NoConn => incoming.conn \in Conns /\ incoming.fd \in Fds
<1>1. sessions \in Seq(Sessions) /\ backlog \in Seq(Conns)
  BY DEF TypeOK
<1>2. \A i \in 1 .. Len(backlog) : backlog[i] \in Conns
  BY <1>1, ElementOfSeq
<1>3. incoming # NoConn => incoming.conn \in Conns /\ incoming.fd \in Fds
  BY DEF TypeOK
<1> QED BY <1>1, <1>2, <1>3, SessionTypes, LenProperties

\* The sessions are the same but for their ages.
SameNames ==
  /\ Len(sessions') = Len(sessions)
  /\ \A i \in 1 .. Len(sessions) : /\ sessions'[i].conn = sessions[i].conn
                                   /\ sessions'[i].fd = sessions[i].fd

\* No connection changes hands.
SameHolders ==
  \A f \in Fds : fdTab[f] \in Conns \/ fdTab'[f] \in Conns
                   => fdTab'[f] = fdTab[f]

(* A step that leaves every connection where it is.                        *)
LEMMA NothingMoves ==
  ASSUME IInv, TypeOK', DescriptorInv, SameNames, SameHolders,
         UNCHANGED <<stage, backlog, incoming>>,
         \A c \in Conns : /\ peer'[c] = "none" <=> peer[c] = "none"
                          /\ peer[c] = "rst" => peer'[c] = "rst",
         pc' = "erase" => pc = "erase" /\ idx' = idx,
         mpc' = "closing" => \/ mpc = "closing" /\ closing' = closing
                             \/ closing' = [from |-> 1, to |-> Len(sessions)],
         shuts' = 0 => /\ shuts = 0 /\ mpc' \in {mpc, "aborted"}
                       /\ pc = "erase" /\ idx <= Len(sessions)
                            => pc' = "erase" /\ idx' = idx
  PROVE  DescriptorInv'
<1> USE DEF DescriptorInv, SameNames, SameHolders
<1>0. /\ Len(sessions) \in Nat /\ DOMAIN sessions = 1 .. Len(sessions)
      /\ DOMAIN sessions' = 1 .. Len(sessions)
      /\ \A i \in 1 .. Len(sessions) :
           sessions[i].conn \in Conns /\ sessions[i].fd \in Fds
      /\ incoming # NoConn => incoming.conn \in Conns /\ incoming.fd \in Fds
  <2>1. DOMAIN sessions' = 1 .. Len(sessions')
    BY LenProperties DEF TypeOK
  <2> QED BY <2>1, Typed DEF IInv
<1>1. \A c \in Conns :
        /\ \A f \in Fds : fdTab'[f] = c <=> fdTab[f] = c
        /\ IsClosed(c)' <=> IsClosed(c)
        /\ HasSession(c)' <=> HasSession(c)
  BY <1>0 DEF IsClosed, HasSession
<1>2. Waits'
  BY DEF Places, Waits
<1>3. Holds'
  BY <1>0, <1>1 DEF Places, Holds, HoldsAtMost
<1>4. Names'
  BY <1>0, <1>1 DEF Places, Names, HoldsAtMost
<1>5. ClosedInTime'
  <2>0. \A i \in 1 .. Len(sessions) :
          IsClosed(sessions[i].conn) =>
            \A f \in Fds : fdTab'[f] # sessions'[i].conn
    BY <1>0, <1>1 DEF IsClosed
  <2>1. ASSUME pc' = "erase", idx' <= Len(sessions')
        PROVE  \A f \in Fds : fdTab'[f] # sessions'[idx'].conn
    <3>1. idx \in 1 .. Len(sessions) /\ idx' = idx /\ pc = "erase"
      BY <1>0, <2>1 DEF IInv, TypeOK
    <3>2. IsClosed(sessions[idx].conn)
      BY <3>1 DEF ClosedInTime
    <3> QED BY <2>0, <3>1, <3>2
  <2>2. ASSUME mpc' = "closing"
        PROVE  /\ closing'.to = Len(sessions')
               /\ \A i \in 1 .. Len(sessions') : i < closing'.from =>
                    \A f \in Fds : fdTab'[f] # sessions'[i].conn
    <3>1. CASE mpc = "closing" /\ closing' = closing
      BY <2>0, <3>1 DEF ClosedInTime
    <3>2. CASE closing' = [from |-> 1, to |-> Len(sessions)]
      BY <1>0, <3>2
    <3> QED BY <2>2, <3>1, <3>2
  <2> QED BY <2>1, <2>2 DEF ClosedInTime, IsClosed
<1>6. OpenInTime'
  <2> SUFFICES ASSUME shuts' = 0 PROVE OpenInTime'
    BY DEF OpenInTime
  <2>1. NoneReset' => NoneReset
    BY DEF NoneReset, InStage
  <2>2. mpc' \in {"idle", "aborted"}
    BY DEF OpenInTime
  <2>3. incoming' # NoConn => fdTab'[incoming'.fd] = incoming'.conn
    BY <1>0, <1>1 DEF OpenInTime
  <2>4. ASSUME NoneReset', NEW i \in 1 .. Len(sessions')
        PROVE  \/ pc' = "erase" /\ i = idx'
               \/ fdTab'[sessions'[i].fd] = sessions'[i].conn
    <3>1. i \in 1 .. Len(sessions)
      OBVIOUS
    <3>2. \/ pc = "erase" /\ i = idx
          \/ fdTab[sessions[i].fd] = sessions[i].conn
      BY <2>1, <2>4, <3>1 DEF OpenInTime
    <3> QED BY <1>0, <1>1, <3>1, <3>2
  <2>5. \A c \in Conns : stage'[c] = "admitted" => IsClosed(c)' \/ HasSession(c)'
    BY <1>1 DEF OpenInTime
  <2> QED BY <2>2, <2>3, <2>4, <2>5 DEF OpenInTime
<1>7. TakenInHand'
  BY DEF TakenInHand
<1> QED BY <1>2, <1>3, <1>4, <1>5, <1>6, <1>7 DEF Places

(* close(): every connection that keeps its descriptor keeps its place, and *)
(* only pending connections are dropped.                                   *)
LEMMA CloseFrees ==
  ASSUME IInv, Places, NEW f, Close(f), UNCHANGED <<incoming, peer, sessions>>
  PROVE  /\ Places'
         /\ \A g \in Fds : fdTab'[g] = IF g = f THEN "free" ELSE fdTab[g]
         /\ \A c \in Conns : \/ stage'[c] = stage[c]
                             \/ stage[c] = "pending" /\ stage'[c] = "dropped"
         /\ \A c \in Conns : IsClosed(c) => IsClosed(c)'
<1>0. TypeOK
  BY DEF IInv
<1>1. \A g \in Fds : fdTab'[g] = IF g = f THEN "free" ELSE fdTab[g]
  BY DEF Close, Closed
<1>2. /\ \A c \in Conns : \/ stage'[c] = stage[c]
                          \/ stage[c] = "pending" /\ stage'[c] = "dropped"
      /\ \/ backlog' = <<>>
         \/ backlog' = backlog /\ stage' = stage
  <2>1. CASE f \in Fds /\ fdTab[f] = "listen"
    <3>0. backlog' = <<>>
      BY <2>1 DEF Close
    <3>1. stage' = [c \in Conns |-> IF Contains(backlog, c) THEN "dropped"
                                    ELSE stage[c]]
      BY <2>1 DEF Close
    <3>2. ASSUME NEW c \in Conns
          PROVE  \/ stage'[c] = stage[c]
                 \/ stage[c] = "pending" /\ stage'[c] = "dropped"
      <4>1. Contains(backlog, c) => stage[c] = "pending"
        BY <1>0, Typed DEF Contains, Places, Waits
      <4>2. stage'[c] = IF Contains(backlog, c) THEN "dropped" ELSE stage[c]
        BY <3>1
      <4> QED BY <4>1, <4>2
    <3> QED BY <3>0, <3>2
  <2>2. CASE ~(f \in Fds /\ fdTab[f] = "listen")
    BY <2>2 DEF Close
  <2> QED BY <2>1, <2>2
<1>3. Waits'
  BY <1>2 DEF Places, Waits
<1>4. \A g \in Fds : fdTab'[g] \in Conns => fdTab'[g] = fdTab[g]
  BY <1>1, NamesAssumption
<1>5. Holds'
  <2>1. ASSUME NEW g \in Fds, fdTab'[g] \in Conns
        PROVE  stage'[fdTab'[g]] \in {"taken", "admitted"}
               /\ \A h \in Fds : fdTab'[h] = fdTab'[g] => h = g
    <3>1. fdTab[g] \in Conns /\ fdTab'[g] = fdTab[g]
      BY <1>4, <2>1
    <3>2. stage[fdTab[g]] \in {"taken", "admitted"} /\ HoldsAtMost(fdTab[g], g)
      BY <3>1 DEF Places, Holds
    <3> QED BY <1>2, <1>4, <3>1, <3>2 DEF HoldsAtMost
  <2>2. ASSUME incoming # NoConn
        PROVE  stage'[incoming.conn] = "taken"
               /\ \A h \in Fds : fdTab'[h] = incoming.conn => h = incoming.fd
    <3>1. incoming.conn \in Conns
      BY <1>0, <2>2, Typed
    <3>2. stage[incoming.conn] = "taken" /\ HoldsAtMost(incoming.conn, incoming.fd)
      BY <2>2 DEF Places, Holds
    <3> QED BY <1>2, <1>4, <3>1, <3>2 DEF HoldsAtMost
  <2> QED BY <2>1, <2>2 DEF Holds, HoldsAtMost
<1>6. Names'
  <2>1. ASSUME NEW i \in 1 .. Len(sessions)
        PROVE  stage'[sessions[i].conn] = "admitted"
               /\ \A h \in Fds :
                    fdTab'[h] = sessions[i].conn => h = sessions[i].fd
    <3>1. sessions[i].conn \in Conns
      BY <1>0, Typed
    <3>2. stage[sessions[i].conn] = "admitted"
          /\ HoldsAtMost(sessions[i].conn, sessions[i].fd)
      BY DEF Places, Names
    <3> QED BY <1>2, <1>4, <3>1, <3>2 DEF HoldsAtMost
  <2> QED BY <2>1 DEF Places, Names, HoldsAtMost
<1>7. \A c \in Conns : IsClosed(c) => IsClosed(c)'
  BY <1>4 DEF IsClosed
<1> QED BY <1>1, <1>2, <1>3, <1>5, <1>6, <1>7 DEF Places

(* close() of a connection on its way to m_sessions.erase(), or by           *)
(* shutdown(): what the other sessions hold is untouched.                  *)
LEMMA ClosedByServing ==
  ASSUME IInv, DescriptorInv, CloseSession
  PROVE  DescriptorInv'
<1> USE DEF DescriptorInv
<1>0. TypeOK /\ InHand
  BY DEF IInv
<1>1. /\ Close(This.fd) /\ pc = "check" /\ pc' = "erase"
      /\ idx <= Len(sessions) /\ idx' = idx
      /\ UNCHANGED <<mpc, closing, shuts, incoming, sessions, peer>>
  BY DEF CloseSession, mainVars
<1>2. /\ Places'
      /\ \A g \in Fds : fdTab'[g] = IF g = This.fd THEN "free" ELSE fdTab[g]
      /\ \A c \in Conns : \/ stage'[c] = stage[c]
                          \/ stage[c] = "pending" /\ stage'[c] = "dropped"
      /\ \A c \in Conns : IsClosed(c) => IsClosed(c)'
  BY <1>1, CloseFrees
<1>3. /\ idx \in 1 .. Len(sessions) /\ This = sessions[idx]
      /\ This.conn \in Conns /\ This.fd \in Fds
      /\ Len(sessions) \in Nat /\ DOMAIN sessions = 1 .. Len(sessions)
      /\ \A i \in 1 .. Len(sessions) : sessions[i].conn \in Conns
      /\ incoming = NoConn
  <2>1. idx \in 1 .. Len(sessions)
    BY <1>0, <1>1, Typed DEF TypeOK
  <2>2. incoming = NoConn
    BY <1>0, <1>1 DEF InHand
  <2> QED BY <1>0, <2>1, <2>2, Typed DEF This
<1>4. \A f \in Fds : fdTab'[f] # sessions[idx].conn
  <2>1. HoldsAtMost(sessions[idx].conn, sessions[idx].fd)
    BY <1>3 DEF Places, Names
  <2> QED BY <1>2, <1>3, <2>1, NamesAssumption DEF HoldsAtMost
<1>5. ClosedInTime'
  <2>1. mpc = "closing" =>
          /\ closing.to = Len(sessions)
          /\ \A i \in 1 .. Len(sessions) : i < closing.from =>
               \A f \in Fds : fdTab'[f] # sessions[i].conn
    BY <1>2, <1>3 DEF ClosedInTime, IsClosed
  <2> QED BY <1>1, <1>4, <2>1 DEF ClosedInTime, IsClosed
<1>6. OpenInTime'
  <2> SUFFICES ASSUME shuts = 0 PROVE OpenInTime'
    BY <1>1 DEF OpenInTime
  <2>1. NoneReset' => NoneReset
    BY <1>1, <1>2 DEF NoneReset, InStage
  <2>2. ASSUME NoneReset', NEW i \in 1 .. Len(sessions)
        PROVE  i = idx \/ fdTab'[sessions[i].fd] = sessions[i].conn
    <3> SUFFICES ASSUME i # idx PROVE fdTab'[sessions[i].fd] = sessions[i].conn
      OBVIOUS
    <3>1. /\ fdTab[sessions[i].fd] = sessions[i].conn
          /\ fdTab[This.fd] = This.conn
      BY <1>1, <1>3, <2>1, <2>2 DEF OpenInTime
    <3>2. sessions[i].conn # This.conn
      BY <1>3 DEF Places, Names
    <3>3. sessions[i].fd \in Fds
      BY <1>0, Typed
    <3> QED BY <1>2, <3>1, <3>2, <3>3
  <2>3. ASSUME NEW c \in Conns, stage'[c] = "admitted"
        PROVE  IsClosed(c)' \/ HasSession(c)'
    <3>1. stage[c] = "admitted"
      BY <1>2, <2>3
    <3>2. IsClosed(c) \/ HasSession(c)
      BY <3>1 DEF OpenInTime
    <3> QED BY <1>1, <1>2, <3>2 DEF HasSession
  <2> QED BY <1>1, <1>3, <2>2, <2>3 DEF OpenInTime
<1>7. TakenInHand'
  BY <1>1, <1>2 DEF TakenInHand
<1> QED BY <1>2, <1>5, <1>6, <1>7

(* recv() fails: only after a reset does a session close a descriptor       *)
(* outside closeClient().                                                  *)
LEMMA ClosedByError ==
  ASSUME IInv, DescriptorInv, ServeError
  PROVE  DescriptorInv'
<1> USE DEF DescriptorInv
<1>0. TypeOK /\ InHand
  BY DEF IInv
<1>1. /\ Close(This.fd) /\ pc = "serve" /\ pc' = "check"
      /\ idx <= Len(sessions)
      /\ Holder \in Conns => peer[Holder] = "rst"
      /\ UNCHANGED <<mpc, closing, shuts, incoming, sessions, peer>>
  BY DEF ServeError, SessionUpdated, mainVars
<1>2. /\ Places'
      /\ \A c \in Conns : \/ stage'[c] = stage[c]
                          \/ stage[c] = "pending" /\ stage'[c] = "dropped"
      /\ \A c \in Conns : IsClosed(c) => IsClosed(c)'
  BY <1>1, CloseFrees
<1>3. /\ idx \in 1 .. Len(sessions) /\ This = sessions[idx]
      /\ This.conn \in Conns
      /\ \A i \in 1 .. Len(sessions) : sessions[i].conn \in Conns
      /\ incoming = NoConn
  <2>1. idx \in 1 .. Len(sessions)
    BY <1>0, <1>1, Typed DEF TypeOK
  <2>2. incoming = NoConn
    BY <1>0, <1>1 DEF InHand
  <2> QED BY <1>0, <2>1, <2>2, Typed DEF This
<1>4. ClosedInTime'
  <2>1. mpc = "closing" =>
          /\ closing.to = Len(sessions)
          /\ \A i \in 1 .. Len(sessions) : i < closing.from =>
               \A f \in Fds : fdTab'[f] # sessions[i].conn
    BY <1>2, <1>3 DEF ClosedInTime, IsClosed
  <2> QED BY <1>1, <2>1 DEF ClosedInTime, IsClosed
<1>5. OpenInTime'
  <2> SUFFICES ASSUME shuts = 0 PROVE OpenInTime'
    BY <1>1 DEF OpenInTime
  <2>1. NoneReset' => NoneReset
    BY <1>1, <1>2 DEF NoneReset, InStage
  <2>2. ~NoneReset
    <3> SUFFICES ASSUME NoneReset PROVE FALSE
      OBVIOUS
    <3>1. Holder = This.conn
      BY <1>1, <1>3 DEF OpenInTime, Holder
    <3>2. stage[This.conn] = "admitted"
      BY <1>3 DEF Places, Names
    <3> QED BY <1>1, <1>3, <3>1, <3>2 DEF NoneReset, InStage
  <2>3. ASSUME NEW c \in Conns, stage'[c] = "admitted"
        PROVE  IsClosed(c)' \/ HasSession(c)'
    <3>1. stage[c] = "admitted"
      BY <1>2, <2>3
    <3>2. IsClosed(c) \/ HasSession(c)
      BY <3>1 DEF OpenInTime
    <3> QED BY <1>1, <1>2, <3>2 DEF HasSession
  <2> QED BY <1>1, <1>3, <2>1, <2>2, <2>3 DEF OpenInTime
<1>6. TakenInHand'
  BY <1>1, <1>2 DEF TakenInHand
<1> QED BY <1>2, <1>4, <1>5, <1>6

(* The steps of shutdown() that close or forget something.                 *)
LEMMA ClosedByShutdown ==
  ASSUME IInv, DescriptorInv,
         ShutdownCloseSession \/ ShutdownCloseListen \/ ShutdownClear
  PROVE  DescriptorInv'
<1> USE DEF DescriptorInv
<1>0. TypeOK /\ TypeOK'
  <2>1. [Next]_vars
    BY DEF Next, ShutdownStep
  <2> QED BY <2>1, StepIInv DEF IInv
<1>1. mpc \in {"closing", "stale", "cleared"} /\ shuts' = shuts
  BY DEF ShutdownCloseSession, ShutdownCloseListen, ShutdownClear
<1>2. OpenInTime'
  BY <1>1 DEF OpenInTime
<1>3. CASE ShutdownCloseSession
  <2>1. /\ Close(sessions[closing.from].fd)
        /\ closing.from <= Len(sessions)
        /\ closing' = [closing EXCEPT !.from = @ + 1]
        /\ UNCHANGED <<mpc, pc, idx, incoming, sessions, peer>>
    BY <1>3 DEF ShutdownCloseSession, threadVars
  <2>2. /\ Places'
        /\ \A g \in Fds :
             fdTab'[g] = IF g = sessions[closing.from].fd THEN "free"
                         ELSE fdTab[g]
        /\ \A c \in Conns : \/ stage'[c] = stage[c]
                            \/ stage[c] = "pending" /\ stage'[c] = "dropped"
        /\ \A c \in Conns : IsClosed(c) => IsClosed(c)'
    BY <2>1, CloseFrees
  <2>3. /\ closing.from \in 1 .. Len(sessions)
        /\ closing'.from = closing.from + 1 /\ closing'.to = closing.to
        /\ \A i \in 1 .. Len(sessions) : sessions[i].conn \in Conns
        /\ idx \in Nat \ {0} /\ Len(sessions) \in Nat
    <3>1. /\ closing = [from |-> closing.from, to |-> closing.to]
          /\ closing.from \in Nat \ {0} /\ idx \in Nat \ {0}
      BY <1>0 DEF TypeOK
    <3>2. closing'.from = closing.from + 1 /\ closing'.to = closing.to
      BY <2>1, <3>1
    <3> QED BY <1>0, <2>1, <3>1, <3>2, Typed
  <2>4. \A f \in Fds : fdTab'[f] # sessions[closing.from].conn
    <3>1. HoldsAtMost(sessions[closing.from].conn, sessions[closing.from].fd)
      BY <2>3 DEF Places, Names
    <3> QED BY <2>2, <2>3, <3>1, NamesAssumption DEF HoldsAtMost
  <2>5. \A i \in 1 .. Len(sessions) :
          IsClosed(sessions[i].conn) =>
            \A f \in Fds : fdTab'[f] # sessions[i].conn
    BY <2>2, <2>3 DEF IsClosed
  <2>6. pc = "erase" /\ idx <= Len(sessions) =>
          \A f \in Fds : fdTab'[f] # sessions[idx].conn
    BY <2>3, <2>5 DEF ClosedInTime
  <2>7. ASSUME mpc = "closing", NEW i \in 1 .. Len(sessions),
               i < closing'.from
        PROVE  \A f \in Fds : fdTab'[f] # sessions[i].conn
    <3>1. i < closing.from \/ i = closing.from
      BY <2>3, <2>7
    <3> QED BY <2>4, <2>5, <2>7, <3>1 DEF ClosedInTime
  <2>8. mpc = "closing" => closing'.to = Len(sessions)
    BY <2>3 DEF ClosedInTime
  <2>9. ClosedInTime'
    BY <2>1, <2>6, <2>7, <2>8 DEF ClosedInTime, IsClosed
  <2>10. TakenInHand'
    BY <2>1, <2>2 DEF TakenInHand
  <2> QED BY <1>2, <2>2, <2>9, <2>10
<1>4. CASE ShutdownCloseListen
  <2>1. /\ Close(listenSocket) /\ mpc' = "listenClosed"
        /\ UNCHANGED <<pc, idx, incoming, sessions, peer>>
    BY <1>4 DEF ShutdownCloseListen, threadVars
  <2>2. /\ Places'
        /\ \A c \in Conns : \/ stage'[c] = stage[c]
                            \/ stage[c] = "pending" /\ stage'[c] = "dropped"
        /\ \A c \in Conns : IsClosed(c) => IsClosed(c)'
    BY <2>1, CloseFrees
  <2>3. pc = "erase" /\ idx <= Len(sessions) =>
          \A f \in Fds : fdTab'[f] # sessions[idx].conn
    <3>1. idx \in Nat \ {0}
      BY <1>0 DEF TypeOK
    <3>2. idx <= Len(sessions) => sessions[idx].conn \in Conns
      BY <1>0, <3>1, Typed
    <3> QED BY <2>2, <3>2 DEF ClosedInTime, IsClosed
  <2>4. ClosedInTime'
    BY <2>1, <2>3 DEF ClosedInTime, IsClosed
  <2>5. TakenInHand'
    BY <2>1, <2>2 DEF TakenInHand
  <2> QED BY <1>2, <2>2, <2>4, <2>5
<1>5. CASE ShutdownClear
  <2>1. /\ sessions' = <<>> /\ mpc' = "cleared"
        /\ UNCHANGED <<pc, idx, incoming, fdTab, stage, backlog, peer>>
    BY <1>5 DEF ShutdownClear, threadVars, netVars, historyVars
  <2>2. Len(sessions') = 0
    BY <2>1
  <2>3. Waits' /\ Holds' /\ TakenInHand'
    BY <2>1 DEF Places, Waits, Holds, HoldsAtMost, TakenInHand
  <2>4. Names'
    BY <2>2 DEF Names
  <2>5. ClosedInTime'
    <3>1. ~(idx' <= Len(sessions'))
      BY <1>0, <2>2 DEF TypeOK
    <3> QED BY <2>1, <3>1 DEF ClosedInTime
  <2> QED BY <1>2, <2>3, <2>4, <2>5 DEF Places
<1> QED BY <1>3, <1>4, <1>5

-----------------------------------------------------------------------------
(* accept() and what becomes of the connection it returns.                 *)

(* The oldest pending connection is in no descriptor yet.                  *)
LEMMA Accepting ==
  ASSUME IInv, DescriptorInv, Accept
  PROVE  DescriptorInv'
<1> USE DEF DescriptorInv
<1> DEFINE c == Head(backlog)
           f == LowestFree
<1>0. TypeOK /\ InHand
  BY DEF IInv
<1>1. /\ f \in Fds /\ fdTab[f] = "free"
  BY LowestFreeIsFree DEF Accept, FreeFds
<1>2. /\ backlog \in Seq(Conns) /\ backlog # <<>>
      /\ Len(backlog) \in Nat /\ Len(backlog) >= 1 /\ c = backlog[1] /\ c \in Conns
      /\ Tail(backlog) \in Seq(Conns) /\ Len(Tail(backlog)) = Len(backlog) - 1
      /\ \A i \in 1 .. Len(backlog) - 1 : Tail(backlog)[i] = backlog[i + 1]
  <2>1. backlog \in Seq(Conns) /\ backlog # <<>>
    BY <1>0 DEF Accept, InHand, TypeOK
  <2>2. Len(backlog) \in Nat /\ Len(backlog) >= 1
    BY <2>1, LenProperties, EmptySeq
  <2> QED BY <2>1, <2>2, HeadTailProperties, ElementOfSeq
<1> HIDE DEF c, f
<1>3. /\ pc = "accept" /\ pc' = "admit" /\ incoming = NoConn
      /\ incoming' = [conn |-> c, fd |-> f]
      /\ fdTab' = [fdTab EXCEPT ![f] = c]
      /\ stage' = [stage EXCEPT ![c] = "taken"]
      /\ backlog' = Tail(backlog)
      /\ UNCHANGED <<mpc, closing, shuts, idx, sessions, peer>>
  BY <1>0 DEF Accept, InHand, mainVars, c, f
<1>4. /\ fdTab \in [Fds -> Conns \cup Foreign \cup {"free", "listen"}]
      /\ \A g \in Fds : fdTab'[g] = IF g = f THEN c ELSE fdTab[g]
      /\ \A d \in Conns : stage'[d] = IF d = c THEN "taken" ELSE stage[d]
  <2>1. /\ fdTab \in [Fds -> Conns \cup Foreign \cup {"free", "listen"}]
        /\ stage \in [Conns -> {"new", "pending", "taken", "admitted",
                                "refused", "dropped"}]
    BY <1>0 DEF TypeOK
  <2> QED BY <1>3, <2>1
<1>5. stage[c] = "pending"
  BY <1>2 DEF Places, Waits
<1>6. IsClosed(c)
  BY <1>2, <1>5 DEF Places, Holds, IsClosed
<1>7. /\ Len(sessions) \in Nat /\ DOMAIN sessions = 1 .. Len(sessions)
      /\ \A i \in 1 .. Len(sessions) :
           /\ sessions[i].conn \in Conns /\ sessions[i].fd \in Fds
           /\ stage[sessions[i].conn] = "admitted" /\ sessions[i].conn # c
  BY <1>0, <1>5, Typed DEF Places, Names
<1>8. incoming' # NoConn /\ incoming'.conn = c /\ incoming'.fd = f
  <2>1. incoming' \in [conn : Conns, fd : Nat]
    BY <1>1, <1>2, <1>3, BoundsAssumption DEF Fds
  <2> QED BY <1>3, <2>1, NoConnAssumption
<1>9. Waits'
  <2>1. \A d \in Conns : stage'[d] = "new" <=> peer'[d] = "none"
    BY <1>3, <1>4, <1>5 DEF Places, Waits
  <2>2. \A i, j \in 1 .. Len(backlog') : backlog'[i] = backlog'[j] => i = j
    <3>1. ASSUME NEW i \in 1 .. Len(backlog'), NEW j \in 1 .. Len(backlog'),
                 backlog'[i] = backlog'[j]
          PROVE  i = j
      <4>1. /\ i + 1 \in 1 .. Len(backlog) /\ j + 1 \in 1 .. Len(backlog)
            /\ backlog[i + 1] = backlog[j + 1]
        BY <1>2, <1>3, <3>1
      <4>2. i + 1 = j + 1
        BY <4>1 DEF Places, Waits
      <4> QED BY <1>2, <1>3, <4>2
    <3> QED BY <3>1
  <2>3. ASSUME NEW i \in 1 .. Len(backlog')
        PROVE  stage'[backlog'[i]] = "pending"
    <3>1. /\ i + 1 \in 1 .. Len(backlog) /\ 1 \in 1 .. Len(backlog)
          /\ i + 1 # 1 /\ backlog'[i] = backlog[i + 1]
      BY <1>2, <1>3
    <3>2. backlog[i + 1] # c /\ stage[backlog[i + 1]] = "pending"
      BY <1>2, <3>1 DEF Places, Waits
    <3>3. backlog[i + 1] \in Conns
      BY <1>0, <3>1, Typed
    <3> QED BY <1>4, <3>1, <3>2, <3>3
  <2> QED BY <2>1, <2>2, <2>3 DEF Waits
<1>10. Holds'
  <2>1. ASSUME NEW g \in Fds, fdTab'[g] \in Conns
        PROVE  stage'[fdTab'[g]] \in {"taken", "admitted"}
               /\ \A h \in Fds : fdTab'[h] = fdTab'[g] => h = g
    <3>1. CASE g = f
      BY <1>4, <1>6, <2>1, <3>1 DEF IsClosed
    <3>2. CASE g # f
      <4>1. fdTab'[g] = fdTab[g] /\ fdTab[g] # c /\ fdTab[g] \in Conns
        BY <1>4, <1>6, <2>1, <3>2 DEF IsClosed
      <4>2. stage[fdTab[g]] \in {"taken", "admitted"} /\ HoldsAtMost(fdTab[g], g)
        BY <4>1 DEF Places, Holds
      <4> QED BY <1>4, <4>1, <4>2 DEF HoldsAtMost
    <3> QED BY <3>1, <3>2
  <2>2. stage'[incoming'.conn] = "taken"
        /\ \A h \in Fds : fdTab'[h] = incoming'.conn => h = incoming'.fd
    BY <1>2, <1>4, <1>6, <1>8 DEF IsClosed
  <2> QED BY <2>1, <2>2 DEF Holds, HoldsAtMost
<1>11. Names'
  BY <1>3, <1>4, <1>7 DEF Places, Names, HoldsAtMost
<1>12. ClosedInTime'
  BY <1>3, <1>4, <1>7 DEF ClosedInTime, IsClosed
<1>13. OpenInTime'
  <2> SUFFICES ASSUME shuts = 0 PROVE OpenInTime'
    BY <1>3 DEF OpenInTime
  <2>1. NoneReset' => NoneReset
    BY <1>3, <1>4, <1>5 DEF NoneReset, InStage
  <2>2. fdTab'[incoming'.fd] = incoming'.conn
    BY <1>1, <1>4, <1>8
  <2>3. ASSUME NoneReset', NEW i \in 1 .. Len(sessions)
        PROVE  fdTab'[sessions[i].fd] = sessions[i].conn
    <3>1. fdTab[sessions[i].fd] = sessions[i].conn
      BY <1>3, <2>1, <2>3 DEF OpenInTime
    <3>2. sessions[i].fd # f
      BY <1>1, <1>7, <3>1, NamesAssumption
    <3> QED BY <1>4, <1>7, <3>1, <3>2
  <2>4. ASSUME NEW d \in Conns, stage'[d] = "admitted"
        PROVE  IsClosed(d)' \/ HasSession(d)'
    <3>1. stage[d] = "admitted" /\ d # c
      BY <1>4, <2>4
    <3>2. IsClosed(d) \/ HasSession(d)
      BY <3>1 DEF OpenInTime
    <3> QED BY <1>3, <1>4, <3>1, <3>2 DEF HasSession, IsClosed
  <2> QED BY <1>3, <2>2, <2>3, <2>4 DEF OpenInTime
<1>14. TakenInHand'
  BY <1>3, <1>4, <1>8 DEF TakenInHand
<1> QED BY <1>9, <1>10, <1>11, <1>12, <1>13, <1>14 DEF Places

(* push_back: the connection in hand becomes the last session.             *)
LEMMA Admitting ==
  ASSUME IInv, TypeOK', DescriptorInv, pc = "admit", NEW age \in Age,
         sessions' = AdmittedList(age),
         stage' = [stage EXCEPT ![incoming.conn] = "admitted"],
         incoming' = NoConn, pc' \in {"serve", "top"}, Invalidate,
         UNCHANGED <<shuts, fdTab, backlog, peer>>
  PROVE  DescriptorInv'
<1> USE DEF DescriptorInv
<1> DEFINE c == incoming.conn
           n == Len(sessions)
<1>0. TypeOK /\ InHand /\ incoming # NoConn /\ c \in Conns /\ incoming.fd \in Fds
  BY Typed DEF IInv, InHand
<1>1. /\ n \in Nat /\ DOMAIN sessions = 1 .. n /\ DOMAIN sessions' = 1 .. n + 1
      /\ Len(sessions') = n + 1
      /\ \A i \in 1 .. n : sessions'[i] = sessions[i]
      /\ sessions'[n + 1].conn = c /\ sessions'[n + 1].fd = incoming.fd
  <2> DEFINE new == [conn |-> c, fd |-> incoming.fd, age |-> age]
  <2>1. new \in Sessions /\ new.conn = c /\ new.fd = incoming.fd
    BY <1>0 DEF Sessions
  <2>2. sessions' = Append(sessions, new) /\ sessions \in Seq(Sessions)
    BY <1>0 DEF AdmittedList, TypeOK
  <2> HIDE DEF new
  <2> QED BY <2>1, <2>2, AppendProperties, LenProperties
<1>2. \A d \in Conns : stage'[d] = IF d = c THEN "admitted" ELSE stage[d]
  BY <1>0 DEF TypeOK
<1> HIDE DEF c, n
<1>3. stage[c] = "taken" /\ HoldsAtMost(c, incoming.fd)
  BY <1>0 DEF Places, Holds, c
<1>4. \A i \in 1 .. n : /\ sessions[i].conn \in Conns /\ sessions[i].fd \in Fds
                        /\ stage[sessions[i].conn] = "admitted"
                        /\ sessions[i].conn # c
                        /\ HoldsAtMost(sessions[i].conn, sessions[i].fd)
  BY <1>0, <1>3, Typed DEF Places, Names, n
<1>5. Waits'
  <2>1. \A i \in 1 .. Len(backlog) : backlog[i] \in Conns
    BY <1>0, Typed
  <2> QED BY <1>2, <1>3, <2>1 DEF Places, Waits
<1>6. Holds'
  BY <1>2 DEF Places, Holds, HoldsAtMost
<1>7. Names'
  <2>1. ASSUME NEW i \in 1 .. n + 1
        PROVE  /\ sessions'[i].conn \in Conns
               /\ stage'[sessions'[i].conn] = "admitted"
               /\ \A f \in Fds : fdTab[f] = sessions'[i].conn
                                   => f = sessions'[i].fd
    <3>1. i \in 1 .. n \/ i = n + 1
      BY <1>1
    <3> QED BY <1>0, <1>1, <1>2, <1>3, <1>4, <3>1 DEF HoldsAtMost, c
  <2>2. ASSUME NEW i \in 1 .. n + 1, NEW j \in 1 .. n + 1,
               sessions'[i].conn = sessions'[j].conn
        PROVE  i = j
    <3>1. (i \in 1 .. n \/ i = n + 1) /\ (j \in 1 .. n \/ j = n + 1)
      BY <1>1
    <3>2. CASE i \in 1 .. n /\ j \in 1 .. n
      <4>1. sessions[i].conn = sessions[j].conn
        BY <1>1, <2>2, <3>2
      <4> QED BY <3>2, <4>1 DEF Places, Names, n
    <3>3. CASE i = n + 1 \/ j = n + 1
      BY <1>1, <1>4, <2>2, <3>1, <3>3
    <3> QED BY <3>1, <3>2, <3>3
  <2> QED BY <1>1, <2>1, <2>2 DEF Names, HoldsAtMost
<1>8. ClosedInTime'
  BY DEF ClosedInTime, Invalidate
<1>9. OpenInTime'
  <2> SUFFICES ASSUME shuts = 0 PROVE OpenInTime'
    BY DEF OpenInTime
  <2>1. NoneReset' => NoneReset
    BY <1>2 DEF NoneReset, InStage
  <2>2. mpc' \in {"idle", "aborted"}
    BY DEF OpenInTime, Invalidate
  <2>3. ASSUME NoneReset', NEW i \in 1 .. n + 1
        PROVE  fdTab[sessions'[i].fd] = sessions'[i].conn
    <3>1. CASE i \in 1 .. n
      BY <1>1, <2>1, <2>3, <3>1 DEF OpenInTime, n
    <3>2. CASE i = n + 1
      BY <1>0, <1>1, <3>2 DEF OpenInTime, c
    <3> QED BY <1>1, <3>1, <3>2
  <2>4. ASSUME NEW d \in Conns, stage'[d] = "admitted"
        PROVE  IsClosed(d)' \/ HasSession(d)'
    <3>1. CASE d = c
      <4>1. n + 1 \in DOMAIN sessions'
        BY <1>1
      <4> QED BY <1>1, <3>1, <4>1 DEF HasSession
    <3>2. CASE d # c
      <4>1. IsClosed(d) \/ HasSession(d)
        BY <1>2, <2>4, <3>2 DEF OpenInTime
      <4> QED BY <1>1, <4>1 DEF HasSession, IsClosed
    <3> QED BY <3>1, <3>2
  <2> QED BY <1>1, <2>2, <2>3, <2>4 DEF OpenInTime
<1>10. TakenInHand'
  BY <1>2 DEF TakenInHand, c
<1> QED BY <1>5, <1>6, <1>7, <1>8, <1>9, <1>10 DEF Places

(* The refused connection is closed at once.                               *)
LEMMA Refusing ==
  ASSUME IInv, DescriptorInv, Refuse
  PROVE  DescriptorInv'
<1> USE DEF DescriptorInv
<1> DEFINE c == incoming.conn
           f == incoming.fd
<1>0. /\ TypeOK /\ InHand /\ incoming # NoConn /\ c \in Conns /\ f \in Fds
      /\ pc = "admit" /\ pc' = "serve" /\ incoming' = NoConn
      /\ fdTab' = Closed(f) /\ stage' = [stage EXCEPT ![c] = "refused"]
      /\ UNCHANGED <<mpc, closing, shuts, sessions, backlog, peer>>
  <2>1. TypeOK /\ InHand /\ pc = "admit" /\ incoming # NoConn
    BY DEF IInv, InHand, Refuse
  <2> QED BY <2>1, Typed
        DEF Refuse, RefusedTable, StartServing, mainVars, netVars
<1>1. /\ \A g \in Fds : fdTab'[g] = IF g = f THEN "free" ELSE fdTab[g]
      /\ \A d \in Conns : stage'[d] = IF d = c THEN "refused" ELSE stage[d]
  BY <1>0 DEF TypeOK, Closed
<1> HIDE DEF c, f
<1>2. stage[c] = "taken" /\ HoldsAtMost(c, f)
  BY <1>0 DEF Places, Holds, c, f
<1>3. \A g \in Fds : fdTab'[g] \in Conns => /\ fdTab'[g] = fdTab[g]
                                            /\ fdTab[g] # c
  BY <1>0, <1>1, <1>2, NamesAssumption DEF HoldsAtMost
<1>4. /\ Len(sessions) \in Nat /\ DOMAIN sessions = 1 .. Len(sessions)
      /\ \A i \in 1 .. Len(sessions) :
           /\ sessions[i].conn \in Conns /\ sessions[i].fd \in Fds
           /\ stage[sessions[i].conn] = "admitted" /\ sessions[i].conn # c
           /\ HoldsAtMost(sessions[i].conn, sessions[i].fd)
  BY <1>0, <1>2, Typed DEF Places, Names
<1>5. Waits'
  <2>1. \A i \in 1 .. Len(backlog) : backlog[i] \in Conns
    BY <1>0, Typed
  <2> QED BY <1>0, <1>1, <1>2, <2>1 DEF Places, Waits
<1>6. Holds'
  <2>1. ASSUME NEW g \in Fds, fdTab'[g] \in Conns
        PROVE  stage'[fdTab'[g]] \in {"taken", "admitted"}
               /\ \A h \in Fds : fdTab'[h] = fdTab'[g] => h = g
    <3>1. fdTab'[g] = fdTab[g] /\ fdTab[g] # c /\ fdTab[g] \in Conns
      BY <1>3, <2>1
    <3>2. stage[fdTab[g]] \in {"taken", "admitted"} /\ HoldsAtMost(fdTab[g], g)
      BY <3>1 DEF Places, Holds
    <3> QED BY <1>1, <1>3, <3>1, <3>2 DEF HoldsAtMost
  <2> QED BY <1>0, <2>1 DEF Holds, HoldsAtMost
<1>7. Names'
  BY <1>0, <1>1, <1>3, <1>4 DEF Places, Names, HoldsAtMost
<1>8. ClosedInTime'
  <2>1. \A i \in 1 .. Len(sessions) :
          IsClosed(sessions[i].conn) =>
            \A g \in Fds : fdTab'[g] # sessions[i].conn
    BY <1>3, <1>4 DEF IsClosed
  <2> QED BY <1>0, <2>1 DEF ClosedInTime, IsClosed
<1>9. OpenInTime'
  <2> SUFFICES ASSUME shuts = 0 PROVE OpenInTime'
    BY <1>0 DEF OpenInTime
  <2>1. NoneReset' => NoneReset
    BY <1>0, <1>1, <1>2 DEF NoneReset, InStage
  <2>2. ASSUME NoneReset', NEW i \in 1 .. Len(sessions)
        PROVE  fdTab'[sessions[i].fd] = sessions[i].conn
    <3>1. fdTab[sessions[i].fd] = sessions[i].conn
      BY <1>0, <2>1, <2>2 DEF OpenInTime
    <3>2. fdTab[f] = c
      BY <1>0 DEF OpenInTime, c, f
    <3> QED BY <1>1, <1>4, <3>1, <3>2
  <2>3. ASSUME NEW d \in Conns, stage'[d] = "admitted"
        PROVE  IsClosed(d)' \/ HasSession(d)'
    <3>1. stage[d] = "admitted"
      BY <1>1, <2>3
    <3>2. IsClosed(d) \/ HasSession(d)
      BY <3>1 DEF OpenInTime
    <3> QED BY <1>0, <1>3, <3>2 DEF HasSession, IsClosed
  <2> QED BY <1>0, <2>2, <2>3 DEF OpenInTime
<1>10. TakenInHand'
  BY <1>0, <1>1 DEF TakenInHand, c
<1> QED BY <1>5, <1>6, <1>7, <1>8, <1>9, <1>10 DEF Places

(* A callback throws on the temporary session: the connection is out of    *)
(* everyone's hands, which only such a callback brings about.              *)
LEMMA RefusingThrows ==
  ASSUME IInv, DescriptorInv, RefuseThrows
  PROVE  DescriptorInv'
<1> USE DEF DescriptorInv
<1>1. /\ "bad" \in Kinds /\ pc = "admit" /\ pc' = "top" /\ incoming' = NoConn
      /\ UNCHANGED <<mpc, closing, shuts, idx, sessions, fdTab, backlog, peer,
                     stage>>
  BY DEF RefuseThrows, mainVars, netVars, historyVars
<1>2. Places'
  BY <1>1 DEF Places, Waits, Holds, Names, HoldsAtMost
<1>3. ClosedInTime'
  BY <1>1 DEF ClosedInTime, IsClosed
<1>4. OpenInTime'
  BY <1>1 DEF OpenInTime, NoneReset, InStage, IsClosed, HasSession
<1>5. TakenInHand'
  BY <1>1 DEF TakenInHand
<1> QED BY <1>2, <1>3, <1>4, <1>5

(* erase(): only the session just closed goes, the others keep their names.  *)
LEMMA Erasing ==
  ASSUME IInv, DescriptorInv, EraseSession
  PROVE  DescriptorInv'
<1> USE DEF DescriptorInv
<1> DEFINE n == Len(sessions)
           from(i) == IF i < idx THEN i ELSE i + 1
<1>0. /\ TypeOK /\ InHand /\ pc = "erase" /\ pc' = "serve"
      /\ Invalidate /\ sessions' = RemoveAt(sessions, idx) /\ idx <= n
      /\ UNCHANGED <<shuts, incoming, fdTab, stage, backlog, peer>>
  BY DEF IInv, EraseSession, Erased, netVars, historyVars
<1>1. /\ n \in Nat /\ idx \in 1 .. n /\ DOMAIN sessions = 1 .. n
      /\ \A i \in 1 .. n : sessions[i].conn \in Conns /\ sessions[i].fd \in Fds
  <2>1. idx \in Nat \ {0}
    BY <1>0 DEF TypeOK
  <2> QED BY <1>0, <2>1, Typed
<1>2. /\ Len(sessions') = n - 1 /\ DOMAIN sessions' = 1 .. n - 1
      /\ \A i \in 1 .. n - 1 : sessions'[i] = sessions[from(i)]
  <2>1. sessions \in Seq(Sessions)
    BY <1>0 DEF TypeOK
  <2>2. /\ sessions' \in Seq(Sessions) /\ Len(sessions') = n - 1
        /\ \A i \in 1 .. n - 1 :
             sessions'[i] = IF i < idx THEN sessions[i] ELSE sessions[i + 1]
    BY <1>0, <1>1, <2>1, RemoveAtProperties
  <2>3. DOMAIN sessions' = 1 .. Len(sessions')
    BY <2>2, LenProperties
  <2>4. \A i \in 1 .. n - 1 : sessions'[i] = sessions[from(i)]
    BY <2>2
  <2> QED BY <2>2, <2>3, <2>4
<1>3. /\ \A i \in 1 .. n - 1 : from(i) \in 1 .. n /\ from(i) # idx
      /\ \A i, j \in 1 .. n - 1 : from(i) = from(j) => i = j
      /\ \A k \in 1 .. n : k # idx => \E i \in 1 .. n - 1 : from(i) = k
  <2>1. ASSUME NEW k \in 1 .. n, k # idx
        PROVE  \E i \in 1 .. n - 1 : from(i) = k
    <3>1. CASE k < idx
      <4>1. k \in 1 .. n - 1 /\ from(k) = k
        BY <1>1, <3>1
      <4> QED BY <4>1
    <3>2. CASE k > idx
      <4>1. k - 1 \in 1 .. n - 1 /\ from(k - 1) = k
        BY <1>1, <3>2
      <4> QED BY <4>1
    <3> QED BY <1>1, <2>1, <3>1, <3>2
  <2> QED BY <1>1, <2>1
<1> HIDE DEF n, from
<1>4. Waits' /\ Holds'
  BY <1>0 DEF Places, Waits, Holds, HoldsAtMost
<1>5. Names'
  <2>1. \A i \in 1 .. n - 1 : /\ stage[sessions'[i].conn] = "admitted"
                              /\ HoldsAtMost(sessions'[i].conn, sessions'[i].fd)
    BY <1>2, <1>3 DEF Places, Names, n
  <2>2. ASSUME NEW i \in 1 .. n - 1, NEW j \in 1 .. n - 1,
               sessions'[i].conn = sessions'[j].conn
        PROVE  i = j
    <3>1. /\ sessions[from(i)].conn = sessions[from(j)].conn
          /\ from(i) \in 1 .. n /\ from(j) \in 1 .. n
      BY <1>2, <1>3, <2>2
    <3>2. from(i) = from(j)
      BY <3>1 DEF Places, Names, n
    <3> QED BY <1>3, <3>2
  <2> QED BY <1>0, <1>2, <2>1, <2>2 DEF Names, HoldsAtMost
<1>6. ClosedInTime'
  BY <1>0 DEF ClosedInTime, Invalidate
<1>7. OpenInTime'
  <2> SUFFICES ASSUME shuts = 0 PROVE OpenInTime'
    BY <1>0 DEF OpenInTime
  <2>1. NoneReset' => NoneReset
    BY <1>0 DEF NoneReset, InStage
  <2>2. ASSUME NoneReset, NEW i \in 1 .. n - 1
        PROVE  fdTab[sessions'[i].fd] = sessions'[i].conn
    <3>1. from(i) \in 1 .. n /\ from(i) # idx /\ sessions'[i] = sessions[from(i)]
      BY <1>2, <1>3
    <3>2. fdTab[sessions[from(i)].fd] = sessions[from(i)].conn
      BY <2>2, <3>1 DEF OpenInTime, n
    <3> QED BY <3>1, <3>2
  <2>3. ASSUME NEW d \in Conns, stage[d] = "admitted"
        PROVE  IsClosed(d)' \/ HasSession(d)'
    <3>1. IsClosed(d) \/ HasSession(d)
      BY <2>3 DEF OpenInTime
    <3>2. CASE IsClosed(d)
      BY <1>0, <3>2 DEF IsClosed
    <3>3. CASE HasSession(d)
      <4>1. PICK k \in 1 .. n : sessions[k].conn = d
        BY <1>1, <3>3 DEF HasSession
      <4>2. CASE k = idx
        BY <1>0, <4>1, <4>2 DEF ClosedInTime, IsClosed, n
      <4>3. CASE k # idx
        BY <1>2, <1>3, <4>1, <4>3 DEF HasSession
      <4> QED BY <4>2, <4>3
    <3> QED BY <3>1, <3>2, <3>3
  <2>4. mpc' \in {"idle", "aborted"}
    BY <1>0 DEF OpenInTime, Invalidate
  <2>5. incoming' # NoConn => fdTab'[incoming'.fd] = incoming'.conn
    BY <1>0 DEF OpenInTime
  <2>6. \A d \in Conns : stage'[d] = "admitted" => IsClosed(d)' \/ HasSession(d)'
    BY <1>0, <2>3
  <2> QED BY <1>0, <1>2, <2>1, <2>2, <2>4, <2>5, <2>6 DEF OpenInTime
<1>8. TakenInHand'
  BY <1>0 DEF TakenInHand
<1> QED BY <1>4, <1>5, <1>6, <1>7, <1>8 DEF Places

(* A client connects: its connection is nowhere but in the backlog.        *)
LEMMA Connecting ==
  ASSUME IInv, DescriptorInv, NEW c \in Conns, Connect(c)
  PROVE  DescriptorInv'
<1> USE DEF DescriptorInv
<1>0. /\ TypeOK /\ peer[c] = "none" /\ peer' = [peer EXCEPT ![c] = "up"]
      /\ backlog' = Append(backlog, c)
      /\ stage' = [stage EXCEPT ![c] = "pending"]
      /\ UNCHANGED <<mpc, pc, idx, closing, shuts, incoming, sessions, fdTab>>
  BY DEF IInv, Connect, mainVars, threadVars
<1>1. /\ \A d \in Conns : stage'[d] = IF d = c THEN "pending" ELSE stage[d]
      /\ \A d \in Conns : peer'[d] = IF d = c THEN "up" ELSE peer[d]
  BY <1>0 DEF TypeOK
<1>2. stage[c] = "new"
  BY <1>0 DEF Places, Waits
<1>3. Waits'
  <2> DEFINE n == Len(backlog)
  <2>1. backlog \in Seq(Conns) /\ n \in Nat
    BY <1>0, LenProperties DEF TypeOK
  <2>2. /\ Len(backlog') = n + 1
        /\ \A i \in 1 .. n : backlog'[i] = backlog[i]
        /\ backlog'[n + 1] = c
    BY <1>0, <2>1, AppendProperties
  <2>3. \A i \in 1 .. n : /\ backlog[i] \in Conns /\ backlog[i] # c
                          /\ stage[backlog[i]] = "pending"
    BY <1>0, <1>2, Typed DEF Places, Waits
  <2> HIDE DEF n
  <2>4. \A i \in 1 .. n + 1 : i \in 1 .. n \/ i = n + 1
    BY <2>1
  <2>5. \A i \in 1 .. n + 1 : stage'[backlog'[i]] = "pending"
    BY <1>1, <2>2, <2>3, <2>4
  <2>6. \A i, j \in 1 .. n + 1 : backlog'[i] = backlog'[j] => i = j
    <3>1. ASSUME NEW i \in 1 .. n + 1, NEW j \in 1 .. n + 1,
                 backlog'[i] = backlog'[j]
          PROVE  i = j
      <4>1. CASE i \in 1 .. n /\ j \in 1 .. n
        <5>1. backlog[i] = backlog[j]
          BY <2>2, <3>1, <4>1
        <5> QED BY <4>1, <5>1 DEF Places, Waits, n
      <4>2. CASE i = n + 1 \/ j = n + 1
        BY <2>2, <2>3, <2>4, <3>1, <4>2
      <4> QED BY <2>4, <4>1, <4>2
    <3> QED BY <3>1
  <2>7. \A d \in Conns : stage'[d] = "new" <=> peer'[d] = "none"
    BY <1>1 DEF Places, Waits
  <2> QED BY <2>2, <2>5, <2>6, <2>7 DEF Waits
<1>4. Holds'
  <2>1. \A f \in Fds : fdTab[f] \in Conns => fdTab[f] # c
    BY <1>2 DEF Places, Holds
  <2>2. incoming # NoConn => incoming.conn \in Conns /\ incoming.conn # c
    BY <1>0, <1>2, Typed DEF Places, Holds
  <2> QED BY <1>0, <1>1, <2>1, <2>2 DEF Places, Holds, HoldsAtMost
<1>5. Names'
  <2>1. \A i \in 1 .. Len(sessions) : /\ sessions[i].conn \in Conns
                                      /\ sessions[i].conn # c
    BY <1>0, <1>2, Typed DEF Places, Names
  <2> QED BY <1>0, <1>1, <2>1 DEF Places, Names, HoldsAtMost
<1>6. ClosedInTime'
  BY <1>0 DEF ClosedInTime, IsClosed
<1>7. OpenInTime'
  <2>1. NoneReset' => NoneReset
    BY <1>0, <1>1, <1>2 DEF NoneReset, InStage
  <2> QED BY <1>0, <1>1, <2>1 DEF OpenInTime, HasSession, IsClosed
<1>8. TakenInHand'
  BY <1>0, <1>1 DEF TakenInHand
<1> QED BY <1>3, <1>4, <1>5, <1>6, <1>7, <1>8 DEF Places

-----------------------------------------------------------------------------
(* The invariant, one step per action or group of actions alike.           *)

\* It holds at first.
LEMMA InitDescriptorInv == Init => DescriptorInv
<1> SUFFICES ASSUME Init PROVE DescriptorInv
  OBVIOUS
<1>1. /\ Len(sessions) = 0 /\ Len(backlog) = 0 /\ incoming = NoConn
      /\ pc = "stopped" /\ mpc = "idle"
      /\ \A f \in Fds : fdTab[f] = "free"
      /\ \A c \in Conns : stage[c] = "new" /\ peer[c] = "none"
  BY DEF Init
<1>2. Places
  BY <1>1, NamesAssumption DEF Places, Waits, Holds, Names
<1>3. ClosedInTime /\ OpenInTime /\ TakenInHand
  BY <1>1 DEF ClosedInTime, OpenInTime, TakenInHand
<1> QED BY <1>2, <1>3 DEF DescriptorInv

(* recv() and the clock change nothing but ages.                           *)
LEMMA AgesOnly ==
  ASSUME TypeOK, Tick \/ ServeLines
  PROVE  SameNames
<1>1. /\ DOMAIN sessions = 1 .. Len(sessions) /\ Len(sessions) \in Nat
      /\ \A i \in 1 .. Len(sessions) : sessions[i] \in Sessions
      /\ idx \in Nat \ {0}
  BY LenProperties, ElementOfSeq DEF TypeOK
<1>2. CASE Tick
  <2>1. \A i \in 1 .. Len(sessions) : /\ sessions'[i].conn = sessions[i].conn
                                      /\ sessions'[i].fd = sessions[i].fd
    BY <1>1, <1>2 DEF Tick, Sessions
  <2>2. Len(sessions') = Len(sessions)
    BY <1>2, AgedTypes, BoundsAssumption
  <2> QED BY <2>1, <2>2 DEF SameNames
<1>3. CASE ServeLines
  <2>1. PICK a \in Age : sessions' = Aged(a)
    <3>1. \A lines : AgeAfter(lines) \in Age
      BY BoundsAssumption DEF AgeAfter, Age
    <3> QED BY <1>3, <3>1 DEF ServeLines
  <2>2. \A i \in 1 .. Len(sessions) : /\ sessions'[i].conn = sessions[i].conn
                                      /\ sessions'[i].fd = sessions[i].fd
    BY <1>1, <2>1 DEF Aged, Sessions
  <2>3. Len(sessions') = Len(sessions)
    BY <1>3, <2>1, AgedTypes, BoundsAssumption DEF ServeLines
  <2> QED BY <2>2, <2>3 DEF SameNames
<1> QED BY <1>2, <1>3

\* Every step keeps it: one case for each action.
LEMMA StepDescriptorInv ==
  ASSUME IInv, IInv', DescriptorInv, [Next]_vars
  PROVE  DescriptorInv'
<1> USE DEF mainVars, threadVars, netVars, statVars, historyVars
<1>0. /\ TypeOK /\ TypeOK' /\ InHand /\ ThreadOwned
      /\ (UNCHANGED sessions => SameNames)
      /\ (UNCHANGED fdTab => SameHolders)
  BY DEF IInv, SameNames, SameHolders
<1>1. CASE InitialiseOk
  <2>1. SameHolders
    <3>1. LowestFree \in Fds /\ fdTab[LowestFree] = "free"
      BY <1>1, LowestFreeIsFree DEF InitialiseOk, FreeFds
    <3> QED BY <1>0, <1>1, <3>1, NamesAssumption
          DEF InitialiseOk, SameHolders, TypeOK
  <2>2. /\ pc = "stopped" /\ pc' = "top" /\ mpc = "idle"
        /\ UNCHANGED <<mpc, closing, shuts, idx, incoming, sessions, backlog,
                       peer, stage>>
    BY <1>0, <1>1 DEF InitialiseOk, ThreadOwned
  <2> QED BY <1>0, <2>1, <2>2, NothingMoves
<1>2. CASE \/ InitialiseBindFails \/ InitialiseNoSocket
            \/ ShutdownRequestStop \/ ShutdownJoin
  <2>1. /\ UNCHANGED <<pc, closing, shuts, idx, incoming, sessions, backlog,
                       peer, stage, fdTab>>
        /\ \/ mpc' = mpc
           \/ mpc \in {"listenClosed", "join"} /\ mpc' \in {"join", "idle"}
    BY <1>2 DEF InitialiseBindFails, InitialiseNoSocket, ShutdownRequestStop,
                ShutdownJoin
  <2>2. shuts = 0 => mpc \in {"idle", "aborted"}
    BY DEF DescriptorInv, OpenInTime
  <2> QED BY <1>0, <2>1, <2>2, NothingMoves
<1>3. CASE ShutdownBegin
  <2>1. /\ closing' = [from |-> 1, to |-> Len(sessions)] /\ shuts' # 0
        /\ UNCHANGED <<pc, idx, incoming, sessions, backlog, peer, stage, fdTab>>
    BY <1>0, <1>3 DEF ShutdownBegin, LoopEnd, TypeOK
  <2> QED BY <1>0, <2>1, NothingMoves
<1>4. CASE ShutdownStaleElement
  <2>1. /\ mpc = "stale" /\ mpc' \in {"stale", "aborted"}
        /\ pc' = "erase" => pc = "erase"
        /\ UNCHANGED <<idx, shuts, incoming, sessions, backlog, peer, stage,
                       fdTab>>
    BY <1>4 DEF ShutdownStaleElement, Abort
  <2>2. shuts # 0
    BY <2>1 DEF DescriptorInv, OpenInTime
  <2> QED BY <1>0, <2>1, <2>2, NothingMoves
<1>5. CASE ShutdownCloseSession \/ ShutdownCloseListen \/ ShutdownClear
  BY <1>5, ClosedByShutdown
<1>6. CASE PollInvalidSocket \/ ServeCleared
  <2>1. /\ pc' = "aborted" /\ mpc' = "aborted"
        /\ pc = "erase" => idx > Len(sessions)
        /\ UNCHANGED <<shuts, incoming, sessions, backlog, peer, stage, fdTab>>
    BY <1>6 DEF PollInvalidSocket, ServeCleared, Abort
  <2>2. ~(pc = "erase" /\ idx <= Len(sessions))
    <3>1. idx \in Nat /\ Len(sessions) \in Nat
      BY <1>0, Typed DEF TypeOK
    <3> QED BY <2>1, <3>1
  <2> QED BY <1>0, <2>1, <2>2, NothingMoves
<1>7. CASE \/ CheckStop \/ PollPending \/ PollNothing \/ AcceptFails
            \/ KeepSession \/ LoopDone \/ Report \/ ServeIdle
  <2>1. /\ pc # "erase" /\ pc' # "erase"
        /\ UNCHANGED <<mpc, closing, shuts, incoming, sessions, backlog, peer,
                       stage, fdTab>>
    BY <1>7 DEF CheckStop, PollPending, PollNothing, AcceptFails, KeepSession,
       LoopDone, Report, ServeIdle, SessionUpdated, StartServing
  <2> QED BY <1>0, <2>1, NothingMoves
<1>8. CASE Accept
  BY <1>8, Accepting
<1>9. CASE Admit
  <2>1. 0 \in Age
    BY BoundsAssumption DEF Age
  <2> QED BY <1>0, <1>9, <2>1, Admitting DEF Admit, StartServing
<1>10. CASE AdmitThrows
  <2>1. Timeout + 1 \in Age
    BY BoundsAssumption DEF Age
  <2> QED BY <1>0, <1>10, <2>1, Admitting DEF AdmitThrows
<1>11. CASE Refuse
  BY <1>11, Refusing
<1>12. CASE RefuseThrows
  BY <1>12, RefusingThrows
<1>13. CASE ServeError
  BY <1>13, ClosedByError
<1>14. CASE ServeLines
  <2>1. /\ pc = "serve" /\ pc' \in {"top", "check"}
        /\ UNCHANGED <<mpc, closing, shuts, incoming, backlog, peer, stage,
                       fdTab>>
    BY <1>14 DEF ServeLines, SessionUpdated
  <2> QED BY <1>0, <1>14, <2>1, AgesOnly, NothingMoves
<1>15. CASE CloseSession
  BY <1>15, ClosedByServing
<1>16. CASE EraseSession
  BY <1>16, Erasing
<1>17. ASSUME NEW c \in Conns, Connect(c) PROVE DescriptorInv'
  BY <1>17, Connecting
<1>18. ASSUME NEW c \in Conns, NEW k \in Kinds, Send(c, k)
       PROVE  DescriptorInv'
  <2>1. UNCHANGED <<pc, mpc, closing, shuts, idx, incoming, sessions, backlog,
                    peer, stage, fdTab>>
    BY <1>18 DEF Send
  <2> QED BY <1>0, <2>1, NothingMoves
<1>19. ASSUME NEW c \in Conns, NEW how \in PeerEnds, Depart(c, how)
       PROVE  DescriptorInv'
  <2>1. /\ UNCHANGED <<pc, mpc, closing, shuts, idx, incoming, sessions,
                       backlog, stage, fdTab>>
        /\ peer[c] = "up" /\ peer' = [peer EXCEPT ![c] = how]
        /\ how \in {"fin", "rst"}
    BY <1>19, InputsAssumption DEF Depart
  <2>2. \A d \in Conns : peer'[d] = IF d = c THEN how ELSE peer[d]
    BY <1>0, <2>1 DEF TypeOK
  <2>3. \A d \in Conns : /\ peer'[d] = "none" <=> peer[d] = "none"
                         /\ peer[d] = "rst" => peer'[d] = "rst"
    BY <2>1, <2>2
  <2> QED BY <1>0, <2>1, <2>3, NothingMoves
<1>20. ASSUME NEW p \in Foreign, ForeignOpen(p) \/ ForeignClose(p)
       PROVE  DescriptorInv'
  <2>1. UNCHANGED <<pc, mpc, closing, shuts, idx, incoming, sessions, backlog,
                    peer, stage>>
    BY <1>20 DEF ForeignOpen, ForeignClose
  <2>2. SameHolders
    <3>1. CASE ForeignOpen(p)
      <4>1. LowestFree \in Fds /\ fdTab[LowestFree] = "free"
        BY <3>1, LowestFreeIsFree DEF ForeignOpen, FreeFds
      <4> QED BY <1>0, <3>1, <4>1, NamesAssumption
            DEF ForeignOpen, SameHolders, TypeOK
    <3>2. CASE ForeignClose(p)
      BY <3>2, NamesAssumption DEF ForeignClose, Closed, SameHolders
    <3> QED BY <1>20, <3>1, <3>2
  <2> QED BY <1>0, <2>1, <2>2, NothingMoves
<1>21. CASE Tick
  <2>1. UNCHANGED <<pc, mpc, closing, shuts, idx, incoming, backlog, peer,
                    stage, fdTab>>
    BY <1>21 DEF Tick
  <2> QED BY <1>0, <1>21, <2>1, AgesOnly, NothingMoves
<1>22. CASE UNCHANGED vars
  <2>1. UNCHANGED <<pc, mpc, closing, shuts, idx, incoming, sessions, backlog,
                    peer, stage, fdTab>>
    BY <1>22 DEF vars
  <2> QED BY <1>0, <2>1, NothingMoves
<1> QED
  BY <1>1, <1>2, <1>3, <1>4, <1>5, <1>6, <1>7, <1>8, <1>9, <1>10, <1>11,
     <1>12, <1>13, <1>14, <1>15, <1>16, <1>17, <1>18, <1>19, <1>20, <1>21,
     <1>22
  DEF Next, InitialiseStep, ShutdownStep, ServerStep, Environment, Dead

\* So it holds of every state, with the invariant it rests on.
LEMMA DescriptorInvHolds == Spec => []DescriptorInv
<1>1. Init => DescriptorInv
  BY InitDescriptorInv
<1>2. IInv /\ IInv' /\ DescriptorInv /\ [Next]_vars => DescriptorInv'
  BY StepDescriptorInv
<1> QED BY <1>1, <1>2, IInvHolds, PTL DEF Spec

(* The whole strengthened invariant of initialise(), shutdown() and         *)
(* update(): which thread exists when, which descriptor listens, what a     *)
(* step of the server thread finds again of what the last one left, and     *)
(* where each connection and its descriptor are.                           *)
THEOREM InductiveHolds == Spec => []Inductive
<1>1. IInv /\ RoundInv /\ DescriptorInv => Inductive
  BY DEF Inductive
<1> QED BY <1>1, IInvHolds, RoundInvHolds, DescriptorInvHolds, PTL

(* acceptConnection(): until shutdown() is called, every connection         *)
(* accept() returned is in its hands or belongs to a session, but for one    *)
(* that was to be refused by a callback that threw.                        *)
THEOREM NoDescriptorLeakHolds == Spec => []NoDescriptorLeak
<1>1. Inductive => NoDescriptorLeak
  <2> SUFFICES ASSUME Inductive, shuts = 0, NEW c \in OpenConns
               PROVE  \/ HasSession(c)
                      \/ incoming # NoConn /\ incoming.conn = c
                      \/ "bad" \in Kinds /\ stage[c] = "taken"
    BY DEF NoDescriptorLeak
  <2>1. PICK f \in Fds : fdTab[f] = c /\ c \in Conns
    BY DEF OpenConns
  <2>2. stage[c] \in {"taken", "admitted"} /\ ~IsClosed(c)
    BY <2>1 DEF Inductive, DescriptorInv, Places, Holds, IsClosed
  <2>3. CASE stage[c] = "admitted"
    BY <2>1, <2>2, <2>3 DEF Inductive, DescriptorInv, OpenInTime
  <2>4. CASE stage[c] = "taken"
    BY <2>1, <2>4 DEF Inductive, DescriptorInv, TakenInHand
  <2> QED BY <2>2, <2>3, <2>4
<1> QED BY <1>1, InductiveHolds, PTL

(* What a step may do to a descriptor in use.                              *)
LEMMA StepClosesOwn ==
  ASSUME Inductive, [Next]_vars, shuts = 0, NoneReset,
         NEW f \in Fds, fdTab[f] \in Conns \cup Foreign, fdTab'[f] # fdTab[f]
  PROVE  ClosedByOwner(f)
<1> USE DEF mainVars, threadVars, netVars, statVars, historyVars
<1>0. /\ TypeOK /\ InHand
      /\ fdTab \in [Fds -> Conns \cup Foreign \cup {"free", "listen"}]
  BY DEF Inductive, IInv, TypeOK
<1>1. CASE InitialiseOk \/ Accept \/ \E p \in Foreign : ForeignOpen(p)
  <2>1. /\ LowestFree \in Fds /\ fdTab[LowestFree] = "free"
        /\ \E v : fdTab' = [fdTab EXCEPT ![LowestFree] = v]
    BY <1>1, LowestFreeIsFree DEF InitialiseOk, Accept, ForeignOpen, FreeFds
  <2>2. f # LowestFree
    BY <2>1, NamesAssumption
  <2> QED BY <1>0, <2>1, <2>2
<1>2. CASE ShutdownStep
  <2>1. mpc \in {"idle", "aborted"}
    BY DEF Inductive, DescriptorInv, OpenInTime
  <2> QED BY <1>2, <2>1
        DEF ShutdownStep, ShutdownCloseSession, ShutdownStaleElement,
            ShutdownClear, ShutdownCloseListen, ShutdownRequestStop,
            ShutdownJoin
<1>3. CASE Refuse
  <2>1. pc = "admit" /\ fdTab' = Closed(incoming.fd)
    BY <1>3 DEF Refuse, RefusedTable
  <2> QED BY <2>1 DEF Closed, ClosedByOwner
<1>4. CASE ServeError \/ CloseSession
  <2>1. /\ pc \in {"serve", "check"} /\ idx <= Len(sessions)
        /\ fdTab' = Closed(This.fd)
    BY <1>4 DEF ServeError, SessionUpdated, CloseSession, Close
  <2>2. f = This.fd
    BY <2>1 DEF Closed
  <2>3. idx \in 1 .. Len(sessions)
    <3>1. idx \in Nat \ {0} /\ Len(sessions) \in Nat
      BY <1>0, Typed DEF TypeOK
    <3> QED BY <2>1, <3>1
  <2>4. fdTab[f] = This.conn
    BY <2>1, <2>2, <2>3 DEF Inductive, DescriptorInv, OpenInTime, This
  <2> QED BY <2>1, <2>4 DEF ClosedByOwner
<1>5. CASE \E p \in Foreign : ForeignClose(p)
  <2>1. PICK p \in Foreign, g \in Fds :
          fdTab[g] = p /\ fdTab' = Closed(g) /\ UNCHANGED <<pc, mpc, closing>>
    BY <1>5 DEF ForeignClose
  <2>2. f = g
    BY <2>1 DEF Closed
  <2> QED BY <2>1, <2>2 DEF ClosedByOwner
<1>6. CASE UNCHANGED fdTab
  BY <1>6
<1>7. CASE \/ InitialiseBindFails \/ InitialiseNoSocket \/ ShutdownBegin
            \/ CheckStop \/ PollInvalidSocket \/ PollPending \/ PollNothing
            \/ AcceptFails \/ Admit \/ AdmitThrows \/ RefuseThrows \/ ServeIdle
            \/ ServeLines \/ ServeCleared \/ KeepSession \/ EraseSession
            \/ LoopDone \/ Report \/ Tick \/ UNCHANGED vars
            \/ \E c \in Conns : \/ Connect(c)
                                \/ \E k \in Kinds : Send(c, k)
                                \/ \E how \in PeerEnds : Depart(c, how)
  <2>1. UNCHANGED fdTab
    BY <1>7 DEF InitialiseBindFails, InitialiseNoSocket, ShutdownBegin,
       CheckStop, PollInvalidSocket, Abort, PollPending, PollNothing,
       AcceptFails, Admit, AdmitThrows, RefuseThrows, ServeIdle, ServeLines,
       ServeCleared, KeepSession, EraseSession, LoopDone, Report, Tick, vars,
       Connect, Send, Depart
  <2> QED BY <2>1
<1> QED
  BY <1>1, <1>2, <1>3, <1>4, <1>5, <1>6, <1>7
  DEF Next, InitialiseStep, ServerStep, Environment, Dead, vars

(* closeClient(), checkReceive() and the rest of the process: until         *)
(* shutdown() is called, as long as no admitted client has reset its        *)
(* connection, a descriptor in use is closed by its owner only, although    *)
(* m_socket outlives close().                                              *)
THEOREM OnlyResetsClobberHolds == Spec => OnlyResetsClobber
<1>1. Inductive /\ [Next]_vars =>
        [shuts = 0 /\ NoneReset
           => \A f \in Fds : fdTab[f] \in Conns \cup Foreign /\ fdTab'[f] # fdTab[f]
                               => ClosedByOwner(f)]_vars
  BY StepClosesOwn
<1> QED BY <1>1, InductiveHolds, PTL DEF Spec, OnlyResetsClobber

(* shutdown(): m_sessions.clear() drops no session whose connection is      *)
(* open, unless the server thread changed the list during the loop.        *)
THEOREM QuietShutdownClosesAllHolds == Spec => QuietShutdownClosesAll
<1>1. Inductive /\ [Next]_vars =>
        [mpc = "closing" /\ mpc' = "cleared" =>
           \A i \in DOMAIN sessions : sessions[i].conn \notin OpenConns]_vars
  <2> SUFFICES ASSUME Inductive, [Next]_vars, mpc = "closing",
                      mpc' = "cleared", NEW i \in DOMAIN sessions
               PROVE  sessions[i].conn \notin OpenConns
    OBVIOUS
  <2>1. TypeOK /\ ClosedInTime
    BY DEF Inductive, IInv, DescriptorInv
  <2>2. closing.from > closing.to
    <3>1. CASE ShutdownStep
      BY <3>1 DEF ShutdownStep, ShutdownCloseSession, ShutdownStaleElement,
         ShutdownClear, ShutdownCloseListen, ShutdownRequestStop, ShutdownJoin
    <3>2. CASE ServerStep
      BY <3>2 DEF ServerStep, CheckStop, PollInvalidSocket, Abort, PollPending,
         PollNothing, Accept, AcceptFails, Admit, AdmitThrows, Refuse,
         RefuseThrows, Invalidate, ServeIdle, ServeError, ServeLines,
         ServeCleared, KeepSession, CloseSession, EraseSession, LoopDone,
         Report, mainVars
    <3>3. CASE Environment
      BY <3>3 DEF Environment, Connect, Send, Depart, Tick, ForeignOpen,
         ForeignClose, mainVars
    <3>4. CASE InitialiseStep \/ ShutdownBegin
      BY <3>4 DEF InitialiseStep, InitialiseOk, InitialiseBindFails,
         InitialiseNoSocket, ShutdownBegin
    <3>5. CASE UNCHANGED vars
      BY <3>5 DEF vars, mainVars
    <3> QED BY <3>1, <3>2, <3>3, <3>4, <3>5 DEF Next, Dead
  <2>3. i \in 1 .. Len(sessions) /\ Len(sessions) \in Nat
    BY <2>1, Typed
  <2>4. closing.to = Len(sessions) /\ closing.from \in Nat
    BY <2>1 DEF ClosedInTime, TypeOK
  <2>5. IsClosed(sessions[i].conn)
    BY <2>1, <2>2, <2>3, <2>4 DEF ClosedInTime
  <2> QED BY <2>5 DEF IsClosed, OpenConns
<1> QED BY <1>1, InductiveHolds, PTL DEF Spec, QuietShutdownClosesAll


-----------------------------------------------------------------------------
(* The statistics, where nothing goes wrong: no callback throws, no client   *)
(* resets its connection, no other component uses descriptors, and there are *)
(* more of them than the sessions and the listening socket need.             *)

NoFaults ==
  /\ "bad" \notin Kinds /\ "rst" \notin PeerEnds /\ Foreign = {}
  /\ MaxFd > MaxSession
  /\ IsFiniteSet(Conns) /\ Cardinality(Conns) <= MaxCount

\* A decision that is not counted yet.
Due(d) ==
  IF pc \in {"serve", "check", "erase", "report"} /\ decision = d THEN 1 ELSE 0

\* Until shutdown(), what acceptConnection() decided is counted, or is about to
\* be; the gauge is the size of the list where update() is not in between; and the
\* socket that was opened listens.
Tally ==
  /\ \A c \in Conns : peer[c] # "rst"
  /\ shuts = 0 /\ pc # "aborted" =>
       /\ initialised => Listening
       /\ pc \in {"poll", "accept", "admit"} => decision = "none"
       /\ accepted + Due("accepted") = Cardinality(InStage("admitted"))
       /\ refused + Due("refused") = Cardinality(InStage("refused"))
       /\ pc \in {"top", "stopped"} => active = Len(sessions)

\* The numbers from 1 to n are n.
LEMMA UpTo ==
  ASSUME NEW n \in Nat
  PROVE  IsFiniteSet(1 .. n) /\ Cardinality(1 .. n) = n
<1>1. /\ IsFiniteSet(1 .. n)
      /\ Cardinality(1 .. n) = IF 1 > n THEN 0 ELSE n - 1 + 1
  BY FS_Interval
<1> QED BY <1>1

(* The descriptors in use are the listening socket's and the sessions'.      *)
LEMMA EnoughDescriptors ==
  ASSUME NoFaults, Inductive, Tally, shuts = 0, pc = "accept"
  PROVE  Listening /\ FreeFds # {}
<1>1. /\ TypeOK /\ ThreadOwned /\ ListenOwned /\ InHand /\ Capacity /\ Places
      /\ OpenInTime /\ TakenInHand
  BY DEF Inductive, IInv, DescriptorInv
<1>2. initialised /\ Listening /\ incoming = NoConn
  BY <1>1 DEF Tally, OpenInTime, ThreadOwned, InHand
<1>3. ASSUME FreeFds = {}
      PROVE  FALSE
  <2> DEFINE n == Len(sessions)
             Others == Fds \ {listenSocket}
             Named == {sessions[i].fd : i \in 1 .. n}
  <2>1. Others \subseteq Named
    <3> SUFFICES ASSUME NEW f \in Others
                 PROVE  \E i \in 1 .. n : f = sessions[i].fd
      OBVIOUS
    <3>1. fdTab[f] \in Conns
      BY <1>1, <1>3 DEF FreeFds, ListenOwned, TypeOK, NoFaults
    <3>2. stage[fdTab[f]] = "admitted"
      BY <3>1, <1>1, <1>2 DEF Places, Holds, TakenInHand, NoFaults
    <3>3. HasSession(fdTab[f])
      BY <3>1, <3>2, <1>1 DEF OpenInTime, IsClosed
    <3>4. PICK i \in 1 .. n : sessions[i].conn = fdTab[f]
      BY <3>3, <1>1, Typed DEF HasSession
    <3>5. HoldsAtMost(fdTab[f], sessions[i].fd)
      BY <3>4, <1>1 DEF Places, Names
    <3> QED BY <3>4, <3>5 DEF HoldsAtMost
  <2>2. n \in Nat /\ n <= MaxSession
    BY <1>1, Typed DEF Capacity
  <2>3. IsFiniteSet(Named) /\ Cardinality(Named) <= n
    <3> DEFINE h == [i \in 1 .. n |-> sessions[i].fd]
    <3>1. h \in Surjection(1 .. n, Named)
      BY DEF Surjection
    <3>2. IsFiniteSet(1 .. n) /\ Cardinality(1 .. n) = n
      BY <2>2, UpTo
    <3> HIDE DEF h, Named
    <3> QED BY <3>1, <3>2, FS_Surjection
  <2>4. IsFiniteSet(Fds) /\ Cardinality(Fds) = MaxFd + 1
    BY BoundsAssumption, FS_Interval DEF Fds
  <2>5. Cardinality(Others) = MaxFd
    <3>1. listenSocket \in Fds
      BY <1>2 DEF Listening
    <3>2. Cardinality(Others) = (MaxFd + 1) - 1
      BY <2>4, <3>1, FS_RemoveElement
    <3> QED BY <3>2, BoundsAssumption
  <2> HIDE DEF Others, Named
  <2>6. Cardinality(Others) <= Cardinality(Named)
    BY <2>1, <2>3, FS_Subset
  <2>7. Cardinality(Named) \in Nat
    BY <2>3, FS_CardinalityType
  <2> QED BY <2>2, <2>3, <2>5, <2>6, <2>7, BoundsAssumption DEF NoFaults
<1> QED BY <1>2, <1>3

(* One more connection of a stage.                                         *)
LEMMA InStageTypes ==
  ASSUME NoFaults, NEW st
  PROVE  /\ IsFiniteSet(InStage(st)) /\ Cardinality(InStage(st)) \in Nat
         /\ Cardinality(InStage(st)) <= MaxCount
<1>1. InStage(st) \subseteq Conns
  BY DEF InStage
<1>2. /\ IsFiniteSet(InStage(st))
      /\ Cardinality(InStage(st)) <= Cardinality(Conns)
  BY <1>1, FS_Subset DEF NoFaults
<1>3. Cardinality(InStage(st)) \in Nat /\ Cardinality(Conns) \in Nat
  BY <1>2, FS_CardinalityType DEF NoFaults
<1> QED BY <1>2, <1>3, BoundsAssumption DEF NoFaults

\* A decision adds its connection to those it decided alike, and to no others.
LEMMA OneMoreInStage ==
  ASSUME NoFaults, TypeOK, NEW c \in Conns, NEW st \in {"admitted", "refused"},
         stage[c] = "taken", stage' = [stage EXCEPT ![c] = st]
  PROVE  /\ Cardinality(InStage(st)') = Cardinality(InStage(st)) + 1
         /\ \A other \in {"admitted", "refused"} \ {st} :
              InStage(other)' = InStage(other)
<1>1. /\ stage'[c] = st
      /\ \A d \in Conns \ {c} : stage'[d] = stage[d]
  BY DEF TypeOK
<1>2. InStage(st)' = InStage(st) \cup {c} /\ c \notin InStage(st)
  BY <1>1 DEF InStage
<1>3. \A other \in {"admitted", "refused"} \ {st} : InStage(other)' = InStage(other)
  BY <1>1 DEF InStage
<1> QED BY <1>2, <1>3, InStageTypes, FS_AddElement

\* No connection is admitted or refused, and no socket stops listening.
NoVerdict ==
  /\ InStage("admitted")' = InStage("admitted")
  /\ InStage("refused")' = InStage("refused")

StillListens == initialised' => initialised /\ (Listening => Listening')

(* A step that neither decides nor counts.                                 *)
LEMMA Uncounted ==
  ASSUME TypeOK, Tally, NoVerdict, StillListens,
         \A c \in Conns : peer'[c] # "rst",
         UNCHANGED <<accepted, refused, active>>,
         shuts' = 0 /\ pc' # "aborted" =>
           /\ shuts = 0 /\ pc # "aborted"
           /\ pc' \in {"poll", "accept", "admit"} => decision' = "none"
           /\ \A d \in {"accepted", "refused"} : Due(d)' = Due(d)
           /\ pc' \in {"top", "stopped"} =>
                pc \in {"top", "stopped"} /\ Len(sessions') = Len(sessions)
  PROVE  Tally'
BY DEF Tally, NoVerdict, StillListens

\* Every step keeps Tally where nothing goes wrong.
LEMMA StepTally ==
  ASSUME NoFaults, Inductive, Tally, [Next]_vars
  PROVE  Tally'
<1> USE DEF mainVars, threadVars, netVars, statVars, historyVars
<1>0. /\ TypeOK /\ ThreadOwned /\ ListenOwned /\ InHand /\ Places /\ OpenInTime
  BY DEF Inductive, IInv, DescriptorInv
<1>r. \A c \in Conns : peer[c] # "rst"
  BY DEF Tally
<1>s. (UNCHANGED stage) => NoVerdict
  BY DEF NoVerdict, InStage
<1>l. (UNCHANGED <<initialised, listenSocket, fdTab>>) => StillListens
  BY DEF StillListens, Listening
\* Until shutdown() nobody but the server thread closes anything.
<1>i. shuts = 0 => mpc \in {"idle", "aborted"} /\ (pc # "aborted" => mpc = "idle")
  BY <1>0 DEF OpenInTime, ThreadOwned
\* A session names its own connection, which does not listen.
<1>o. ASSUME shuts = 0, pc \in {"serve", "check"}, idx <= Len(sessions)
      PROVE  This.fd \in Fds /\ Holder = This.conn /\ Holder \in Conns
  <2>1. idx \in 1 .. Len(sessions)
    BY <1>o, <1>0, Typed DEF TypeOK
  <2>2. sessions[idx].conn \in Conns /\ sessions[idx].fd \in Fds
    BY <2>1, <1>0, Typed
  <2>3. NoneReset
    BY <1>r DEF NoneReset, InStage
  <2>4. fdTab[sessions[idx].fd] = sessions[idx].conn
    BY <2>1, <2>3, <1>o, <1>0 DEF OpenInTime
  <2> QED BY <2>2, <2>4 DEF This, Holder
<1>a. ASSUME ~(shuts' = 0 /\ pc' # "aborted"), \A c \in Conns : peer'[c] # "rst"
      PROVE  Tally'
  BY <1>a DEF Tally
<1>1. CASE InitialiseOk
  <2>1. /\ ~initialised /\ mpc = "idle" /\ pc' = "top"
        /\ UNCHANGED <<shuts, decision, sessions, peer, stage, accepted, refused,
                       active>>
        /\ listenSocket' = LowestFree
        /\ fdTab' = [fdTab EXCEPT ![LowestFree] = "listen"]
    BY <1>1 DEF InitialiseOk
  <2>2. LowestFree \in Fds
    BY <1>1, LowestFreeIsFree DEF InitialiseOk, FreeFds
  <2>3. Listening'
    BY <2>1, <2>2, <1>0 DEF Listening, TypeOK
  <2>4. pc \in {"stopped", "aborted"} /\ pc # "aborted"
    BY <2>1, <1>0 DEF ThreadOwned
  <2>5. NoVerdict /\ \A d \in {"accepted", "refused"} : Due(d)' = 0 /\ Due(d) = 0
    BY <2>1, <2>4, <1>s DEF Due
  <2> QED BY <2>1, <2>3, <2>4, <2>5, <1>r DEF Tally, NoVerdict
<1>2. CASE InitialiseBindFails \/ InitialiseNoSocket
  <2>1. /\ ~initialised
        /\ UNCHANGED <<initialised, pc, shuts, decision, sessions, peer, stage,
                       accepted, refused, active>>
    BY <1>2 DEF InitialiseBindFails, InitialiseNoSocket
  <2>2. StillListens /\ NoVerdict
    BY <2>1, <1>s DEF StillListens
  <2> QED BY <2>1, <2>2, <1>0, <1>r, Uncounted DEF Tally, Due
<1>3. CASE ShutdownBegin \/ ShutdownStep
  <2>1. shuts' # 0 /\ UNCHANGED peer
    <3>1. CASE ShutdownBegin
      BY <3>1, <1>0 DEF ShutdownBegin, TypeOK
    <3>2. CASE ShutdownStep
      <4>1. mpc \notin {"idle", "aborted"}
        BY <3>2, <1>0 DEF ShutdownStep, ShutdownCloseSession, ShutdownStaleElement,
           ShutdownClear, ShutdownCloseListen, ShutdownRequestStop, ShutdownJoin
      <4>2. UNCHANGED <<shuts, peer>>
        BY <3>2 DEF ShutdownStep, ShutdownCloseSession, ShutdownStaleElement, Abort,
           ShutdownClear, ShutdownCloseListen, ShutdownRequestStop, ShutdownJoin
      <4> QED BY <4>1, <4>2, <1>i
    <3> QED BY <1>3, <3>1, <3>2
  <2> QED BY <2>1, <1>a, <1>r
<1>4. CASE PollInvalidSocket \/ ServeCleared
  <2>1. pc' = "aborted" /\ UNCHANGED peer
    BY <1>4 DEF PollInvalidSocket, ServeCleared, Abort
  <2> QED BY <2>1, <1>a, <1>r
<1>5. CASE CheckStop \/ PollPending \/ PollNothing \/ KeepSession \/ LoopDone \/ ServeIdle
  <2>1. /\ UNCHANGED <<initialised, listenSocket, fdTab, stage, peer, shuts,
                       sessions, accepted, refused, active>>
        /\ pc # "aborted"
    BY <1>5 DEF CheckStop, PollPending, PollNothing, StartServing, KeepSession,
       LoopDone, ServeIdle, SessionUpdated
  <2>2. \/ pc = "top" /\ pc' \in {"stopped", "poll"} /\ decision' = "none"
        \/ pc = "poll" /\ pc' \in {"accept", "serve"} /\ decision' = decision
        \/ /\ pc \in {"serve", "check"} /\ pc' \in {"serve", "check", "report"}
           /\ decision' = decision
    BY <1>5 DEF CheckStop, PollPending, PollNothing, StartServing, KeepSession,
       LoopDone, ServeIdle, SessionUpdated
  <2>3. shuts = 0 /\ pc = "poll" => decision = "none"
    BY DEF Tally
  <2>4. shuts = 0 => \A d \in {"accepted", "refused"} : Due(d)' = Due(d)
    BY <2>2, <2>3 DEF Due
  <2>5. shuts = 0 => (pc' \in {"poll", "accept", "admit"} => decision' = "none")
    BY <2>2, <2>3
  <2>6. pc' \in {"top", "stopped"} => pc \in {"top", "stopped"}
    BY <2>2
  <2>7. NoVerdict /\ StillListens
    BY <2>1, <1>s, <1>l
  <2> QED BY <2>1, <2>4, <2>5, <2>6, <2>7, <1>0, <1>r, Uncounted
<1>6. CASE Accept
  <2>1. /\ pc = "accept" /\ pc' = "admit"
        /\ stage' = [stage EXCEPT ![Head(backlog)] = "taken"]
        /\ fdTab' = [fdTab EXCEPT ![LowestFree] = Head(backlog)]
        /\ UNCHANGED <<initialised, listenSocket, shuts, decision, sessions, peer,
                       accepted, refused, active>>
        /\ Listening /\ FreeFds # {}
    BY <1>6 DEF Accept
  <2>2. fdTab[LowestFree] = "free" /\ LowestFree \in Fds
    BY <2>1, LowestFreeIsFree DEF FreeFds
  <2>3. StillListens
    BY <2>1, <2>2, <1>0 DEF StillListens, Listening, TypeOK
  <2>4. stage[Head(backlog)] = "pending"
    <3>1. backlog # <<>> /\ backlog \in Seq(Conns)
      BY <2>1, <1>0 DEF InHand, TypeOK
    <3>2. Head(backlog) = backlog[1] /\ 1 \in 1 .. Len(backlog)
      BY <3>1
    <3> QED BY <3>2, <1>0 DEF Places, Waits
  <2>5. NoVerdict
    BY <2>1, <2>4, <1>0 DEF NoVerdict, InStage, TypeOK
  <2>6. \A d \in {"accepted", "refused"} : Due(d)' = Due(d)
    BY <2>1 DEF Due
  <2>7. shuts = 0 => decision' = "none"
    BY <2>1 DEF Tally
  <2> QED BY <2>1, <2>3, <2>5, <2>6, <2>7, <1>0, <1>r, Uncounted
<1>7. CASE AcceptFails
  <2>1. /\ pc = "accept" /\ ~(Listening /\ FreeFds # {})
        /\ UNCHANGED <<shuts, peer>>
    BY <1>7 DEF AcceptFails
  <2>2. shuts # 0
    BY <2>1, EnoughDescriptors
  <2> QED BY <2>1, <2>2, <1>a, <1>r
<1>8. CASE AdmitThrows \/ RefuseThrows
  BY <1>8 DEF NoFaults, AdmitThrows, RefuseThrows
<1>9. CASE Admit \/ Refuse
  <2> DEFINE c == incoming.conn
  <2>1. /\ pc = "admit" /\ pc' = "serve" /\ c \in Conns /\ stage[c] = "taken"
        /\ UNCHANGED <<initialised, listenSocket, shuts, peer, accepted, refused,
                       active>>
    BY <1>9, <1>0, Typed DEF Admit, Refuse, StartServing, InHand, Places, Holds
  <2>2. StillListens
    <3>1. fdTab[incoming.fd] # "listen"
      BY <2>1, <1>0 DEF InHand
    <3>2. fdTab' = fdTab \/ fdTab' = Closed(incoming.fd)
      BY <1>9 DEF Admit, Refuse, RefusedTable
    <3> QED BY <2>1, <3>1, <3>2 DEF StillListens, Listening, Closed
  <2>3. CASE Admit
    <3>1. stage' = [stage EXCEPT ![c] = "admitted"] /\ decision' = "accepted"
      BY <2>3 DEF Admit
    <3>2. /\ Cardinality(InStage("admitted")') = Cardinality(InStage("admitted")) + 1
          /\ InStage("refused")' = InStage("refused")
      BY <2>1, <3>1, <1>0, OneMoreInStage
    <3>3. /\ Due("accepted") = 0 /\ Due("refused") = 0
          /\ Due("accepted")' = 1 /\ Due("refused")' = 0
      BY <2>1, <3>1 DEF Due
    <3>4. accepted \in Nat /\ refused \in Nat
      BY <1>0, BoundsAssumption DEF TypeOK
    <3> QED BY <2>1, <2>2, <3>2, <3>3, <3>4, <1>r DEF Tally, StillListens
  <2>4. CASE Refuse
    <3>1. stage' = [stage EXCEPT ![c] = "refused"] /\ decision' = "refused"
      BY <2>4 DEF Refuse
    <3>2. /\ Cardinality(InStage("refused")') = Cardinality(InStage("refused")) + 1
          /\ InStage("admitted")' = InStage("admitted")
      BY <2>1, <3>1, <1>0, OneMoreInStage
    <3>3. /\ Due("accepted") = 0 /\ Due("refused") = 0
          /\ Due("accepted")' = 0 /\ Due("refused")' = 1
      BY <2>1, <3>1 DEF Due
    <3>4. accepted \in Nat /\ refused \in Nat
      BY <1>0, BoundsAssumption DEF TypeOK
    <3> QED BY <2>1, <2>2, <3>2, <3>3, <3>4, <1>r DEF Tally, StillListens
  <2> QED BY <1>9, <2>3, <2>4
<1>10. CASE ServeError
  <2>1. /\ pc = "serve" /\ idx <= Len(sessions)
        /\ Holder \in Conns => peer[Holder] = "rst"
        /\ UNCHANGED <<shuts, peer>>
    BY <1>10 DEF ServeError, SessionUpdated
  <2>2. shuts # 0
    BY <2>1, <1>o, <1>r
  <2> QED BY <2>1, <2>2, <1>a, <1>r
<1>11. CASE ServeLines
  <2>1. /\ pc = "serve" /\ Holder \in Conns
        /\ UNCHANGED <<initialised, listenSocket, fdTab, stage, peer, shuts,
                       decision, accepted, refused, active>>
    BY <1>11 DEF ServeLines
  <2>2. PICK n \in 1 .. Len(inbox[Holder]) :
          IF Contains(SubSeq(inbox[Holder], 1, n), "bad")
          THEN pc' = "top" ELSE SessionUpdated
    BY <1>11 DEF ServeLines
  <2>3. ~Contains(SubSeq(inbox[Holder], 1, n), "bad")
    <3>1. inbox[Holder] \in Seq(Kinds)
      BY <2>1, <1>0 DEF TypeOK
    <3>2. \A i \in 1 .. n : inbox[Holder][i] \in Kinds
      BY <3>1, ElementOfSeq
    <3>3. SubSeq(inbox[Holder], 1, n) \in Seq(Kinds)
      BY <3>2, SubSeqProperties
    <3> QED BY <3>3, ElementOfSeq, LenProperties DEF Contains, NoFaults
  <2>4. pc' = "check"
    BY <2>2, <2>3 DEF SessionUpdated
  <2>5. NoVerdict /\ StillListens /\ \A d \in {"accepted", "refused"} : Due(d)' = Due(d)
    BY <2>1, <2>4, <1>s, <1>l DEF Due
  <2> QED BY <2>1, <2>4, <2>5, <1>0, <1>r, Uncounted
<1>12. CASE CloseSession
  <2>1. /\ pc = "check" /\ pc' = "erase" /\ idx <= Len(sessions) /\ Close(This.fd)
        /\ UNCHANGED <<initialised, listenSocket, shuts, decision, sessions, peer,
                       accepted, refused, active>>
    BY <1>12 DEF CloseSession
  <2>2. CASE shuts = 0
    <3>1. Holder \in Conns /\ This.fd \in Fds
      BY <2>1, <2>2, <1>o
    <3>2. fdTab[This.fd] # "listen"
      BY <3>1, NamesAssumption DEF Holder
    <3>3. fdTab' = Closed(This.fd) /\ UNCHANGED stage
      BY <2>1, <3>2 DEF Close
    <3>4. StillListens
      BY <2>1, <3>2, <3>3 DEF StillListens, Listening, Closed
    <3>5. NoVerdict /\ \A d \in {"accepted", "refused"} : Due(d)' = Due(d)
      BY <2>1, <3>3, <1>s DEF Due
    <3> QED BY <2>1, <3>4, <3>5, <1>0, <1>r, Uncounted
  <2> QED BY <2>1, <2>2, <1>a, <1>r
<1>13. CASE EraseSession
  <2>1. /\ pc = "erase" /\ pc' = "serve"
        /\ UNCHANGED <<initialised, listenSocket, fdTab, stage, peer, shuts,
                       decision, accepted, refused, active>>
    BY <1>13 DEF EraseSession
  <2>2. NoVerdict /\ StillListens /\ \A d \in {"accepted", "refused"} : Due(d)' = Due(d)
    BY <2>1, <1>s, <1>l DEF Due
  <2> QED BY <2>1, <2>2, <1>0, <1>r, Uncounted
<1>14. CASE Report
  <2>1. /\ pc = "report" /\ pc' = "top" /\ active' = Len(sessions)
        /\ accepted' = AcceptedNow /\ refused' = RefusedNow
        /\ UNCHANGED <<initialised, listenSocket, fdTab, stage, peer, shuts,
                       decision, sessions>>
    BY <1>14 DEF Report, Gauge
  <2>2. CASE shuts = 0
    <3>1. /\ accepted + Due("accepted") = Cardinality(InStage("admitted"))
          /\ refused + Due("refused") = Cardinality(InStage("refused"))
          /\ accepted \in Nat /\ refused \in Nat
      BY <2>1, <2>2, <1>0, BoundsAssumption DEF Tally, TypeOK
    <3>10. initialised => Listening
      BY <2>1, <2>2 DEF Tally
    <3>2. /\ Cardinality(InStage("admitted")) <= MaxCount
          /\ Cardinality(InStage("refused")) <= MaxCount
      BY InStageTypes
    <3>3. accepted' = accepted + Due("accepted") /\ refused' = refused + Due("refused")
      BY <2>1, <3>1, <3>2, BoundsAssumption DEF AcceptedNow, RefusedNow, Bump, Due
    <3>4. Due("accepted")' = 0 /\ Due("refused")' = 0
      BY <2>1 DEF Due
    <3>5. NoVerdict /\ StillListens
      BY <2>1, <1>s, <1>l
    <3>9. Due("accepted") \in {0, 1} /\ Due("refused") \in {0, 1}
      BY DEF Due
    <3>6. accepted' \in Nat /\ refused' \in Nat
      <4>1. accepted + Due("accepted") \in Nat /\ refused + Due("refused") \in Nat
        BY <3>1, <3>9
      <4> QED BY <3>3, <4>1
    <3>7. initialised' => Listening'
      BY <3>10, <3>5 DEF StillListens
    <3>8. /\ accepted' + Due("accepted")' = Cardinality(InStage("admitted")')
          /\ refused' + Due("refused")' = Cardinality(InStage("refused")')
      BY <3>1, <3>3, <3>4, <3>5, <3>6 DEF NoVerdict
    <3> QED BY <2>1, <3>7, <3>8, <1>r DEF Tally
  <2> QED BY <2>1, <2>2, <1>a, <1>r
<1>15. ASSUME NEW c \in Conns, Connect(c) PROVE Tally'
  <2>1. /\ peer[c] = "none" /\ peer' = [peer EXCEPT ![c] = "up"]
        /\ stage' = [stage EXCEPT ![c] = "pending"]
        /\ UNCHANGED <<initialised, listenSocket, fdTab, pc, shuts, decision,
                       sessions, accepted, refused, active>>
    BY <1>15 DEF Connect
  <2>2. stage[c] = "new"
    BY <2>1, <1>0 DEF Places, Waits
  <2>3. NoVerdict
    BY <2>1, <2>2, <1>0 DEF NoVerdict, InStage, TypeOK
  <2>4. StillListens /\ \A d \in {"accepted", "refused"} : Due(d)' = Due(d)
    BY <2>1, <1>l DEF Due
  <2>5. \A d \in Conns : peer'[d] # "rst"
    BY <2>1, <1>0, <1>r DEF TypeOK
  <2>6. shuts = 0 /\ pc # "aborted" =>
          (pc' \in {"poll", "accept", "admit"} => decision' = "none")
    BY <2>1 DEF Tally
  <2> QED BY <2>1, <2>3, <2>4, <2>5, <2>6, <1>0, Uncounted
<1>16. ASSUME NEW c \in Conns,
              (\E k \in Kinds : Send(c, k)) \/ (\E how \in PeerEnds : Depart(c, how))
       PROVE  Tally'
  <2>1. UNCHANGED <<initialised, listenSocket, fdTab, stage, pc, shuts, decision,
                    sessions, accepted, refused, active>>
    BY <1>16 DEF Send, Depart
  <2>2. \A d \in Conns : peer'[d] # "rst"
    <3>1. CASE \E k \in Kinds : Send(c, k)
      BY <3>1, <1>r DEF Send
    <3>2. CASE \E how \in PeerEnds : Depart(c, how)
      <4>1. PICK how \in PeerEnds : peer' = [peer EXCEPT ![c] = how]
        BY <3>2 DEF Depart
      <4>2. how # "rst"
        BY DEF NoFaults
      <4> QED BY <4>1, <4>2, <1>0, <1>r DEF TypeOK
    <3> QED BY <1>16, <3>1, <3>2
  <2>3. NoVerdict /\ StillListens /\ \A d \in {"accepted", "refused"} : Due(d)' = Due(d)
    BY <2>1, <1>s, <1>l DEF Due
  <2>4. shuts = 0 /\ pc # "aborted" =>
          (pc' \in {"poll", "accept", "admit"} => decision' = "none")
    BY <2>1 DEF Tally
  <2> QED BY <2>1, <2>2, <2>3, <2>4, <1>0, Uncounted
<1>17. ASSUME NEW p \in Foreign, ForeignOpen(p) \/ ForeignClose(p)
       PROVE  Tally'
  BY DEF NoFaults
<1>18. CASE Tick \/ UNCHANGED vars
  <2>1. UNCHANGED <<initialised, listenSocket, fdTab, stage, peer, pc, shuts,
                    decision, accepted, refused, active>>
    BY <1>18 DEF Tick, vars
  <2>2. Len(sessions') = Len(sessions)
    BY <1>18, <1>0, AgesOnly DEF SameNames, vars
  <2>3. NoVerdict /\ StillListens /\ \A d \in {"accepted", "refused"} : Due(d)' = Due(d)
    BY <2>1, <1>s, <1>l DEF Due
  <2>4. shuts = 0 /\ pc # "aborted" =>
          (pc' \in {"poll", "accept", "admit"} => decision' = "none")
    BY <2>1 DEF Tally
  <2> QED BY <2>1, <2>2, <2>3, <2>4, <1>0, <1>r, Uncounted
<1> QED
  BY <1>1, <1>2, <1>3, <1>4, <1>5, <1>6, <1>7, <1>8, <1>9, <1>10, <1>11,
     <1>12, <1>13, <1>14, <1>15, <1>16, <1>17, <1>18
  DEF Next, InitialiseStep, ServerStep, Environment, Dead

\* It holds at first.
LEMMA InitTally ==
  ASSUME NoFaults, Init
  PROVE  Tally
<1>1. /\ \A c \in Conns : peer[c] = "none" /\ stage[c] = "new"
      /\ initialised = FALSE /\ pc = "stopped" /\ sessions = <<>>
      /\ accepted = 0 /\ refused = 0 /\ active = 0
  BY DEF Init
<1>2. InStage("admitted") = {} /\ InStage("refused") = {}
  BY <1>1 DEF InStage
<1>3. Due("accepted") = 0 /\ Due("refused") = 0
  BY <1>1 DEF Due
<1>4. /\ Cardinality(InStage("admitted")) = 0
      /\ Cardinality(InStage("refused")) = 0
  BY <1>2, FS_EmptySet
<1>5. Len(sessions) = 0
  BY <1>1
<1> QED BY <1>1, <1>3, <1>4, <1>5 DEF Tally

(* At the top of a round every session's connection is open, and no other.   *)
LEMMA OpenAreSessions ==
  ASSUME NoFaults, Inductive, Tally, shuts = 0, pc = "top"
  PROVE  Cardinality(OpenConns) = Len(sessions)
<1>1. /\ TypeOK /\ InHand /\ Places /\ OpenInTime /\ TakenInHand
  BY DEF Inductive, IInv, DescriptorInv
<1> DEFINE n == Len(sessions)
           h == [i \in 1 .. n |-> sessions[i].conn]
<1>2. n \in Nat /\ \A i \in 1 .. n : sessions[i].conn \in Conns /\ sessions[i].fd \in Fds
  BY <1>1, Typed
<1>3. \A i \in 1 .. n : fdTab[sessions[i].fd] = sessions[i].conn
  <2>1. NoneReset
    BY DEF Tally, NoneReset, InStage
  <2> QED BY <2>1, <1>1 DEF OpenInTime
<1>4. \A i \in 1 .. n : sessions[i].conn \in OpenConns
  BY <1>2, <1>3 DEF OpenConns
<1>5. ASSUME NEW c \in OpenConns
      PROVE  \E i \in 1 .. n : sessions[i].conn = c
  <2>1. PICK f \in Fds : fdTab[f] = c /\ c \in Conns
    BY DEF OpenConns
  <2>2. stage[c] = "admitted"
    BY <2>1, <1>1 DEF Places, Holds, TakenInHand, InHand, NoFaults
  <2>3. HasSession(c)
    BY <2>1, <2>2, <1>1 DEF OpenInTime, IsClosed
  <2> QED BY <2>3, <1>1, Typed DEF HasSession
<1>6. \A i, j \in 1 .. n : sessions[i].conn = sessions[j].conn => i = j
  BY <1>1 DEF Places, Names
<1>7. h \in Bijection(1 .. n, OpenConns)
  <2>1. h \in [1 .. n -> OpenConns]
    BY <1>4
  <2>2. IsInjective(h)
    BY <1>6 DEF IsInjective
  <2>3. \A c \in OpenConns : \E i \in 1 .. n : h[i] = c
    BY <1>5
  <2> HIDE DEF h
  <2> QED BY <2>1, <2>2, <2>3 DEF Bijection, Injection, Surjection
<1>9. ExistsBijection(1 .. n, OpenConns)
  BY <1>7 DEF ExistsBijection
<1>10. n \in Nat
  BY <1>2
<1> HIDE DEF n
<1>8. IsFiniteSet(1 .. n) /\ Cardinality(1 .. n) = n
  BY <1>10, UpTo
<1>11. Cardinality(OpenConns) = n
  BY <1>8, <1>9, FS_Bijection
<1> QED BY <1>11 DEF n

(* TelnetServerStats: at the top of a round, until shutdown() is called, the *)
(* connections counted as accepted, refused and active are those admitted,   *)
(* those refused and those open, where nothing goes wrong (NoFaults).        *)
THEOREM StatisticsExactHolds ==
  ASSUME NoFaults
  PROVE  Spec => []StatisticsExact
<1>1. Init => Tally
  BY InitTally
<1>2. Inductive /\ Tally /\ [Next]_vars => Tally'
  BY StepTally
<1>3. Inductive /\ Tally => StatisticsExact
  <2> SUFFICES ASSUME Inductive, Tally, pc = "top", shuts = 0
               PROVE  /\ accepted = Cardinality(InStage("admitted"))
                      /\ refused = Cardinality(InStage("refused"))
                      /\ active = Cardinality(OpenConns)
    BY DEF StatisticsExact
  <2>1. Due("accepted") = 0 /\ Due("refused") = 0
    BY DEF Due
  <2>2. accepted \in Nat /\ refused \in Nat
    BY BoundsAssumption DEF Inductive, IInv, TypeOK
  <2>3. /\ accepted + Due("accepted") = Cardinality(InStage("admitted"))
        /\ refused + Due("refused") = Cardinality(InStage("refused"))
        /\ active = Len(sessions)
    BY DEF Tally
  <2> QED BY <2>1, <2>2, <2>3, OpenAreSessions
<1> QED BY <1>1, <1>2, <1>3, InductiveHolds, PTL DEF Spec
=============================================================================
