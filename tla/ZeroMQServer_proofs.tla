------------------------ MODULE ZeroMQServer_proofs ------------------------
(***************************************************************************)
(* Proofs about ZeroMQServer, for any set of clients and any number of     *)
(* requests.  The inductive invariant says, besides the types, what the    *)
(* REP socket expects at each place of the thread.                         *)
(***************************************************************************)
EXTENDS ZeroMQServer, DataLemmas

IInv == TypeOK /\ Owing /\ SocketHasOneUser

(* What the callback, or update() itself, returns is a reply of two parts. *)
LEMMA ReplyToTypes ==
  ASSUME NEW kind \in AllKinds
  PROVE  /\ ReplyTo(kind) \in ReplySizes
         /\ Hooked \/ kind = "odd" => ReplyTo(kind) # <<>>
<1>1. <<4, 0>> # <<>> /\ <<4, 1>> # <<>>
  OBVIOUS
<1>2. ReplyTo(kind) \in {<<4, 0>>, <<4, 1>>, <<>>}
  BY DEF ReplyTo
<1>3. Hooked \/ kind = "odd" => ReplyTo(kind) \in {<<4, 0>>, <<4, 1>>}
  BY DEF ReplyTo
<1> QED BY <1>1, <1>2, <1>3 DEF ReplySizes

(* Sizes are numbers, also once send_multipart() has emptied the messages. *)
LEMMA SizeTypes ==
  ASSUME NEW r \in ReplySizes
  PROVE  Moved(r) \in ReplySizes /\ BytesOf(r) \in Nat
<1>1. Moved(<<>>) = <<>> /\ Moved(<<4, 0>>) = <<0, 0>>
  BY DEF Moved
<1>2. Moved(<<4, 1>>) = <<0, 0>> /\ Moved(<<0, 0>>) = <<0, 0>>
  BY DEF Moved
<1>3. BytesOf(r) \in Nat
  BY DEF BytesOf, ReplySizes
<1> QED BY <1>1, <1>2, <1>3 DEF ReplySizes

(* When the listener ends, clients are gone, the queue is kept or emptied,  *)
(* and what the monitor is told are events.                                *)
LEMMA EndTypes ==
  ASSUME TypeOK, Unbind \/ UNCHANGED <<clients, inbox, events>>
  PROVE  /\ clients' \in [Clients -> {"away", "idle", "waiting", "gone"}]
         /\ inbox' \in Seq(Requests)
         /\ events' \in Seq({"accepted", "disconnected"})
<1> DEFINE E == {"accepted", "disconnected"}
<1>0. /\ clients \in [Clients -> {"away", "idle", "waiting", "gone"}]
      /\ inbox \in Seq(Requests) /\ events \in Seq(E)
  BY DEF TypeOK
<1>1. CASE Unbind
  <2>1. clients' \in [Clients -> {"away", "idle", "waiting", "gone"}]
    <3>1. clients' = [c \in Clients |-> IF c \in Connected THEN "gone"
                                        ELSE clients[c]]
      BY <1>1 DEF Unbind
    <3> HIDE DEF Connected
    <3> QED BY <1>0, <3>1
  <2>2. inbox' \in Seq(Requests)
    <3>1. inbox' = inbox \/ inbox' = <<>>
      BY <1>1 DEF Unbind
    <3>2. <<>> \in Seq(Requests)
      OBVIOUS
    <3> QED BY <1>0, <3>1, <3>2
  <2>3. PICK n \in 0 .. Cardinality(Connected) :
          events' = events \o [i \in 1 .. n |-> "disconnected"]
    BY <1>1 DEF Unbind
  <2>4. n \in Nat
    BY <2>3
  <2>5. [i \in 1 .. n |-> "disconnected"] \in Seq(E)
    BY <2>4
  <2>6. events' \in Seq(E)
    BY <1>0, <2>3, <2>5, ConcatProperties
  <2> QED BY <2>1, <2>2, <2>6
<1>2. CASE UNCHANGED <<clients, inbox, events>>
  BY <1>0, <1>2
<1> QED BY <1>1, <1>2

\* The invariant holds at first.
LEMMA InitIInv == Init => IInv
<1> SUFFICES ASSUME Init
             PROVE  IInv
  OBVIOUS
<1>1. TypeOK
  <2>1. clients \in [Clients -> {"away", "idle", "waiting", "gone"}]
    BY DEF Init
  <2>2. totals \in [succeeded : Nat, failed : Nat, uploaded : Nat]
    BY DEF Init
  <2>3. reply \in ReplySizes
    BY DEF Init, ReplySizes
  <2>4. inbox \in Seq(Requests) /\ taken \in Seq(Requests)
    BY DEF Init
  <2>5. events \in Seq({"accepted", "disconnected"})
    BY DEF Init
  <2>6. /\ isActive \in BOOLEAN /\ stopReq \in BOOLEAN /\ good \in BOOLEAN
        /\ flag \in BOOLEAN
    BY DEF Init
  <2>7. /\ mpc = "idle" /\ pc = "none" /\ fsm = "recv" /\ work = NoRequest
        /\ peerCount = 0 /\ steps = 0 /\ starts = 0 /\ shuts = 0
    BY DEF Init
  <2> QED BY <2>1, <2>2, <2>3, <2>4, <2>5, <2>6, <2>7 DEF TypeOK
<1>2. Owing /\ SocketHasOneUser
  BY DEF Init, Owing, SocketHasOneUser
<1> QED BY <1>1, <1>2 DEF IInv

\* Every step keeps it: one case for each action.
LEMMA StepIInv == IInv /\ [Next]_vars => IInv'
<1> SUFFICES ASSUME IInv, [Next]_vars
             PROVE  IInv'
  OBVIOUS
<1> USE ConstantsAssumption DEF IInv, TypeOK, Owing, SocketHasOneUser, Replies,
        mainVars, netVars, statVars
<1>1. CASE Initialise
  <2>1. pc = "none" /\ pc' = "top" /\ fsm' = fsm /\ isActive' = TRUE
    BY <1>1 DEF Initialise
  <2>5. isActive' \in BOOLEAN /\ stopReq' \in BOOLEAN
    BY <1>1 DEF Initialise
  <2>7. starts' \in Nat
    BY <1>1 DEF Initialise
  <2>6. UNCHANGED <<mpc, shuts, fsm, inbox, work, reply, good, flag, clients,
                    events, steps, peerCount, totals, taken>>
    BY <1>1 DEF Initialise
  <2>2. TypeOK'
    BY <2>1, <2>5, <2>6, <2>7
  <2>3. Owing' /\ SocketHasOneUser'
    BY <2>1, <2>6
  <2> QED BY <2>2, <2>3
<1>2. CASE ShutdownBegin
  BY <1>2 DEF ShutdownBegin
<1>3. CASE ShutdownEnd
  <2>1. /\ pc = "none" /\ mpc' = "idle" /\ isActive' = FALSE
        /\ UNCHANGED <<stopReq, starts, shuts, pc, fsm, work, reply, good, flag,
                       steps, peerCount, totals, taken>>
    BY <1>3 DEF ShutdownEnd, ThreadGone
  <2>2. /\ clients' \in [Clients -> {"away", "idle", "waiting", "gone"}]
        /\ inbox' \in Seq(Requests)
        /\ events' \in Seq({"accepted", "disconnected"})
    BY <1>3, EndTypes DEF ShutdownEnd
  <2>3. TypeOK'
    BY <2>1, <2>2
  <2> QED BY <2>1, <2>3
<1>4. CASE CheckStop
  BY <1>4 DEF CheckStop
<1>5. CASE Recv
  <2>1. Head(inbox) \in Requests /\ Tail(inbox) \in Seq(Requests)
    BY <1>5, HeadTailProperties DEF Recv
  <2>2. Append(taken, Head(inbox)) \in Seq(Requests)
    BY <2>1, AppendProperties
  <2>3. TypeOK'
    BY <1>5, <2>1, <2>2 DEF Recv
  <2>4. /\ DOMAIN taken' = 1 .. Len(taken) + 1 /\ DOMAIN taken = 1 .. Len(taken)
        /\ \A i \in 1 .. Len(taken) : taken'[i] = taken[i]
        /\ taken'[Len(taken) + 1] = work' /\ Len(taken) \in Nat
    BY <1>5, <2>1 DEF Recv
  <2>5. Replies' => Replies
    BY <2>4
  <2>6. \E i \in DOMAIN taken' : taken'[i] = work'
    BY <2>4
  <2>7. /\ pc = "recv" /\ pc' = "work" /\ fsm = "recv" /\ fsm' = "send"
        /\ isActive' = isActive
    BY <1>5 DEF Recv
  <2> QED BY <2>3, <2>5, <2>6, <2>7
<1>6. CASE RecvTimesOut
  BY <1>6 DEF RecvTimesOut, AfterTimeout
<1>7. CASE RecvThrows
  BY <1>7 DEF RecvThrows, AfterThrow
<1>8. CASE Work
  <2>1. work \in Requests /\ work.kind \in AllKinds
    BY <1>8 DEF Work, Requests
  <2>2. reply' \in ReplySizes /\ (Hooked => reply' # <<>>)
    BY <1>8, <2>1, ReplyToTypes DEF Work
  <2> QED BY <1>8, <2>1, <2>2 DEF Work, AfterWork
<1>9. CASE WorkThrows
  <2>2. ~Replies
    BY <1>9 DEF WorkThrows
  <2> QED BY <1>9, <2>2 DEF WorkThrows, AfterThrow
<1>10. CASE Send
  <2>1. Moved(reply) \in ReplySizes /\ BytesOf(reply) \in Nat
    BY SizeTypes
  <2>2. clients' \in [Clients -> {"away", "idle", "waiting", "gone"}]
    BY <1>10 DEF Send
  <2>3. TypeOK'
    BY <1>10, <2>1, <2>2 DEF Send
  <2>4. Owing' /\ SocketHasOneUser'
    BY <1>10 DEF Send
  <2> QED BY <2>3, <2>4
<1>11. CASE Count
  <2>1. BytesOf(reply) \in Nat
    BY SizeTypes
  <2>2. totals' \in [succeeded : Nat, failed : Nat, uploaded : Nat]
    BY <1>11, <2>1 DEF Count, Succeeded
  <2>5. /\ pc' = "flag" /\ work' = NoRequest /\ reply' \in ReplySizes
        /\ good' \in BOOLEAN
    BY <1>11 DEF Count, ReplySizes
  <2>6. UNCHANGED <<mpc, isActive, stopReq, starts, shuts, fsm, inbox, flag,
                    clients, events, steps, peerCount, taken>>
    BY <1>11 DEF Count
  <2>3. TypeOK'
    BY <2>2, <2>5, <2>6
  <2>4. Owing' /\ SocketHasOneUser'
    BY <1>11 DEF Count
  <2> QED BY <2>3, <2>4
<1>12. CASE SetFlag
  BY <1>12 DEF SetFlag
<1>13. CASE Environment
  <2>1. ASSUME NEW c \in Clients, Connect(c)
        PROVE  IInv'
    BY <2>1, AppendProperties DEF Connect
  <2>2. ASSUME NEW c \in Clients, Disconnect(c)
        PROVE  IInv'
    BY <2>2, AppendProperties DEF Disconnect
  <2>3. ASSUME NEW c \in Clients, NEW k \in Kinds, Request(c, k)
        PROVE  IInv'
    <3>1. inbox' \in Seq(Requests)
      BY <2>3, AppendProperties DEF Request, Requests
    <3> QED BY <2>3, <3>1 DEF Request
  <2>4. CASE MonitorEvent
    <3>1. Tail(events) \in Seq({"accepted", "disconnected"})
      BY <2>4, HeadTailProperties DEF MonitorEvent
    <3> QED BY <2>4, <3>1 DEF MonitorEvent, Counted
  <2>5. CASE Alarm
    <3>1. flag' \in BOOLEAN
      BY <2>5 DEF Alarm
    <3>2. UNCHANGED <<mpc, isActive, stopReq, starts, shuts, pc, fsm, inbox,
                      work, reply, good, clients, events, steps,
                      peerCount, totals, taken>>
      BY <2>5 DEF Alarm
    <3>3. TypeOK'
      BY <3>1, <3>2
    <3>4. Owing' /\ SocketHasOneUser'
      BY <3>2
    <3> QED BY <3>3, <3>4
  <2> QED BY <1>13, <2>1, <2>2, <2>3, <2>4, <2>5 DEF Environment
<1>14. CASE UNCHANGED vars
  BY <1>14 DEF vars
<1> QED BY <1>1, <1>2, <1>3, <1>4, <1>5, <1>6, <1>7, <1>8, <1>9, <1>10, <1>11,
           <1>12, <1>13, <1>14 DEF Next, ServerStep

\* So it holds of every state.
LEMMA IInvHolds == Spec => []IInv
BY InitIInv, StepIInv, PTL DEF Spec

(* shutdown() and initialise(): if the callback always returns a reply, the *)
(* thread never ends, nor starts, while the REP socket owes one.           *)
THEOREM StopsBetweenRequestsHolds == Spec => []StopsBetweenRequests
<1>1. IInv => StopsBetweenRequests
  BY DEF IInv, TypeOK, Owing, StopsBetweenRequests
<1> QED BY <1>1, IInvHolds, PTL

-----------------------------------------------------------------------------
(* ZeroMQServer implements RequestReply.                                   *)

\* The invariant of the queue holds at first.
LEMMA InitQueueInv == Init => QueueInv
BY DEF Init, QueueInv, AtWork

\* Every step keeps it.
LEMMA StepQueueInv == IInv /\ QueueInv /\ [Next]_vars => QueueInv'
<1> SUFFICES ASSUME IInv, QueueInv, [Next]_vars
             PROVE  QueueInv'
  OBVIOUS
<1> USE ConstantsAssumption
<1> USE DEF mainVars, netVars, statVars
<1>0. /\ TypeOK /\ inbox \in Seq(Requests) /\ Len(inbox) \in Nat
      /\ \A i \in 1 .. Len(inbox) : inbox[i] \in Requests
  BY LenProperties, ElementOfSeq DEF IInv, TypeOK
<1>1. CASE UNCHANGED <<inbox, clients, work, fsm>> /\ (AtWork' => AtWork)
  BY <1>1 DEF QueueInv, AtWork, Asked
<1>2. CASE Recv
  <2>1. /\ work' = Head(inbox) /\ inbox' = Tail(inbox) /\ inbox # <<>>
        /\ fsm' = "send" /\ clients' = clients /\ ~AtWork
    BY <1>2 DEF Recv, AtWork
  <2>2. /\ Len(inbox') = Len(inbox) - 1 /\ work' = inbox[1]
        /\ \A i \in 1 .. Len(inbox) - 1 : inbox'[i] = inbox[i + 1]
    BY <1>0, <2>1, HeadTailProperties
  <2>3. Len(inbox) >= 1
    BY <1>0, <2>1
  <2>4. \A i \in 1 .. Len(inbox') : Asked(clients'[inbox'[i].client])
    BY <1>0, <2>1, <2>2 DEF QueueInv, Asked
  <2>5. \A i, j \in 1 .. Len(inbox') :
          inbox'[i].client = inbox'[j].client => i = j
    BY <1>0, <2>2 DEF QueueInv
  <2>6. Asked(clients'[work'.client])
    BY <1>0, <2>1, <2>2, <2>3 DEF QueueInv, Asked
  <2>7. \A i \in 1 .. Len(inbox') : inbox'[i].client # work'.client
    BY <1>0, <2>2, <2>3 DEF QueueInv
  <2> QED BY <2>1, <2>4, <2>5, <2>6, <2>7 DEF QueueInv
<1>3. CASE Send
  <2>1. ~AtWork' /\ inbox' = inbox /\ AtWork
    BY <1>3 DEF Send, AtWork
  <2>2. \A i \in 1 .. Len(inbox) : inbox[i].client # work.client
    BY <2>1 DEF QueueInv
  <2>3. \A c \in Clients : c # work.client => clients'[c] = clients[c]
    BY <1>0, <1>3 DEF Send, TypeOK
  <2>4. \A i \in 1 .. Len(inbox) : inbox[i].client \in Clients
    BY <1>0 DEF Requests
  <2>5. \A i \in 1 .. Len(inbox') : Asked(clients'[inbox'[i].client])
    BY <2>1, <2>2, <2>3, <2>4 DEF QueueInv, Asked
  <2> QED BY <2>1, <2>5 DEF QueueInv
<1>4. ASSUME NEW c \in Clients, NEW k \in Kinds, Request(c, k)
      PROVE  QueueInv'
  <2> DEFINE new == [client |-> c, kind |-> k]
  <2>1. /\ inbox' = Append(inbox, new) /\ clients[c] = "idle"
        /\ clients' = [clients EXCEPT ![c] = "waiting"]
        /\ UNCHANGED <<pc, work, fsm>>
    BY <1>4 DEF Request
  <2>2. new \in Requests /\ new.client = c
    BY DEF Requests
  <2> HIDE DEF new
  <2>3. /\ Len(inbox') = Len(inbox) + 1 /\ inbox'[Len(inbox) + 1] = new
        /\ \A i \in 1 .. Len(inbox) : inbox'[i] = inbox[i]
    BY <1>0, <2>1, <2>2, AppendProperties
  <2>4. /\ ~Asked(clients[c])
        /\ \A d \in Clients : Asked(clients[d]) => Asked(clients'[d])
    BY <1>0, <2>1 DEF Asked, TypeOK
  <2>5. Asked(clients'[c])
    BY <1>0, <2>1 DEF Asked, TypeOK
  <2>6. \A i \in 1 .. Len(inbox) :
          inbox[i].client \in Clients /\ Asked(clients[inbox[i].client])
    BY <1>0 DEF QueueInv, Requests
  <2>7. \A i \in 1 .. Len(inbox) : inbox[i].client # c
    BY <2>4, <2>6
  <2>8. \A i \in 1 .. Len(inbox') : Asked(clients'[inbox'[i].client])
    <3>1. \A i \in 1 .. Len(inbox) : Asked(clients'[inbox[i].client])
      BY <2>4, <2>6
    <3>2. \A i \in 1 .. Len(inbox') :
            \/ i \in 1 .. Len(inbox) /\ inbox'[i].client = inbox[i].client
            \/ inbox'[i].client = c
      BY <1>0, <2>2, <2>3
    <3> QED BY <2>5, <3>1, <3>2 DEF Asked
  <2>9. \A i, j \in 1 .. Len(inbox') :
          inbox'[i].client = inbox'[j].client => i = j
    BY <1>0, <2>2, <2>3, <2>7 DEF QueueInv
  <2>10. AtWork' => /\ AtWork /\ work.client \in Clients
                    /\ Asked(clients'[work.client]) /\ work.client # c
                    /\ \A i \in 1 .. Len(inbox) : inbox[i].client # work.client
    <3>1. AtWork => work.client \in Clients
      BY <1>0 DEF TypeOK, AtWork, Requests
    <3> QED BY <2>1, <2>4, <3>1 DEF QueueInv, AtWork
  <2>11. AtWork' =>
           /\ Asked(clients'[work'.client])
           /\ \A i \in 1 .. Len(inbox') : inbox'[i].client # work'.client
    BY <1>0, <2>1, <2>2, <2>3, <2>10
  <2> QED BY <2>1, <2>8, <2>9, <2>10, <2>11 DEF QueueInv
<1>5. ASSUME NEW c \in Clients, Connect(c) \/ Disconnect(c)
      PROVE  QueueInv'
  <2>1. UNCHANGED <<inbox, pc, work, fsm>>
    BY <1>5 DEF Connect, Disconnect
  <2>2. \A d \in Clients : Asked(clients[d]) => Asked(clients'[d])
    BY <1>0, <1>5 DEF Connect, Disconnect, Asked, TypeOK
  <2>3. /\ \A i \in 1 .. Len(inbox) : inbox[i].client \in Clients
        /\ AtWork => work.client \in Clients
    BY <1>0 DEF TypeOK, Requests, AtWork
  <2>4. /\ \A i \in 1 .. Len(inbox) : Asked(clients'[inbox[i].client])
        /\ AtWork => Asked(clients'[work'.client])
    BY <2>1, <2>2, <2>3 DEF QueueInv
  <2> QED BY <2>1, <2>4 DEF QueueInv, AtWork, Asked
<1>6. ASSUME \/ Initialise \/ ShutdownBegin \/ CheckStop
             \/ RecvTimesOut \/ RecvThrows \/ Work \/ SetFlag
             \/ MonitorEvent \/ Alarm \/ UNCHANGED vars
      PROVE  QueueInv'
  <2>1. UNCHANGED <<inbox, clients, work, fsm>>
    BY <1>6 DEF Initialise, ShutdownBegin, CheckStop, RecvTimesOut,
       RecvThrows, Work, SetFlag, MonitorEvent, Alarm, vars
  <2>2. AtWork' => AtWork
    BY <1>6 DEF Initialise, ShutdownBegin, CheckStop, RecvTimesOut,
       RecvThrows, Work, SetFlag, MonitorEvent, Alarm, vars, AtWork,
       AfterTimeout, AfterThrow, AfterWork
  <2> QED BY <1>1, <2>1, <2>2
<1>8. CASE ShutdownEnd
  <2>1. ~AtWork' /\ fsm' = fsm
    BY <1>8 DEF ShutdownEnd, ThreadGone, AtWork
  <2>2. \A d \in Clients : Asked(clients[d]) => Asked(clients'[d])
    BY <1>0, <1>8 DEF ShutdownEnd, Unbind, Connected, Asked, TypeOK
  <2>3. inbox' = inbox \/ inbox' = <<>>
    BY <1>8 DEF ShutdownEnd, Unbind
  <2>4. CASE inbox' = inbox
    <3>1. \A i \in 1 .. Len(inbox) : inbox[i].client \in Clients
      BY <1>0 DEF Requests
    <3>2. \A i \in 1 .. Len(inbox') : Asked(clients'[inbox'[i].client])
      BY <2>2, <2>4, <3>1 DEF QueueInv
    <3> QED BY <2>1, <2>4, <3>2 DEF QueueInv
  <2>5. CASE inbox' = <<>>
    <3>1. Len(inbox') = 0
      BY <2>5
    <3> QED BY <2>1, <3>1 DEF QueueInv
  <2> QED BY <2>3, <2>4, <2>5
<1>7. CASE WorkThrows \/ Count
  <2>1. UNCHANGED <<inbox, clients, fsm>> /\ ~AtWork'
    BY <1>7 DEF WorkThrows, Count, AtWork, AfterThrow
  <2> QED BY <2>1 DEF QueueInv, Asked
<1> QED BY <1>2, <1>3, <1>4, <1>5, <1>6, <1>7, <1>8
        DEF Next, ServerStep, Environment

\* So it holds of every state.
LEMMA QueueInvHolds == Spec => []QueueInv
<1>1. IInv /\ QueueInv /\ [Next]_vars => QueueInv'
  BY StepQueueInv
<1> QED BY <1>1, InitQueueInv, IInvHolds, PTL DEF Spec

(* The clients of a list of requests.                                      *)
Senders(rs) == [i \in DOMAIN rs |-> rs[i].client]

\* The senders of a queue are clients, one for each request.
LEMMA SendersTypes ==
  ASSUME NEW rs \in Seq(Requests)
  PROVE  /\ Senders(rs) \in Seq(Clients) /\ Len(Senders(rs)) = Len(rs)
         /\ Len(rs) \in Nat
         /\ \A i \in 1 .. Len(rs) :
              Senders(rs)[i] = rs[i].client /\ rs[i].client \in Clients
<1>1. Len(rs) \in Nat /\ DOMAIN rs = 1 .. Len(rs)
  BY LenProperties
<1>2. \A i \in 1 .. Len(rs) : rs[i] \in Requests
  BY ElementOfSeq
<1> DEFINE n == Len(rs)
           e(i) == rs[i].client
<1>3. Senders(rs) = [i \in 1 .. n |-> e(i)]
  BY <1>1 DEF Senders
<1>4. n \in Nat /\ \A i \in 1 .. n : e(i) \in Clients
  BY <1>1, <1>2 DEF Requests
<1> HIDE DEF n, e
<1>5. Senders(rs) \in Seq(Clients) /\ Len(Senders(rs)) = n
  BY <1>3, <1>4
<1>6. \A i \in 1 .. n : Senders(rs)[i] = e(i)
  BY <1>3
<1> QED BY <1>1, <1>4, <1>5, <1>6 DEF n, e

\* A request that comes appends its sender.
LEMMA SendersAppend ==
  ASSUME NEW rs \in Seq(Requests), NEW r \in Requests
  PROVE  Senders(Append(rs, r)) = Append(Senders(rs), r.client)
<1> DEFINE tt == Append(rs, r)
<1>1. /\ tt \in Seq(Requests) /\ Len(tt) = Len(rs) + 1
      /\ \A i \in 1 .. Len(rs) : tt[i] = rs[i]
      /\ tt[Len(rs) + 1] = r
  BY AppendProperties
<1> HIDE DEF tt
<1>2. r.client \in Clients
  BY DEF Requests
<1>3. /\ Senders(rs) \in Seq(Clients) /\ Len(Senders(rs)) = Len(rs)
      /\ Len(rs) \in Nat
      /\ \A i \in 1 .. Len(rs) : Senders(rs)[i] = rs[i].client
  BY SendersTypes
<1>4. /\ Senders(tt) \in Seq(Clients) /\ Len(Senders(tt)) = Len(rs) + 1
      /\ \A i \in 1 .. Len(rs) + 1 : Senders(tt)[i] = tt[i].client
  BY <1>1, SendersTypes
<1> DEFINE uu == Append(Senders(rs), r.client)
<1>5. /\ uu \in Seq(Clients) /\ Len(uu) = Len(rs) + 1
      /\ \A i \in 1 .. Len(rs) : uu[i] = Senders(rs)[i]
      /\ uu[Len(rs) + 1] = r.client
  BY <1>2, <1>3, AppendProperties
<1> HIDE DEF uu
<1>6. \A i \in 1 .. Len(rs) + 1 : Senders(tt)[i] = uu[i]
  BY <1>1, <1>3, <1>4, <1>5
<1>7. Senders(tt) = uu
  BY <1>4, <1>5, <1>6, SeqEqual
<1> QED BY <1>7 DEF tt, uu

\* Taking the oldest request takes its sender.
LEMMA SendersTail ==
  ASSUME NEW rs \in Seq(Requests), rs # <<>>
  PROVE  Senders(rs) = <<Head(rs).client>> \o Senders(Tail(rs))
<1> DEFINE tt == Tail(rs)
           c == Head(rs).client
<1>1. /\ tt \in Seq(Requests) /\ Len(tt) = Len(rs) - 1
      /\ \A i \in 1 .. Len(rs) - 1 : tt[i] = rs[i + 1]
      /\ Head(rs) = rs[1]
  BY HeadTailProperties
<1>2. /\ Senders(rs) \in Seq(Clients) /\ Len(Senders(rs)) = Len(rs)
      /\ Len(rs) \in Nat /\ Len(rs) >= 1
      /\ \A i \in 1 .. Len(rs) :
           Senders(rs)[i] = rs[i].client /\ rs[i].client \in Clients
  BY SendersTypes
<1>3. c = rs[1].client /\ c \in Clients
  BY <1>1, <1>2
<1> HIDE DEF tt, c
<1>4. /\ Senders(tt) \in Seq(Clients) /\ Len(Senders(tt)) = Len(rs) - 1
      /\ \A i \in 1 .. Len(rs) - 1 : Senders(tt)[i] = tt[i].client
  BY <1>1, SendersTypes
<1> DEFINE uu == <<c>> \o Senders(tt)
<1>5. <<c>> \in Seq(Clients) /\ Len(<<c>>) = 1 /\ <<c>>[1] = c
  BY <1>3
<1>6. /\ uu \in Seq(Clients) /\ Len(uu) = Len(rs)
      /\ uu[1] = c
      /\ \A i \in 2 .. Len(rs) : uu[i] = Senders(tt)[i - 1]
  BY <1>2, <1>4, <1>5, ConcatProperties
<1> HIDE DEF uu
<1>7. ASSUME NEW i \in 1 .. Len(rs)
      PROVE  Senders(rs)[i] = uu[i]
  <2>1. CASE i = 1
    BY <1>2, <1>3, <1>6, <2>1
  <2>2. CASE i # 1
    <3>1. i \in 2 .. Len(rs) /\ i - 1 \in 1 .. Len(rs) - 1 /\ (i - 1) + 1 = i
      BY <1>2, <2>2
    <3>2. tt[i - 1] = rs[i]
      BY <1>1, <3>1
    <3> QED BY <1>2, <1>4, <1>6, <3>1, <3>2
  <2> QED BY <2>1, <2>2
<1>8. Senders(rs) = uu
  BY <1>2, <1>6, <1>7, SeqEqual
<1> QED BY <1>8 DEF tt, c, uu

(* The requests not answered: those in the socket, and one in front.       *)
LEMMA UnansweredIs ==
  ASSUME TypeOK
  PROVE  /\ ~AtWork => Unanswered = Senders(inbox)
         /\ AtWork => /\ work.client \in Clients
                      /\ Unanswered = <<work.client>> \o Senders(inbox)
         /\ InWork \in Seq(Clients) /\ Senders(inbox) \in Seq(Clients)
         /\ Unanswered = InWork \o Senders(inbox)
         /\ Unanswered \in Seq(Clients)
<1>1. inbox \in Seq(Requests) /\ (AtWork => work \in Requests)
  BY DEF TypeOK, AtWork
<1>2. Senders(inbox) \in Seq(Clients)
  BY <1>1, SendersTypes
<1>3. AtWork => work.client \in Clients
  BY <1>1 DEF Requests
<1>4. Unanswered = InWork \o Senders(inbox)
  BY DEF Unanswered, Senders
<1>5. CASE ~AtWork
  <2>1. InWork = <<>>
    BY <1>5 DEF InWork, AtWork
  <2>2. Unanswered = Senders(inbox)
    BY <1>2, <1>4, <2>1, ConcatEmptySeq
  <2> QED BY <1>2, <1>4, <1>5, <2>1, <2>2
<1>6. CASE AtWork
  <2>1. InWork = <<work.client>>
    BY <1>6 DEF InWork, AtWork
  <2>2. <<work.client>> \in Seq(Clients)
    BY <1>3, <1>6
  <2>3. <<work.client>> \o Senders(inbox) \in Seq(Clients)
    BY <1>2, <2>2, ConcatProperties
  <2> QED BY <1>2, <1>3, <1>4, <1>6, <2>1, <2>2, <2>3
<1> QED BY <1>5, <1>6

\* The initial states correspond.
LEMMA InitServes == Init => Service!Init
<1> SUFFICES ASSUME Init
             PROVE  Service!Init
  OBVIOUS
<1>1. Unanswered = <<>>
  <2>1. TypeOK
    BY InitIInv DEF IInv
  <2>2. ~AtWork /\ inbox = <<>>
    BY DEF Init, AtWork
  <2>3. Unanswered = Senders(inbox) /\ Len(inbox) = 0
    BY <2>1, <2>2, UnansweredIs
  <2>4. Senders(inbox) \in Seq(Clients) /\ Len(Senders(inbox)) = 0
    BY <2>1, <2>3, SendersTypes DEF TypeOK
  <2> QED BY <2>3, <2>4
<1> QED BY <1>1 DEF Init, Service!Init, Broken

(* What a step that the service does not see leaves alone.                 *)
LEMMA Unseen ==
  ASSUME UNCHANGED <<isActive, Broken, clients, Unanswered>>
  PROVE  [Service!Next]_Service!vars
BY DEF Service!vars

\* One step of the server is at most one step of the service.
LEMMA StepServes ==
  IInv /\ IInv' /\ QueueInv /\ [Next]_vars => [Service!Next]_Service!vars
<1> SUFFICES ASSUME IInv, IInv', QueueInv, [Next]_vars
             PROVE  [Service!Next]_Service!vars
  OBVIOUS
<1> USE DEF mainVars, netVars, statVars
<1>0. TypeOK /\ TypeOK' /\ SocketHasOneUser
  BY DEF IInv
<1>1. CASE Initialise
  <2>1. UNCHANGED <<Broken, clients, Unanswered>>
    <3>1. pc = "none" /\ pc' = "top"
      BY <1>0, <1>1 DEF Initialise, SocketHasOneUser
    <3> QED BY <1>1, <3>1 DEF Initialise, Broken, Unanswered, InWork
  <2>2. ~isActive /\ isActive' = TRUE
    BY <1>1 DEF Initialise
  <2> QED BY <2>1, <2>2 DEF Service!Next, Service!Start
<1>2. CASE ShutdownEnd
  <2>1. /\ isActive' = FALSE /\ ~AtWork /\ ~AtWork'
        /\ UNCHANGED <<Broken, InWork, fsm>>
    BY <1>2 DEF ShutdownEnd, ThreadGone, Broken, InWork, AtWork
  <2>2. Unanswered = Senders(inbox) /\ Unanswered' = Senders(inbox')
    <3>1. InWork' = <<>>
      BY <2>1 DEF InWork, AtWork
    <3>2. inbox' \in Seq(Requests)
      BY <1>0 DEF TypeOK
    <3>3. Unanswered' = <<>> \o Senders(inbox') /\ Senders(inbox') \in Seq(Clients)
      BY <3>1, <3>2, SendersTypes DEF Unanswered, Senders
    <3> QED BY <1>0, <2>1, <3>3, UnansweredIs, ConcatEmptySeq
  <2>3. CASE isActive /\ Unbind
    <3>1. Unanswered' \in {Unanswered, <<>>}
      <4>1. CASE inbox' = inbox
        BY <2>2, <4>1
      <4>2. CASE inbox' = <<>>
        <5>1. inbox' \in Seq(Requests) /\ Len(inbox') = 0
          BY <4>2
        <5>2. Senders(inbox') \in Seq(Clients) /\ Len(Senders(inbox')) = 0
          BY <5>1, SendersTypes
        <5> QED BY <2>2, <5>2
      <4> QED BY <2>3, <4>1, <4>2 DEF Unbind
    <3>2. clients' = [c \in Clients |-> IF clients[c] \in {"idle", "waiting"}
                                        THEN "gone" ELSE clients[c]]
      BY <2>3 DEF Unbind, Connected
    <3>3. Service!Stop
      BY <2>1, <2>3, <3>1, <3>2 DEF Service!Stop
    <3> QED BY <3>3 DEF Service!Next
  <2>4. CASE ~isActive /\ UNCHANGED <<clients, inbox, events>>
    <3>1. UNCHANGED <<isActive, Broken, clients, Unanswered>>
      BY <1>0, <2>1, <2>2, <2>4 DEF TypeOK
    <3> QED BY <3>1, Unseen
  <2> QED BY <1>2, <2>3, <2>4 DEF ShutdownEnd
<1>3. CASE Recv
  <2>1. /\ pc = "recv" /\ pc' = "work" /\ fsm = "recv" /\ inbox # <<>>
        /\ work' = Head(inbox) /\ inbox' = Tail(inbox)
        /\ UNCHANGED <<isActive, clients>>
    BY <1>3 DEF Recv
  <2>2. Broken = FALSE /\ Broken' = FALSE /\ ~AtWork /\ AtWork'
    BY <2>1 DEF Broken, AtWork
  <2>3. Unanswered = Senders(inbox)
    BY <1>0, <2>2, UnansweredIs
  <2>4. Unanswered' = <<work'.client>> \o Senders(inbox')
    BY <2>1 DEF Unanswered, InWork, Senders
  <2>5. Unanswered' = Unanswered
    BY <1>0, <2>1, <2>3, <2>4, SendersTail DEF TypeOK
  <2> QED BY <2>1, <2>2, <2>5, Unseen
<1>4. CASE Send \/ WorkThrows
  <2> DEFINE c == work.client
             q == Senders(inbox)
  <2>1. /\ AtWork /\ ~AtWork' /\ inbox' = inbox /\ isActive' = isActive
        /\ pc # "none"
    BY <1>4 DEF Send, WorkThrows, AtWork, AfterThrow
  <2>2. isActive = TRUE /\ fsm = "send" /\ Broken = FALSE
    BY <1>0, <2>1 DEF SocketHasOneUser, QueueInv, Broken, AtWork, TypeOK
  <2>3. c \in Clients /\ q \in Seq(Clients) /\ Unanswered = <<c>> \o q
    BY <1>0, <2>1, UnansweredIs
  <2>4. Unanswered' = q
    <3>1. Unanswered' = Senders(inbox')
      <4>1. InWork' = <<>>
        BY <2>1 DEF InWork, AtWork
      <4>2. Unanswered' = <<>> \o Senders(inbox')
        BY <4>1 DEF Unanswered, Senders
      <4>3. Senders(inbox') \in Seq(Clients)
        BY <2>1, <2>3
      <4> QED BY <4>2, <4>3, ConcatEmptySeq
    <3> QED BY <2>1, <3>1
  <2>5. clients[c] \in {"waiting", "gone"}
    BY <2>1 DEF QueueInv, Asked
  <2> HIDE DEF c, q
  <2>6. Unanswered # <<>> /\ Head(Unanswered) = c /\ Unanswered' = Tail(Unanswered)
    BY <2>3, <2>4, PutInFront
  <2>7. CASE Send /\ reply # <<>>
    <3>1. fsm' = "recv" /\ Broken' = FALSE
      BY <2>7 DEF Send, Broken
    <3>2. clients' = IF clients[c] = "waiting"
                     THEN [clients EXCEPT ![c] = "idle"] ELSE clients
      BY <2>7 DEF Send, c
    <3>3. \/ Service!Goes(c, {"waiting"}, "idle")
          \/ clients[c] = "gone" /\ UNCHANGED clients
      BY <2>5, <3>2 DEF Service!Goes
    <3>4. Service!Answer
      BY <2>1, <2>2, <2>6, <3>1, <3>3 DEF Service!Answer
    <3> QED BY <3>4 DEF Service!Next
  <2>8. CASE WorkThrows \/ (Send /\ reply = <<>>)
    <3>1. /\ fsm' = "send" /\ clients' = clients
          /\ pc' \in {"top", "count"}
      <4>1. CASE WorkThrows
        BY <2>2, <4>1 DEF WorkThrows, AfterThrow
      <4>2. CASE Send /\ reply = <<>>
        BY <2>2, <4>2 DEF Send
      <4> QED BY <2>8, <4>1, <4>2
    <3>2. Broken' = TRUE
      BY <3>1 DEF Broken
    <3>3. Service!Fail
      BY <2>1, <2>2, <2>6, <3>1, <3>2 DEF Service!Fail
    <3> QED BY <3>3 DEF Service!Next
  <2>9. \/ Send /\ reply # <<>>
        \/ WorkThrows \/ (Send /\ reply = <<>>)
    BY <1>4
  <2> QED BY <2>7, <2>8, <2>9
<1>5. ASSUME NEW c \in Clients, NEW k \in Kinds, Request(c, k)
      PROVE  [Service!Next]_Service!vars
  <2> DEFINE r == [client |-> c, kind |-> k]
  <2>1. /\ inbox' = Append(inbox, r)
        /\ UNCHANGED <<isActive, pc, work, fsm>>
    BY <1>5 DEF Request
  <2>2. r \in Requests /\ r.client = c
    BY DEF Requests
  <2> HIDE DEF r
  <2>3. Senders(inbox') = Append(Senders(inbox), c)
    BY <1>0, <2>1, <2>2, SendersAppend DEF TypeOK
  <2>4. /\ InWork \in Seq(Clients) /\ Senders(inbox) \in Seq(Clients)
        /\ Unanswered = InWork \o Senders(inbox) /\ Unanswered \in Seq(Clients)
    BY <1>0, UnansweredIs
  <2>5. Unanswered' = InWork \o Senders(inbox')
    BY <2>1 DEF Unanswered, InWork, Senders
  <2>6. <<c>> \in Seq(Clients) /\ Senders(inbox') = Senders(inbox) \o <<c>>
    BY <2>3, <2>4, AppendIsConcat
  <2>7. Unanswered' = Unanswered \o <<c>>
    BY <2>4, <2>5, <2>6, ConcatAssociative
  <2>8. Unanswered' = Append(Unanswered, c)
    BY <2>4, <2>7, AppendIsConcat
  <2>9. UNCHANGED <<isActive, Broken>>
    BY <2>1 DEF Broken
  <2>10. Service!Goes(c, {"idle"}, "waiting")
    BY <1>5 DEF Request, Service!Goes
  <2> QED BY <2>8, <2>9, <2>10 DEF Service!Next, Service!Ask
<1>6. ASSUME NEW c \in Clients, Connect(c)
      PROVE  [Service!Next]_Service!vars
  <2>1. UNCHANGED <<isActive, Broken, Unanswered>> /\ isActive
    BY <1>6 DEF Connect, Broken, Unanswered, InWork
  <2>2. Service!Goes(c, {"away"}, "idle")
    BY <1>6 DEF Connect, Service!Goes
  <2> QED BY <2>1, <2>2 DEF Service!Next, Service!Come
<1>7. ASSUME NEW c \in Clients, Disconnect(c)
      PROVE  [Service!Next]_Service!vars
  <2>1. UNCHANGED <<isActive, Broken, Unanswered>>
    BY <1>7 DEF Disconnect, Broken, Unanswered, InWork
  <2>2. Service!Goes(c, {"idle", "waiting"}, "gone")
    BY <1>7 DEF Disconnect, Service!Goes
  <2> QED BY <2>1, <2>2 DEF Service!Next, Service!Leave
<1>8. CASE \/ ShutdownBegin \/ CheckStop \/ RecvTimesOut \/ RecvThrows
           \/ Count \/ SetFlag \/ MonitorEvent \/ Alarm \/ UNCHANGED vars
  <2>1. UNCHANGED <<isActive, clients, fsm, inbox>>
    BY <1>8 DEF ShutdownBegin, CheckStop, RecvTimesOut, RecvThrows, Count,
       SetFlag, MonitorEvent, Alarm, vars
  <2>2. (pc' = pc /\ work' = work) \/ (~AtWork /\ ~AtWork')
    BY <1>8 DEF ShutdownBegin, CheckStop, RecvTimesOut, RecvThrows, Count,
       SetFlag, MonitorEvent, Alarm, vars, AtWork, AfterTimeout, AfterThrow
  <2>3. UNCHANGED <<Broken, Unanswered>>
    BY <2>1, <2>2 DEF Broken, Unanswered, InWork, AtWork
  <2> QED BY <2>1, <2>3, Unseen
<1>9. CASE Work
  <2>1. pc = "work" /\ pc' = "send"
    BY <1>9 DEF Work, AfterWork
  <2>2. UNCHANGED <<isActive, clients, fsm, inbox, work>>
    BY <1>9 DEF Work
  <2>3. UNCHANGED <<Broken, Unanswered>>
    BY <2>1, <2>2 DEF Broken, Unanswered, InWork
  <2> QED BY <2>2, <2>3, Unseen
<1> QED BY <1>1, <1>2, <1>3, <1>4, <1>5, <1>6, <1>7, <1>8, <1>9
        DEF Next, ServerStep, Environment

(* The server thread, initialise() and shutdown(), the socket and the      *)
(* clients together do what RequestReply promises, also when a callback    *)
(* throws or is not set.                                                   *)
THEOREM ServiceImplemented == Spec => ImplementsService
<1>1. Init => Service!Init
  BY InitServes
<1>2. IInv /\ IInv' /\ QueueInv /\ [Next]_vars => [Service!Next]_Service!vars
  BY StepServes
<1> QED BY <1>1, <1>2, IInvHolds, QueueInvHolds, PTL
        DEF Spec, ImplementsService, Service!Spec

-----------------------------------------------------------------------------
(* The counters.                                                           *)

\* The requests that the callback carries out.
Carried == {r \in Requests : r.kind = "good"}

\* The requests that succeed are occurrences in what was taken.
LEMMA SucceedingIs ==
  ASSUME TypeOK
  PROVE  /\ Succeeding = Occurrences(taken, Carried)
         /\ Cardinality(Succeeding) \in Nat /\ Len(taken) \in Nat
<1>1. taken \in Seq(Requests)
  BY DEF TypeOK
<1>2. \A i \in DOMAIN taken : taken[i] \in Requests
  BY <1>1, ElementOfSeq, LenProperties
<1>3. Succeeding = Occurrences(taken, Carried)
  BY <1>2 DEF Succeeding, Occurrences, Carried
<1> QED BY <1>1, <1>3, OccurrencesTypes, LenProperties

\* The invariant of the counters holds at first.
LEMMA InitCountInv == Init => CountInv
<1> SUFFICES ASSUME Init PROVE CountInv
  OBVIOUS
<1>1. Succeeding = {} /\ Len(taken) = 0 /\ pc = "none"
  BY DEF Init, Succeeding
<1> QED BY <1>1, FS_EmptySet DEF Init, CountInv, InProgress

\* Every step keeps it.
LEMMA StepCountInv == IInv /\ IInv' /\ CountInv /\ [Next]_vars => CountInv'
<1> SUFFICES ASSUME IInv, IInv', CountInv, [Next]_vars, Replies'
             PROVE  CountInv'
  BY DEF CountInv
<1> USE DEF mainVars, netVars, statVars
<1>0. /\ TypeOK /\ TypeOK' /\ Owing
      /\ totals.succeeded \in Nat /\ totals.failed \in Nat
      /\ Cardinality(Succeeding) \in Nat /\ Len(taken) \in Nat
  BY SucceedingIs DEF IInv, TypeOK
<1>1. CASE Recv
  <2> DEFINE r == Head(inbox)
  <2>1. /\ pc = "recv" /\ pc' = "work" /\ work' = r
        /\ taken' = Append(taken, r) /\ totals' = totals
        /\ r \in Requests /\ taken \in Seq(Requests)
    BY <1>0, <1>1, HeadTailProperties DEF Recv, TypeOK
  <2> HIDE DEF r
  <2>2. /\ Len(taken') = Len(taken) + 1
        /\ DOMAIN taken = 1 .. Len(taken) /\ DOMAIN taken' = 1 .. Len(taken) + 1
        /\ \A i \in 1 .. Len(taken) : taken'[i] = taken[i]
    BY <2>1, AppendProperties, LenProperties
  <2>3. Replies
    BY <1>0, <2>2 DEF Replies
  <2>4. Cardinality(Succeeding')
          = Cardinality(Succeeding) + (IF r.kind = "good" THEN 1 ELSE 0)
    <3>1. Succeeding' = Occurrences(taken', Carried)
      <4>1. \A i \in DOMAIN taken' : taken'[i] \in Requests
        <5>1. taken' \in Seq(Requests)
          BY <1>0 DEF TypeOK
        <5> QED BY <5>1, ElementOfSeq, LenProperties
      <4> QED BY <4>1 DEF Succeeding, Occurrences, Carried
    <3>2. Cardinality(Occurrences(taken', Carried))
            = Cardinality(Occurrences(taken, Carried))
                + (IF r \in Carried THEN 1 ELSE 0)
      BY <2>1, OccurrencesAppend
    <3>3. r \in Carried <=> r.kind = "good"
      BY <2>1 DEF Carried
    <3> QED BY <1>0, <3>1, <3>2, <3>3, SucceedingIs
  <2> QED BY <1>0, <2>1, <2>2, <2>3, <2>4 DEF CountInv, InProgress
<1>2. CASE ~Recv
  <2>1. taken' = taken
    BY <1>2 DEF Next, ServerStep, Environment, Initialise, ShutdownBegin,
       ShutdownEnd, CheckStop, RecvTimesOut, RecvThrows, Work, WorkThrows,
       Send, Count, SetFlag, Connect, Request, Disconnect, MonitorEvent,
       Alarm, vars
  <2>2. Replies /\ Succeeding' = Succeeding /\ Len(taken') = Len(taken)
    BY <2>1 DEF Replies, Succeeding
  <2>3. /\ totals.succeeded + totals.failed + (IF InProgress THEN 1 ELSE 0)
             = Len(taken)
        /\ totals.succeeded
             + (IF InProgress /\ work.kind = "good" THEN 1 ELSE 0)
             = Cardinality(Succeeding)
        /\ pc \in {"send", "count"} => (good <=> work.kind = "good")
    BY <2>2 DEF CountInv
  <2>4. CASE Work
    <3>1. pc = "work" /\ pc' = "send" /\ UNCHANGED <<work, totals>>
      BY <2>4 DEF Work, AfterWork
    <3>2. good' <=> work.kind = "good"
      BY <2>2, <2>4 DEF Work, Replies
    <3> QED BY <2>2, <2>3, <3>1, <3>2 DEF CountInv, InProgress
  <2>5. CASE WorkThrows
    <3>1. pc = "work" /\ work.kind = "throw"
      BY <2>5 DEF WorkThrows
    <3>2. \E i \in DOMAIN taken : taken[i] = work
      BY <1>0, <3>1 DEF Owing
    <3> QED BY <2>2, <3>1, <3>2 DEF Replies
  <2>6. CASE Send
    <3>1. pc = "send" /\ pc' = "count" /\ UNCHANGED <<work, good, totals>>
      BY <2>6 DEF Send
    <3> QED BY <2>2, <2>3, <3>1 DEF CountInv, InProgress
  <2>7. CASE Count
    <3>1. pc = "count" /\ pc' = "flag" /\ InProgress
      BY <2>7 DEF Count, InProgress
    <3>2. /\ totals'.succeeded = IF good THEN totals.succeeded + 1
                                 ELSE totals.succeeded
          /\ totals'.failed = totals.failed + (IF good THEN 0 ELSE 1)
      BY <2>7 DEF Count, Succeeded
    <3>4. totals'.succeeded + totals'.failed = Len(taken)
      BY <1>0, <2>3, <3>1, <3>2
    <3>5. totals'.succeeded = Cardinality(Succeeding)
      BY <1>0, <2>3, <3>1, <3>2
    <3>6. ~InProgress' /\ pc' = "flag"
      BY <3>1 DEF InProgress
    <3>7. totals'.succeeded \in Nat /\ totals'.failed \in Nat
      BY <1>0 DEF TypeOK
    <3> QED BY <1>0, <2>2, <3>4, <3>5, <3>6, <3>7 DEF CountInv
  <2>8. CASE ~(Work \/ WorkThrows \/ Send \/ Count)
    <3>1. /\ UNCHANGED <<work, good, reply, totals>>
          /\ \/ pc' = pc
             \/ /\ pc \in {"none", "top", "recv", "flag"}
                /\ pc' \in {"none", "top", "recv", "flag"}
      <4>1. CASE ShutdownBegin \/ ShutdownEnd \/ CheckStop \/ RecvTimesOut
                  \/ RecvThrows \/ SetFlag
        BY <4>1 DEF ShutdownBegin, ShutdownEnd, CheckStop, RecvTimesOut,
           AfterTimeout, RecvThrows, AfterThrow, SetFlag
      <4>2. CASE Initialise
        <5>1. pc = "none"
          BY <4>2 DEF Initialise, IInv, SocketHasOneUser
        <5> QED BY <4>2, <5>1 DEF Initialise
      <4>3. CASE Environment \/ UNCHANGED vars
        BY <4>3 DEF Environment, Connect, Request, Disconnect, MonitorEvent,
           Alarm, vars
      <4> QED BY <1>2, <2>8, <4>1, <4>2, <4>3 DEF Next, ServerStep
    <3> QED BY <2>2, <2>3, <3>1 DEF CountInv, InProgress
  <2> QED BY <2>4, <2>5, <2>6, <2>7, <2>8
<1> QED BY <1>1, <1>2

\* So it holds of every state.
LEMMA CountInvHolds == Spec => []CountInv
<1>1. IInv /\ IInv' /\ CountInv /\ [Next]_vars => CountInv'
  BY StepCountInv
<1> QED BY <1>1, InitCountInv, IInvHolds, PTL DEF Spec

(* The invariant the other proofs rest on: the types, whom the socket owes  *)
(* a reply, who uses it, whose requests it holds, and which are counted.   *)
THEOREM InductiveHolds == Spec => []Inductive
<1>1. IInv /\ QueueInv /\ CountInv => Inductive
  BY DEF IInv, Inductive
<1> QED BY <1>1, IInvHolds, QueueInvHolds, CountInvHolds, PTL

(* consumeStats(): if the callback always returns a reply, between two      *)
(* rounds every request taken is in exactly one of the counters, by its     *)
(* outcome.                                                                *)
THEOREM EachCountedOnceHolds == Spec => []EachCountedOnce
<1>1. Inductive => EachCountedOnce
  <2> SUFFICES ASSUME Inductive, Replies, pc \in {"none", "top", "recv", "flag"}
               PROVE  /\ totals.succeeded = Cardinality(Succeeding)
                      /\ totals.succeeded + totals.failed = Len(taken)
    BY DEF EachCountedOnce
  <2>1. /\ ~InProgress /\ CountInv
        /\ totals.succeeded \in Nat /\ totals.failed \in Nat
    BY DEF Inductive, TypeOK, InProgress
  <2> QED BY <2>1 DEF CountInv
<1> QED BY <1>1, InductiveHolds, PTL
=============================================================================
