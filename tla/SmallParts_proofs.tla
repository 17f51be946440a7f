------------------------- MODULE SmallParts_proofs -------------------------
(***************************************************************************)
(* Proofs about the four small parts, for every number of threads, objects, *)
(* registries, descriptors and bytes.                                      *)
(***************************************************************************)
EXTENDS SmallParts, DataLemmas

-----------------------------------------------------------------------------
(* ProcessMetrics.                                                         *)

\* The disk gauges and what getDiskIO() remembers.
ProcessInv == Process!TypeOK /\ Process!DiskBytesAddUp

\* The self monitor's invariant holds at first.
LEMMA ProcessInit == Process!Init => ProcessInv
<1> SUFFICES ASSUME Process!Init PROVE ProcessInv
  OBVIOUS
<1> USE PartsAssumption
    DEF Process!Init, Process!Nothing, Process!Pair
<1>1. Process!TypeOK
  <2>1. [read |-> 0, write |-> 0] \in Process!Bytes
    BY DEF Process!Bytes
  <2>2. readBytes \in 0 .. MaxFileBytes /\ rounds \in 0 .. MaxRounds
    OBVIOUS
  <2>3. stopReq \in BOOLEAN /\ flag \in BOOLEAN
    OBVIOUS
  <2> QED  BY <2>1, <2>2, <2>3 DEF Process!TypeOK
<1>2. Process!DiskBytesAddUp
  BY DEF Process!DiskBytesAddUp
<1> QED  BY <1>1, <1>2 DEF ProcessInv

\* One step of the thread, of the kernel, or of who stops the thread.
LEMMA ProcessKeeps == ASSUME ProcessInv, Process!Next PROVE ProcessInv'
<1> USE PartsAssumption
    DEF ProcessInv, Process!TypeOK, Process!DiskBytesAddUp, Process!Bytes,
        Process!Nothing, Process!Pair, Process!diskVars, Process!gaugeVars
<1>1. CASE Process!CheckStop
  BY <1>1 DEF Process!CheckStop
<1>2. CASE Process!FindReadBytes
  BY <1>2 DEF Process!FindReadBytes, Process!Remembered
<1>3. CASE Process!FindWriteBytes
  BY <1>3 DEF Process!FindWriteBytes, Process!Difference
<1>4. CASE Process!FindsNothing
  BY <1>4 DEF Process!FindsNothing
<1>5. CASE Process!SetGauges
  BY <1>5 DEF Process!SetGauges
<1>6. CASE Process!SetFlag
  BY <1>6 DEF Process!SetFlag
<1>7. CASE Process!UpdateThrows
  BY <1>7 DEF Process!UpdateThrows
<1>8. CASE Process!Wake
  BY <1>8 DEF Process!Wake
<1>9. CASE \E kind \in {"read", "write"} : Process!Transfer(kind)
  BY <1>9 DEF Process!Transfer
<1>10. CASE Process!Alarm
  BY <1>10 DEF Process!Alarm
<1>11. CASE Process!RequestStop
  BY <1>11 DEF Process!RequestStop
<1> QED
  BY <1>1, <1>2, <1>3, <1>4, <1>5, <1>6, <1>7, <1>8, <1>9, <1>10, <1>11
  DEF Process!Next, Process!ThreadStep

-----------------------------------------------------------------------------
(* Performance.                                                            *)

\* The tracker's holds at first.
LEMMA TimingInit == Timing!Init => Timing!TimingInv
<1> SUFFICES ASSUME Timing!Init PROVE Timing!TimingInv
  OBVIOUS
<1> USE PartsAssumption DEF Timing!Init
<1>1. Timing!TypeOK
  <2>1. minTiming \in Timing!Values \cup {IntMax} /\ observed \subseteq Timing!Values
    OBVIOUS
  <2>2. 0 \in Timing!Ticks /\ 0 \in Timing!Values
    BY DEF Timing!Ticks, Timing!Values
  <2>3. /\ began \in [Timers -> Timing!Ticks] /\ end \in [Timers -> Timing!Ticks]
        /\ val \in [Timers -> Timing!Values]
    BY <2>2
  <2>4. /\ now \in Timing!Ticks /\ startTime \in Timing!Ticks
        /\ maxTiming \in Timing!Ticks
    BY <2>2
  <2>5. at \in [Timers -> {"idle", "timing"} \cup Timing!InEnd]
    OBVIOUS
  <2>6. calls \in 0 .. MaxCalls
    OBVIOUS
  <2>7. overlapped \in BOOLEAN
    OBVIOUS
  <2> QED  BY <2>1, <2>2, <2>3, <2>4, <2>5, <2>6, <2>7 DEF Timing!TypeOK
<1>2. Timing!NeverOverstates
  BY DEF Timing!NeverOverstates, Timing!InEnd
<1>3. Timing!StartsInv /\ Timing!ExtremesInv
  BY DEF Timing!StartsInv, Timing!ExtremesInv, Timing!InEnd
<1> QED  BY <1>1, <1>2, <1>3 DEF Timing!TimingInv

\* The types of the steps, and of what they compute.
LEMMA TimingTypes ==
  ASSUME Timing!TimingInv, Timing!Next PROVE Timing!TypeOK'
<1> USE PartsAssumption
    DEF Timing!TimingInv, Timing!TypeOK, Timing!Ticks, Timing!Values,
        Timing!Goes, Timing!InEnd
<1>1. CASE Timing!Tick
  BY <1>1 DEF Timing!Tick
<1>2. ASSUME NEW t \in Timers, Timing!startTimer(t) PROVE Timing!TypeOK'
  BY <1>2 DEF Timing!startTimer, Timing!Started
<1>3. ASSUME NEW t \in Timers, Timing!AskTime(t) PROVE Timing!TypeOK'
  BY <1>3 DEF Timing!AskTime
<1>4. ASSUME NEW t \in Timers, Timing!Observe(t) PROVE Timing!TypeOK'
  <2>1. end[t] - startTime \in -MaxClock .. MaxClock
    OBVIOUS
  <2> QED  BY <1>4, <2>1 DEF Timing!Observe
<1>5. ASSUME NEW t \in Timers, Timing!CheckMin(t) PROVE Timing!TypeOK'
  BY <1>5 DEF Timing!CheckMin
<1>6. ASSUME NEW t \in Timers, Timing!SetMin(t) PROVE Timing!TypeOK'
  BY <1>6 DEF Timing!SetMin
<1>7. ASSUME NEW t \in Timers, Timing!CheckMax(t) PROVE Timing!TypeOK'
  BY <1>7 DEF Timing!CheckMax
<1>8. ASSUME NEW t \in Timers, Timing!SetMax(t) PROVE Timing!TypeOK'
  BY <1>8 DEF Timing!SetMax, Timing!StartsInv
<1> QED
  BY <1>1, <1>2, <1>3, <1>4, <1>5, <1>6, <1>7, <1>8 DEF Timing!Next

\* No step makes a thread's value more than the time since it started.
LEMMA TimingKeepsBounds ==
  ASSUME Timing!TimingInv, Timing!Next
  PROVE  Timing!NeverOverstates' /\ Timing!StartsInv'
<1> USE PartsAssumption
    DEF Timing!TimingInv, Timing!TypeOK, Timing!Ticks, Timing!Values,
        Timing!Goes, Timing!InEnd, Timing!NeverOverstates,
        Timing!StartsInv
<1> DEFINE Goal == Timing!NeverOverstates /\ Timing!StartsInv
<1>1. CASE Timing!Tick
  BY <1>1 DEF Timing!Tick
<1>2. ASSUME NEW t \in Timers, Timing!startTimer(t) PROVE Goal'
  BY <1>2 DEF Timing!startTimer, Timing!Started
<1>3. ASSUME NEW t \in Timers, Timing!AskTime(t) PROVE Goal'
  BY <1>3 DEF Timing!AskTime
<1>4. ASSUME NEW t \in Timers, Timing!Observe(t) PROVE Goal'
  BY <1>4 DEF Timing!Observe
<1>5. ASSUME NEW t \in Timers, Timing!CheckMin(t) PROVE Goal'
  BY <1>5 DEF Timing!CheckMin
<1>6. ASSUME NEW t \in Timers, Timing!SetMin(t) PROVE Goal'
  BY <1>6 DEF Timing!SetMin
<1>7. ASSUME NEW t \in Timers, Timing!CheckMax(t) PROVE Goal'
  BY <1>7 DEF Timing!CheckMax
<1>8. ASSUME NEW t \in Timers, Timing!SetMax(t) PROVE Goal'
  BY <1>8 DEF Timing!SetMax
<1> QED
  BY <1>1, <1>2, <1>3, <1>4, <1>5, <1>6, <1>7, <1>8 DEF Timing!Next

\* While no two calls overlap, the gauges lack at most the value of the one
\* thread in endTimer().
LEMMA TimingKeepsExtremes ==
  ASSUME Timing!TimingInv, Timing!Next, ~overlapped'
  PROVE  Timing!ExtremesInv'
<1> USE PartsAssumption
    DEF Timing!TimingInv, Timing!TypeOK, Timing!Ticks, Timing!Values,
        Timing!Goes, Timing!InEnd
<1>1. CASE Timing!Tick
  BY <1>1 DEF Timing!Tick, Timing!ExtremesInv
<1>2. ASSUME NEW t \in Timers, Timing!startTimer(t) PROVE Timing!ExtremesInv'
  BY <1>2 DEF Timing!startTimer, Timing!ExtremesInv, Timing!Started
<1>3. ASSUME NEW t \in Timers, Timing!AskTime(t) PROVE Timing!ExtremesInv'
  <2>1. Timing!ExtremesInv
    BY <1>3 DEF Timing!AskTime
  <2>2. \A u \in Timers : at[u] \notin Timing!InEnd
    BY <1>3 DEF Timing!AskTime
  <2>3. \A u \in Timers : at'[u] = IF u = t THEN "read" ELSE at[u]
    BY <1>3 DEF Timing!AskTime
  <2>4. UNCHANGED <<val, observed, minTiming, maxTiming>>
    BY <1>3 DEF Timing!AskTime
  <2> QED  BY <2>1, <2>2, <2>3, <2>4 DEF Timing!ExtremesInv
<1>4. ASSUME NEW t \in Timers, Timing!Observe(t) PROVE Timing!ExtremesInv'
  BY <1>4 DEF Timing!Observe, Timing!ExtremesInv
<1>5. ASSUME NEW t \in Timers, Timing!CheckMin(t) PROVE Timing!ExtremesInv'
  BY <1>5 DEF Timing!CheckMin, Timing!ExtremesInv
<1>6. ASSUME NEW t \in Timers, Timing!SetMin(t) PROVE Timing!ExtremesInv'
  BY <1>6 DEF Timing!SetMin, Timing!ExtremesInv
<1>7. ASSUME NEW t \in Timers, Timing!CheckMax(t) PROVE Timing!ExtremesInv'
  BY <1>7 DEF Timing!CheckMax, Timing!ExtremesInv
<1>8. ASSUME NEW t \in Timers, Timing!SetMax(t) PROVE Timing!ExtremesInv'
  BY <1>8 DEF Timing!SetMax, Timing!ExtremesInv
<1> QED
  BY <1>1, <1>2, <1>3, <1>4, <1>5, <1>6, <1>7, <1>8 DEF Timing!Next

\* The two lemmas above and the types together.
LEMMA TimingKeeps ==
  ASSUME Timing!TimingInv, Timing!Next PROVE Timing!TimingInv'
BY TimingTypes, TimingKeepsBounds, TimingKeepsExtremes DEF Timing!TimingInv

\* The two gauges, when no thread is in endTimer().
LEMMA TimingImplies == ASSUME Timing!TimingInv PROVE TimingSound
<1>1. Timing!ExtremesExact
  <2> SUFFICES ASSUME ~overlapped, \A t \in Timers : at[t] \notin Timing!InEnd
               PROVE  /\ minTiming = Timing!Min(observed \cup {IntMax})
                      /\ maxTiming = Timing!Max(observed \cup {0})
    BY DEF Timing!ExtremesExact
  <2>1. Timing!ExtremesInv /\ observed \subseteq Int
    BY DEF Timing!TimingInv, Timing!TypeOK, Timing!Values
  <2>2. /\ minTiming \in observed \cup {IntMax}
        /\ \A v \in observed \cup {IntMax} : minTiming <= v
    BY <2>1 DEF Timing!ExtremesInv, Timing!InEnd
  <2>3. /\ maxTiming \in observed \cup {0}
        /\ \A v \in observed \cup {0} : v <= maxTiming
    BY <2>1 DEF Timing!ExtremesInv, Timing!InEnd
  <2>4. minTiming = Timing!Min(observed \cup {IntMax})
    <3> DEFINE S == observed \cup {IntMax}
    <3>1. S \subseteq Int
      BY <2>1, PartsAssumption
    <3>2. minTiming \in S /\ \A v \in S : minTiming <= v
      BY <2>2
    <3> HIDE DEF S
    <3>3. \A x \in S : (\A v \in S : x <= v) => x = minTiming
      BY <3>1, <3>2
    <3>4. Timing!Min(S) = minTiming
      BY <3>2, <3>3 DEF Timing!Min
    <3> QED  BY <3>4 DEF S
  <2>5. maxTiming = Timing!Max(observed \cup {0})
    <3> DEFINE S == observed \cup {0}
    <3>1. S \subseteq Int
      BY <2>1
    <3>2. maxTiming \in S /\ \A v \in S : v <= maxTiming
      BY <2>3
    <3> HIDE DEF S
    <3>3. \A x \in S : (\A v \in S : x >= v) => x = maxTiming
      BY <3>1, <3>2
    <3>5. \A v \in S : maxTiming >= v
      BY <3>1, <3>2
    <3>4. Timing!Max(S) = maxTiming
      BY <3>2, <3>3, <3>5 DEF Timing!Max
    <3> QED  BY <3>4 DEF S
  <2> QED  BY <2>4, <2>5
<1> QED  BY <1>1 DEF TimingSound, Timing!TimingSound, Timing!TimingInv

-----------------------------------------------------------------------------
(* RawSocket.                                                              *)

\* RawSocket counts as everybody does.
LEMMA SameCardinality == \A S : Sockets!Cardinality(S) = Cardinality(S)
BY DEF Cardinality, Sockets!Cardinality

\* Types, descriptors and bytes together.
SocketsInv == Sockets!TypeOK /\ Sockets!HoldersDiffer /\ SocketsAccounted

\* socket() takes a descriptor that is free.
LEMMA LowestFree ==
  ASSUME Fds \ open # {}
  PROVE  Sockets!Min(Fds \ open) \in Fds \ open
<1> DEFINE S == Fds \ open
<1>1. S \in SUBSET Nat /\ S # {}
  BY PartsAssumption
<1> HIDE DEF S
<1>2. \E m \in S : \A n \in S : m <= n
  BY <1>1, SmallestNumber
<1>3. Sockets!Min(S) \in S
  BY <1>2 DEF Sockets!Min
<1> QED  BY <1>3 DEF S

\* Objects with descriptors of their own hold as many as they are.
LEMMA HeldCount ==
  Sockets!TypeOK /\ Sockets!HoldersDiffer
    => Cardinality(Sockets!Held) = Cardinality(Sockets!Live)
<1> SUFFICES ASSUME Sockets!TypeOK, Sockets!HoldersDiffer
             PROVE  Cardinality(Sockets!Held) = Cardinality(Sockets!Live)
  OBVIOUS
<1> DEFINE L == Sockets!Live
           H == Sockets!Held
           f == [o \in L |-> socket[o].fd]
<1>1. \A o \in L : socket[o].fd \in Fds
  BY DEF Sockets!TypeOK, Sockets!Live, Sockets!Records
<1>2. H = {socket[o].fd : o \in L}
  BY DEF Sockets!Held
<1>3. \A o, p \in L : socket[o].fd = socket[p].fd => o = p
  BY DEF Sockets!HoldersDiffer
<1> HIDE DEF L, H
<1>4. f \in Injection(L, Fds) /\ f \in Injection(L, H)
  BY <1>1, <1>2, <1>3 DEF Injection, IsInjective
<1>5. f \in Surjection(L, H)
  BY <1>2 DEF Surjection
<1> HIDE DEF f
<1>6. IsFiniteSet(L)
  BY <1>4, FS_Injection, PartsAssumption
<1>7. Cardinality(H) = Cardinality(L)
  BY <1>4, <1>5, <1>6, FS_Surjection
<1> QED  BY <1>7 DEF L, H

\* HeldCount, of the state after a step.
LEMMA HeldCountNext ==
  (Sockets!TypeOK /\ Sockets!HoldersDiffer)'
    => (Cardinality(Sockets!Held) = Cardinality(Sockets!Live))'
BY HeldCount, PTL

\* The sockets' invariant holds at first.
LEMMA SocketsInit == Sockets!Init => SocketsInv
<1> SUFFICES ASSUME Sockets!Init PROVE SocketsInv
  OBVIOUS
<1> USE PartsAssumption DEF Sockets!Init, Sockets!None, Sockets!Pair
<1>1. Sockets!Live = {} /\ Sockets!Held = {}
  BY DEF Sockets!Live, Sockets!Held
<1>2. Sockets!TypeOK
  <2>1. [sent |-> 0, received |-> 0] \in Sockets!Stats
    BY DEF Sockets!Stats
  <2>2. Cardinality(Fds) \in Nat
    BY FS_CardinalityType
  <2>3. failed \in 0 .. Sockets!Cardinality(Fds)
    BY <2>2, SameCardinality
  <2>4. socket \in [Objects -> Sockets!Records \cup {NoObject}]
    OBVIOUS
  <2>5. moved \in [Objects -> Sockets!Stats] /\ taken \in [Objects -> Sockets!Stats]
    BY <2>1
  <2>6. open \subseteq Fds
    OBVIOUS
  <2> QED  BY <2>3, <2>4, <2>5, <2>6 DEF Sockets!TypeOK
<1>3. Sockets!HoldersDiffer /\ Sockets!StatsConserved
  BY <1>1 DEF Sockets!HoldersDiffer, Sockets!StatsConserved
<1>4. Sockets!OnlyFailuresLeak
  <2>1. open \ Sockets!Held = {} /\ Sockets!Held \subseteq open /\ failed = 0
    BY <1>1
  <2>2. Sockets!Cardinality({}) = 0
    BY SameCardinality, FS_EmptySet
  <2> QED  BY <1>1, <2>1, <2>2 DEF Sockets!OnlyFailuresLeak
<1> QED
  BY <1>2, <1>3, <1>4 DEF SocketsInv, SocketsAccounted, Sockets!SocketsAccounted

\* An object that is there, and what getStats() and the kernel count.
LEMMA LiveObject ==
  ASSUME SocketsInv, NEW o \in Sockets!Live
  PROVE  /\ socket[o] \in Sockets!Records /\ o \in Objects
         /\ socket[o].fd \in Sockets!Held
         /\ socket[o].fd \in open
<1>1. socket[o] \in Sockets!Records /\ o \in Objects
  BY DEF SocketsInv, Sockets!TypeOK, Sockets!Live
<1>2. socket[o].fd \in Sockets!Held
  BY DEF Sockets!Held
<1> QED
  BY <1>1, <1>2
  DEF SocketsInv, SocketsAccounted, Sockets!SocketsAccounted, Sockets!OnlyFailuresLeak

\* A record is no missing object.
LEMMA RecordIsObject ==
  \A r \in Sockets!Records : r # NoObject
BY NoObjectAssumption

\* Steps that open or close nothing.
LEMMA CountersOnly ==
  ASSUME SocketsInv, NEW o \in Sockets!Live, NEW s \in Sockets!Stats,
         socket' = [socket EXCEPT ![o] = [@ EXCEPT !.stats = s]],
         UNCHANGED <<open, failed>>
  PROVE  /\ socket' \in [Objects -> Sockets!Records \cup {NoObject}]
         /\ Sockets!Live' = Sockets!Live
         /\ Sockets!HoldersDiffer' /\ Sockets!OnlyFailuresLeak'
         /\ socket'[o].stats = s
         /\ \A p \in Sockets!Live \ {o} : socket'[p].stats = socket[p].stats
<1>1. socket[o] \in Sockets!Records /\ o \in Objects
  BY LiveObject
<1> DEFINE new == [socket[o] EXCEPT !.stats = s]
<1>2. /\ new \in Sockets!Records /\ new.fd = socket[o].fd
      /\ new.stats = s
  BY <1>1 DEF Sockets!Records
<1>3. socket \in [Objects -> Sockets!Records \cup {NoObject}]
  BY DEF SocketsInv, Sockets!TypeOK
<1>4. /\ socket'[o] = new
      /\ \A p \in Objects \ {o} : socket'[p] = socket[p]
      /\ socket' = [socket EXCEPT ![o] = new]
  BY <1>1, <1>3
<1> HIDE DEF new
<1>5. socket' \in [Objects -> Sockets!Records \cup {NoObject}]
  BY <1>2, <1>3, <1>4
<1>6. Sockets!Live' = Sockets!Live
  BY <1>1, <1>2, <1>4, RecordIsObject DEF Sockets!Live
<1>7. \A p \in Sockets!Live : socket'[p].fd = socket[p].fd
  BY <1>1, <1>2, <1>4 DEF Sockets!Live
<1>8. Sockets!Held' = Sockets!Held
  BY <1>6, <1>7 DEF Sockets!Held
<1>9. Sockets!HoldersDiffer'
  BY <1>6, <1>7 DEF SocketsInv, Sockets!HoldersDiffer
<1>10. Sockets!OnlyFailuresLeak'
  BY <1>6, <1>8
  DEF SocketsInv, SocketsAccounted, Sockets!SocketsAccounted, Sockets!OnlyFailuresLeak
<1>11. \A p \in Sockets!Live \ {o} : socket'[p].stats = socket[p].stats
  BY <1>4 DEF Sockets!Live
<1> QED  BY <1>2, <1>4, <1>5, <1>6, <1>9, <1>10, <1>11

\* One count of the two goes up.
LEMMA OneMore ==
  ASSUME NEW a \in [sent : Nat, received : Nat], NEW n \in Nat,
         NEW kind \in {"sent", "received"}
  PROVE  [a EXCEPT ![kind] = @ + n] =
           [sent |-> IF kind = "sent" THEN a.sent + n ELSE a.sent,
            received |-> IF kind = "sent" THEN a.received ELSE a.received + n]
<1>1. CASE kind = "sent"
  <2>1. [a EXCEPT !.sent = a.sent + n]
          \in [sent : {a.sent + n}, received : {a.received}]
    OBVIOUS
  <2>2. [a EXCEPT !.sent = a.sent + n]
          = [sent |-> a.sent + n, received |-> a.received]
    BY <2>1
  <2> QED  BY <1>1, <2>2
<1>2. CASE kind = "received"
  <2>1. [a EXCEPT !.received = a.received + n]
          \in [sent : {a.sent}, received : {a.received + n}]
    OBVIOUS
  <2>2. [a EXCEPT !.received = a.received + n]
          = [sent |-> a.sent, received |-> a.received + n]
    BY <2>1
  <2> QED  BY <1>2, <2>2
<1> QED  BY <1>1, <1>2

\* write() or recvfrom() has moved n bytes.
LEMMA TransferKeeps ==
  ASSUME SocketsInv, NEW o \in Objects, NEW mode \in Sockets!Modes,
         NEW n \in Results, Sockets!Transfer(o, mode, n)
  PROVE  SocketsInv'
<1> USE PartsAssumption
<1>1. o \in Sockets!Live /\ socket[o] \in Sockets!Records
  BY LiveObject DEF Sockets!Transfer, Sockets!Live
<1>2. CASE ~(n > 0)
  BY <1>2
  DEF Sockets!Transfer, SocketsInv, SocketsAccounted, Sockets!SocketsAccounted,
      Sockets!TypeOK, Sockets!HoldersDiffer, Sockets!OnlyFailuresLeak,
      Sockets!StatsConserved, Sockets!Live, Sockets!Held
<1>3. CASE n > 0
  <2>0. PICK kind \in {"sent", "received"} :
          /\ moved[o][kind] + n <= MaxSocketBytes
          /\ socket' = [socket EXCEPT ![o].stats[kind] = @ + n]
          /\ moved' = [moved EXCEPT ![o][kind] = @ + n]
          /\ UNCHANGED <<open, failed, taken>>
    BY <1>3 DEF Sockets!Transfer, Sockets!Counter
  <2> DEFINE before == socket[o].stats
             s == [before EXCEPT ![kind] = @ + n]
             m == [moved[o] EXCEPT ![kind] = @ + n]
  <2>1. n \in Nat
    BY <1>3
  <2>2. /\ moved \in [Objects -> Sockets!Stats] /\ taken \in [Objects -> Sockets!Stats]
        /\ before \in Sockets!Stats
    BY <1>1 DEF SocketsInv, Sockets!TypeOK, Sockets!Records
  <2>3. Sockets!Plus(taken[o], before) = moved[o]
    BY <1>1
    DEF SocketsInv, SocketsAccounted, Sockets!SocketsAccounted, Sockets!StatsConserved
  <2>4. /\ moved' = [moved EXCEPT ![o] = m]
        /\ socket' = [socket EXCEPT ![o] = [@ EXCEPT !.stats = s]]
    BY <2>0
  <2>5. \A k \in {"sent", "received"} :
          /\ moved[o][k] = taken[o][k] + before[k]
          /\ moved[o][k] \in Nat /\ taken[o][k] \in Nat /\ before[k] \in Nat
    BY <2>2, <2>3 DEF Sockets!Plus, Sockets!Pair, Sockets!Stats
  <2>6. /\ moved[o] \in [sent : Nat, received : Nat]
        /\ taken[o] \in [sent : Nat, received : Nat]
        /\ before \in [sent : Nat, received : Nat]
    BY <2>2 DEF Sockets!Stats
  <2>7. /\ m = [sent |-> IF kind = "sent" THEN moved[o].sent + n ELSE moved[o].sent,
               received |-> IF kind = "sent" THEN moved[o].received
                            ELSE moved[o].received + n]
        /\ s = [sent |-> IF kind = "sent" THEN before.sent + n ELSE before.sent,
               received |-> IF kind = "sent" THEN before.received
                            ELSE before.received + n]
    BY <2>1, <2>6, OneMore
  <2> HIDE DEF m, s, before
  <2>8. m \in Sockets!Stats /\ s \in Sockets!Stats
    <3>1. CASE kind = "sent"
      BY <2>0, <2>1, <2>2, <2>5, <2>7, <3>1 DEF Sockets!Stats
    <3>2. CASE kind = "received"
      BY <2>0, <2>1, <2>2, <2>5, <2>7, <3>2 DEF Sockets!Stats
    <3> QED  BY <3>1, <3>2
  <2>9. Sockets!Plus(taken[o], s) = m
    BY <2>1, <2>5, <2>7 DEF Sockets!Plus, Sockets!Pair
  <2>10. /\ socket' \in [Objects -> Sockets!Records \cup {NoObject}]
         /\ Sockets!Live' = Sockets!Live
         /\ Sockets!HoldersDiffer' /\ Sockets!OnlyFailuresLeak'
         /\ socket'[o].stats = s
         /\ \A p \in Sockets!Live \ {o} : socket'[p].stats = socket[p].stats
    BY <1>1, <2>0, <2>4, <2>8, CountersOnly
  <2>11. Sockets!TypeOK'
    <3>1. moved' \in [Objects -> Sockets!Stats]
      BY <2>2, <2>4, <2>8
    <3>2. open' \subseteq Fds /\ failed' \in 0 .. Sockets!Cardinality(Fds)
      BY <2>0 DEF SocketsInv, Sockets!TypeOK
    <3>3. taken' \in [Objects -> Sockets!Stats]
      BY <2>0, <2>2
    <3> QED  BY <2>10, <3>1, <3>2, <3>3 DEF Sockets!TypeOK
  <2>12. Sockets!StatsConserved'
    <3>1. ASSUME NEW p \in Sockets!Live PROVE Sockets!Plus(taken[p], socket'[p].stats) = moved'[p]
      <4>1. p \in Objects /\ Sockets!Plus(taken[p], socket[p].stats) = moved[p]
        BY DEF SocketsInv, SocketsAccounted, Sockets!SocketsAccounted,
               Sockets!StatsConserved, Sockets!Live
      <4>2. moved'[p] = IF p = o THEN m ELSE moved[p]
        BY <2>2, <2>4, <4>1
      <4>3. CASE p = o
        BY <2>9, <2>10, <4>2, <4>3
      <4>4. CASE p # o
        BY <2>10, <4>1, <4>2, <4>4
      <4> QED  BY <4>3, <4>4
    <3> QED  BY <2>0, <2>10, <3>1 DEF Sockets!StatsConserved
  <2> QED
    BY <2>10, <2>11, <2>12
    DEF SocketsInv, SocketsAccounted, Sockets!SocketsAccounted
<1> QED  BY <1>2, <1>3

\* getStats(true) moves the counts to what it has returned.
LEMMA TakeStatsKeeps ==
  ASSUME SocketsInv, NEW o \in Objects, Sockets!TakeStats(o)
  PROVE  SocketsInv'
<1> USE PartsAssumption
<1>1. o \in Sockets!Live /\ socket[o] \in Sockets!Records
  BY LiveObject DEF Sockets!TakeStats, Sockets!Live
<1> DEFINE t == Sockets!Plus(taken[o], socket[o].stats)
<1>2. /\ taken' = [taken EXCEPT ![o] = t]
      /\ socket' = [socket EXCEPT ![o] = [@ EXCEPT !.stats = Sockets!None]]
      /\ UNCHANGED <<open, failed, moved>>
  BY DEF Sockets!TakeStats
<1>3. t = moved[o]
  BY <1>1
  DEF SocketsInv, SocketsAccounted, Sockets!SocketsAccounted, Sockets!StatsConserved
<1> HIDE DEF t
<1>4. /\ moved \in [Objects -> Sockets!Stats] /\ taken \in [Objects -> Sockets!Stats]
  BY DEF SocketsInv, Sockets!TypeOK
<1>5. Sockets!None \in Sockets!Stats /\ Sockets!Plus(t, Sockets!None) = t
  <2>1. t \in [sent : Nat, received : Nat]
    BY <1>3, <1>4 DEF Sockets!Stats
  <2>2. Sockets!None \in Sockets!Stats
    BY DEF Sockets!None, Sockets!Pair, Sockets!Stats
  <2>3. Sockets!Plus(t, Sockets!None) = [sent |-> t.sent, received |-> t.received]
    BY <2>1 DEF Sockets!None, Sockets!Pair, Sockets!Plus
  <2> QED  BY <2>1, <2>2, <2>3
<1>6. /\ socket' \in [Objects -> Sockets!Records \cup {NoObject}]
      /\ Sockets!Live' = Sockets!Live
      /\ Sockets!HoldersDiffer' /\ Sockets!OnlyFailuresLeak'
      /\ socket'[o].stats = Sockets!None
      /\ \A p \in Sockets!Live \ {o} : socket'[p].stats = socket[p].stats
  BY <1>1, <1>2, <1>5, CountersOnly
<1>7. Sockets!TypeOK'
  <2>1. taken' \in [Objects -> Sockets!Stats]
    BY <1>2, <1>3, <1>4
  <2>2. open' \subseteq Fds /\ failed' \in 0 .. Sockets!Cardinality(Fds)
    BY <1>2 DEF SocketsInv, Sockets!TypeOK
  <2>3. moved' \in [Objects -> Sockets!Stats]
    BY <1>2, <1>4
  <2> QED  BY <1>6, <2>1, <2>2, <2>3 DEF Sockets!TypeOK
<1>8. Sockets!StatsConserved'
  <2>1. ASSUME NEW p \in Sockets!Live
        PROVE  Sockets!Plus(taken'[p], socket'[p].stats) = moved[p]
    <3>1. p \in Objects /\ Sockets!Plus(taken[p], socket[p].stats) = moved[p]
      BY DEF SocketsInv, SocketsAccounted, Sockets!SocketsAccounted,
             Sockets!StatsConserved, Sockets!Live
    <3>2. taken'[p] = IF p = o THEN t ELSE taken[p]
      BY <1>2, <1>4, <3>1
    <3>3. CASE p = o
      BY <1>3, <1>5, <1>6, <3>2, <3>3
    <3>4. CASE p # o
      BY <1>6, <3>1, <3>2, <3>4
    <3> QED  BY <3>3, <3>4
  <2> QED  BY <1>2, <1>6, <2>1 DEF Sockets!StatsConserved
<1> QED
  BY <1>6, <1>7, <1>8 DEF SocketsInv, SocketsAccounted, Sockets!SocketsAccounted

\* What is left over is as many as failed, whoever counts.
LEMMA LeftOver ==
  ASSUME SocketsInv
  PROVE  /\ Sockets!Held \subseteq open /\ IsFiniteSet(open)
         /\ IsFiniteSet(open \ Sockets!Held)
         /\ Cardinality(open \ Sockets!Held) = failed /\ failed \in Nat
<1>1. open \subseteq Fds /\ Sockets!Held \subseteq open
      /\ Cardinality(open \ Sockets!Held) = failed
  BY SameCardinality DEF SocketsInv, Sockets!TypeOK, SocketsAccounted,
     Sockets!SocketsAccounted, Sockets!OnlyFailuresLeak
<1>2. IsFiniteSet(open) /\ IsFiniteSet(open \ Sockets!Held)
  BY <1>1, FS_Subset, PartsAssumption
<1> QED  BY <1>1, <1>2, FS_CardinalityType

\* The constructor that succeeds.
LEMMA ConstructKeeps ==
  ASSUME SocketsInv, NEW o \in Objects, NEW mode \in Sockets!Modes,
         Sockets!Construct(o, mode)
  PROVE  SocketsInv'
<1> DEFINE fd == Sockets!Min(Fds \ open)
           r == [mode |-> mode, fd |-> fd, stats |-> Sockets!None]
<1>1. /\ socket[o] = NoObject /\ fd \in Fds \ open
      /\ open' = open \cup {fd} /\ socket' = [socket EXCEPT ![o] = r]
      /\ moved' = [moved EXCEPT ![o] = Sockets!None]
      /\ taken' = [taken EXCEPT ![o] = Sockets!None]
      /\ failed' = failed
  BY LowestFree DEF Sockets!Construct
<1>2. Sockets!None \in Sockets!Stats
  BY PartsAssumption DEF Sockets!None, Sockets!Pair, Sockets!Stats
<1> HIDE DEF fd
<1>3. r \in Sockets!Records /\ r.fd = fd /\ r.stats = Sockets!None
  BY <1>1, <1>2 DEF Sockets!Records
<1> HIDE DEF r
<1>4. /\ socket \in [Objects -> Sockets!Records \cup {NoObject}]
      /\ moved \in [Objects -> Sockets!Stats] /\ taken \in [Objects -> Sockets!Stats]
      /\ open \subseteq Fds /\ failed \in 0 .. Sockets!Cardinality(Fds)
  BY DEF SocketsInv, Sockets!TypeOK
<1>5. /\ socket'[o] = r /\ \A p \in Objects \ {o} : socket'[p] = socket[p]
      /\ moved'[o] = Sockets!None /\ \A p \in Objects \ {o} : moved'[p] = moved[p]
      /\ taken'[o] = Sockets!None /\ \A p \in Objects \ {o} : taken'[p] = taken[p]
  BY <1>1, <1>4
<1>6. Sockets!TypeOK'
  <2>1. socket' \in [Objects -> Sockets!Records \cup {NoObject}]
    BY <1>1, <1>3, <1>4
  <2>2. moved' \in [Objects -> Sockets!Stats] /\ taken' \in [Objects -> Sockets!Stats]
    BY <1>1, <1>2, <1>4
  <2>3. open' \subseteq Fds /\ failed' \in 0 .. Sockets!Cardinality(Fds)
    BY <1>1, <1>4
  <2> QED  BY <2>1, <2>2, <2>3 DEF Sockets!TypeOK
<1>7. Sockets!Live' = Sockets!Live \cup {o} /\ o \notin Sockets!Live
  BY <1>1, <1>3, <1>5, RecordIsObject DEF Sockets!Live
<1>8. \A p \in Sockets!Live : p \in Objects \ {o} /\ socket'[p] = socket[p]
  BY <1>1, <1>5 DEF Sockets!Live
<1>9. Sockets!Held' = Sockets!Held \cup {fd}
  BY <1>3, <1>5, <1>7, <1>8 DEF Sockets!Held
<1>10. \A p \in Sockets!Live : socket[p].fd # fd
  BY <1>1, LiveObject
<1>11. Sockets!HoldersDiffer'
  BY <1>3, <1>5, <1>7, <1>8, <1>10 DEF SocketsInv, Sockets!HoldersDiffer
<1>12. Sockets!OnlyFailuresLeak'
  <2>1. Sockets!Held' \subseteq open' /\ (open \ Sockets!Held)' = open \ Sockets!Held
    BY <1>1, <1>9, LeftOver
  <2>2. Cardinality(Sockets!Held') = Cardinality(Sockets!Live')
    BY <1>6, <1>11, HeldCountNext
  <2> QED
    BY <1>1, <2>1, <2>2, SameCardinality, LeftOver DEF Sockets!OnlyFailuresLeak
<1>13. Sockets!StatsConserved'
  <2>1. ASSUME NEW p \in Sockets!Live'
        PROVE  Sockets!Plus(taken'[p], socket'[p].stats) = moved'[p]
    <3>1. CASE p = o
      BY <1>3, <1>5, <3>1 DEF Sockets!Plus, Sockets!None, Sockets!Pair
    <3>2. CASE p # o
      <4>1. p \in Sockets!Live /\ p \in Objects \ {o}
        BY <1>7, <1>8, <3>2
      <4> QED
        BY <1>5, <1>8, <4>1
        DEF SocketsInv, SocketsAccounted, Sockets!SocketsAccounted,
            Sockets!StatsConserved
    <3> QED  BY <3>1, <3>2
  <2> QED  BY <2>1 DEF Sockets!StatsConserved
<1> QED
  BY <1>6, <1>11, <1>12, <1>13 DEF SocketsInv, SocketsAccounted, Sockets!SocketsAccounted

\* The constructor that throws after socket().
LEMMA ConstructThrowsKeeps ==
  ASSUME SocketsInv, NEW o \in Objects, Sockets!ConstructThrows(o)
  PROVE  SocketsInv'
<1> DEFINE fd == Sockets!Min(Fds \ open)
<1>1. /\ fd \in Fds \ open /\ open' = open \cup {fd} /\ failed' = failed + 1
      /\ UNCHANGED <<socket, moved, taken>>
  BY LowestFree DEF Sockets!ConstructThrows
<1> HIDE DEF fd
<1>2. Sockets!Live' = Sockets!Live /\ Sockets!Held' = Sockets!Held
  BY <1>1 DEF Sockets!Live, Sockets!Held
<1>3. /\ open' \ Sockets!Held = (open \ Sockets!Held) \cup {fd}
      /\ fd \notin open \ Sockets!Held
  BY <1>1, LeftOver
<1>4. Cardinality(open' \ Sockets!Held) = failed'
  BY <1>1, <1>3, LeftOver, FS_AddElement
<1>5. open' \ Sockets!Held \subseteq Fds
  BY <1>1 DEF SocketsInv, Sockets!TypeOK
<1>6. failed' \in 0 .. Sockets!Cardinality(Fds)
  <2>1. Cardinality(open' \ Sockets!Held) <= Cardinality(Fds)
    BY <1>5, FS_Subset, PartsAssumption
  <2>2. Cardinality(Fds) \in Nat /\ failed' \in Nat
    BY <1>1, LeftOver, FS_CardinalityType, PartsAssumption
  <2> QED  BY <1>4, <2>1, <2>2, SameCardinality
<1>7. Sockets!TypeOK'
  BY <1>1, <1>6 DEF SocketsInv, Sockets!TypeOK
<1>8. Sockets!HoldersDiffer' /\ Sockets!StatsConserved'
  BY <1>1, <1>2
  DEF SocketsInv, Sockets!HoldersDiffer, SocketsAccounted,
      Sockets!SocketsAccounted, Sockets!StatsConserved
<1>9. Sockets!OnlyFailuresLeak'
  <2>1. Sockets!Cardinality(Sockets!Held) = Sockets!Cardinality(Sockets!Live)
    BY DEF SocketsInv, SocketsAccounted, Sockets!SocketsAccounted, Sockets!OnlyFailuresLeak
  <2> QED
    BY <1>1, <1>2, <1>4, <2>1, SameCardinality, LeftOver
    DEF Sockets!OnlyFailuresLeak
<1> QED
  BY <1>7, <1>8, <1>9 DEF SocketsInv, SocketsAccounted, Sockets!SocketsAccounted

\* The destructor.
LEMMA DestroyKeeps ==
  ASSUME SocketsInv, NEW o \in Objects, Sockets!Destroy(o)
  PROVE  SocketsInv'
<1> DEFINE fd == socket[o].fd
<1>1. /\ o \in Sockets!Live /\ open' = open \ {fd}
      /\ socket' = [socket EXCEPT ![o] = NoObject]
      /\ UNCHANGED <<failed, moved, taken>>
  BY DEF Sockets!Destroy, Sockets!AfterClose, Sockets!Live
<1>2. fd \in Sockets!Held /\ fd \in open
  BY <1>1, LiveObject
<1>3. /\ socket \in [Objects -> Sockets!Records \cup {NoObject}]
      /\ moved \in [Objects -> Sockets!Stats] /\ taken \in [Objects -> Sockets!Stats]
      /\ open \subseteq Fds /\ failed \in 0 .. Sockets!Cardinality(Fds)
  BY DEF SocketsInv, Sockets!TypeOK
<1>4. socket'[o] = NoObject /\ \A p \in Objects \ {o} : socket'[p] = socket[p]
  BY <1>1, <1>3
<1>5. Sockets!Live' = Sockets!Live \ {o}
  BY <1>4 DEF Sockets!Live
<1>6. \A p \in Sockets!Live' : p \in Sockets!Live /\ socket'[p] = socket[p]
  BY <1>4, <1>5 DEF Sockets!Live
<1>7. \A p \in Sockets!Live \ {o} : socket[p].fd # fd
  BY <1>1 DEF SocketsInv, Sockets!HoldersDiffer
<1> HIDE DEF fd
<1>8. Sockets!Held' = Sockets!Held \ {fd}
  <2>1. Sockets!Held' = {socket[p].fd : p \in Sockets!Live \ {o}}
    BY <1>5, <1>6 DEF Sockets!Held
  <2>2. \A p \in Sockets!Live : p = o \/ p \in Sockets!Live \ {o}
    OBVIOUS
  <2> QED  BY <1>7, <2>1, <2>2 DEF Sockets!Held, fd
<1>9. Sockets!TypeOK'
  BY <1>1, <1>3 DEF Sockets!TypeOK
<1>10. Sockets!HoldersDiffer' /\ Sockets!StatsConserved'
  BY <1>1, <1>6
  DEF SocketsInv, Sockets!HoldersDiffer, SocketsAccounted,
      Sockets!SocketsAccounted, Sockets!StatsConserved
<1>11. Sockets!OnlyFailuresLeak'
  <2>1. Sockets!Held' \subseteq open' /\ (open \ Sockets!Held)' = open \ Sockets!Held
    BY <1>1, <1>2, <1>8, LeftOver
  <2>2. Cardinality(Sockets!Held') = Cardinality(Sockets!Live')
    BY <1>9, <1>10, HeldCountNext
  <2> QED
    BY <1>1, <2>1, <2>2, SameCardinality, LeftOver DEF Sockets!OnlyFailuresLeak
<1> QED
  BY <1>9, <1>10, <1>11 DEF SocketsInv, SocketsAccounted, Sockets!SocketsAccounted

\* The lemmas above together.
LEMMA SocketsKeeps ==
  ASSUME SocketsInv, Sockets!Next PROVE SocketsInv'
BY TransferKeeps, TakeStatsKeeps, ConstructKeeps, ConstructThrowsKeeps, DestroyKeeps
DEF Sockets!Next

-----------------------------------------------------------------------------
(* PrometheusServer and StatusTracker.                                      *)

\* The registries of a deletion, element by element.
LEMMA LeftRecursion ==
  ASSUME TypeOK, NEW id, NEW K, K = {x \in Entries : x.id # id}
  PROVE  Keeps(Left(id), vRegister, K)
<1>1. vRegister \in Seq(Entries) /\ Len(vRegister) \in Nat
  BY LenProperties DEF TypeOK
<1>2. \A n \in 1 .. Len(vRegister) : vRegister[n] \in K <=> vRegister[n].id # id
  BY <1>1, ElementOfSeq
<1> DEFINE m == Len(vRegister)
<1>3. PICK f \in [0 .. m -> Seq(Entries)] : Keeps(f, vRegister, K)
  BY <1>1, KeptExists
<1> DEFINE Is(left) == left = [n \in 0 .. Len(vRegister) |->
                          IF n = 0 THEN <<>>
                          ELSE IF vRegister[n].id = id THEN left[n - 1]
                          ELSE Append(left[n - 1], vRegister[n])]
<1>4. Is(f)
  <2>1. \A n \in 0 .. m :
          f[n] = IF n = 0 THEN <<>> ELSE IF vRegister[n].id = id THEN f[n - 1]
                 ELSE Append(f[n - 1], vRegister[n])
    <3>1. m \in Nat
      BY <1>1
    <3> HIDE DEF m
    <3>2. \A n \in 0 .. m : n = 0 \/ n \in 1 .. m
      BY <3>1
    <3>3. \A n \in 1 .. m : n # 0 /\ (vRegister[n] \in K <=> vRegister[n].id # id)
      BY <1>2 DEF m
    <3> QED  BY <1>3, <3>2, <3>3 DEF Keeps, m
  <2> HIDE DEF m
  <2>2. f = [n \in 0 .. m |->
               IF n = 0 THEN <<>> ELSE IF vRegister[n].id = id THEN f[n - 1]
               ELSE Append(f[n - 1], vRegister[n])]
    BY <1>3, <2>1
  <2> QED  BY <2>2 DEF m
<1>5. Left(id) = CHOOSE left : Is(left)
  BY DEF Left
<1>6. Is(Left(id))
  <2> HIDE DEF Is
  <2> QED  BY <1>4, <1>5
<1>7. /\ Left(id)[0] = <<>>
      /\ \A n \in 1 .. Len(vRegister) :
           Left(id)[n] = IF vRegister[n].id = id THEN Left(id)[n - 1]
                         ELSE Append(Left(id)[n - 1], vRegister[n])
  <2> DEFINE L == Left(id)
  <2>1. L = [n \in 0 .. m |->
               IF n = 0 THEN <<>>
               ELSE IF vRegister[n].id = id THEN L[n - 1]
               ELSE Append(L[n - 1], vRegister[n])]
    BY <1>6
  <2> HIDE DEF L
  <2>2. m \in Nat
    BY <1>1
  <2> HIDE DEF m
  <2>3. \A n \in 0 .. m : L[n] = IF n = 0 THEN <<>>
               ELSE IF vRegister[n].id = id THEN L[n - 1]
               ELSE Append(L[n - 1], vRegister[n])
    BY <2>1
  <2>4. 0 \in 0 .. m /\ \A n \in 1 .. m : n \in 0 .. m /\ n # 0
    BY <2>2
  <2>5. /\ L[0] = <<>>
        /\ \A n \in 1 .. m : L[n] = IF vRegister[n].id = id THEN L[n - 1]
                                     ELSE Append(L[n - 1], vRegister[n])
    BY <2>3, <2>4
  <2> QED  BY <2>5 DEF L, m
<1> QED  BY <1>2, <1>7 DEF Keeps

\* The ids that are given out do not wrap around.
LEMMA NextIdIs ==
  ASSUME TypeOK, RegistryInv, created <= MaxRegistries
  PROVE  /\ NextId \in Nat /\ NextId <= created - 1 /\ NextId \in 0 .. MaxId
         /\ \A i \in 2 .. Len(vRegister) : vRegister[i].id < NextId
<1> USE BoundsAssumption, WidthAssumption
<1> DEFINE n == Len(vRegister)
           last == vRegister[n].id
<1>1. /\ n \in Nat /\ n >= 1 /\ \A i \in 1 .. n : vRegister[i] \in Entries
      /\ created \in Nat /\ created >= 1
  BY ElementOfSeq, LenProperties, EmptySeq DEF TypeOK, RegistryInv
<1>2. Last(vRegister).id = last
  BY DEF Last
<1>3. last \in 0 .. MaxId /\ \A i \in 1 .. n : vRegister[i].id \in Nat
  BY <1>1 DEF Entries
<1> DEFINE m == MaxId + 1
<1>4. NextId = (last + 1) % m /\ m \in Nat /\ m > 0
  BY <1>2 DEF NextId
<1>5. CASE n = 1
  <2>1. last = MaxId
    BY <1>5 DEF RegistryInv, Entry
  <2>2. NextId = m % m
    BY <1>4, <2>1
  <2>3. m % m = 0
    <3> HIDE DEF m
    <3> QED  BY <1>4
  <2>4. ~ \E i \in 2 .. n : TRUE
    BY <1>5
  <2> HIDE DEF m, last, n
  <2> QED  BY <1>1, <2>2, <2>3, <2>4 DEF n
<1>6. CASE n # 1
  <2>0. \A i \in 2 .. n : vRegister[i].id <= created - 2
    BY DEF RegistryInv
  <2>1. n \in 2 .. n /\ last <= created - 2
    <3>1. n \in 2 .. n
      <4> HIDE DEF n
      <4> QED  BY <1>1, <1>6
    <3> HIDE DEF n
    <3> QED  BY <2>0, <3>1
  <2>2. last + 1 \in 0 .. m - 1
    BY <1>1, <1>3, <2>1
  <2>3. (last + 1) % m = last + 1
    <3> DEFINE a == last + 1
    <3>1. a \in Nat /\ a < m
      BY <1>3, <2>2
    <3> HIDE DEF a, m
    <3>2. a % m = a
      BY <1>4, <3>1
    <3> QED  BY <3>2 DEF a
  <2>4. \A i \in 2 .. n : vRegister[i].id < last + 1
    <3>1. \A i \in 2 .. n : i = n \/ i < n
      BY <1>1
    <3>2. \A i \in 2 .. n : i < n => vRegister[i].id < last
      BY <2>1 DEF RegistryInv
    <3>3. \A i \in 2 .. n : vRegister[i].id \in Nat
      BY <1>1, <1>3
    <3> HIDE DEF n
    <3> QED  BY <1>3, <3>1, <3>2, <3>3
  <2>5. last + 1 \in Nat /\ last + 1 <= created - 1 /\ last + 1 \in 0 .. MaxId
    <3> HIDE DEF last
    <3> QED  BY <1>1, <1>3, <2>1, <2>2
  <2> HIDE DEF last, m
  <2> QED  BY <1>4, <2>3, <2>4, <2>5
<1> QED  BY <1>5, <1>6

\* A vector with one registry more.
LEMMA CreateKeeps ==
  ASSUME TypeOK, RegistryInv, createNewRegistry
  PROVE  RegistryInv' /\ TypeOK'
<1> USE BoundsAssumption
<1> DEFINE n == Len(vRegister)
           e == Entry(NextId, created)
<1>1. /\ created <= MaxRegistries /\ vRegister' = Append(vRegister, e)
      /\ ids' = ids \cup {e} /\ created' = created + 1
      /\ UNCHANGED trackerVars
  BY DEF createNewRegistry
<1>2. /\ n \in Nat /\ vRegister \in Seq(Entries) /\ ids \subseteq Entries
      /\ n >= 1 /\ created \in 1 .. MaxRegistries + 1
      /\ \A i \in 1 .. n : vRegister[i] \in Entries
  BY ElementOfSeq, LenProperties, EmptySeq DEF TypeOK, RegistryInv
<1>3. /\ NextId \in 0 .. MaxId /\ NextId <= created - 1
      /\ \A i \in 2 .. n : vRegister[i].id < NextId
  BY <1>1, NextIdIs
<1>4. e \in Entries /\ e.id = NextId
  BY <1>1, <1>2, <1>3 DEF Entries, Entry
<1> HIDE DEF e
<1>5. /\ vRegister' \in Seq(Entries) /\ Len(vRegister') = n + 1
      /\ \A i \in 1 .. n : vRegister'[i] = vRegister[i]
      /\ vRegister'[n + 1] = e
  BY <1>1, <1>2, <1>4, AppendProperties
<1>6. TypeOK'
  BY <1>1, <1>2, <1>4, <1>5 DEF TypeOK, trackerVars
<1>7. /\ \A i \in 2 .. n : vRegister[i].id <= created - 2
      /\ \A i, j \in 2 .. n : i < j => vRegister[i].id < vRegister[j].id
      /\ \A x \in ids : \E i \in 2 .. n : vRegister[i] = x
      /\ vRegister[1] = Entry(MaxId, 0)
  BY DEF RegistryInv
<1> HIDE DEF n
<1>8. \A i \in 2 .. n + 1 : i \in 2 .. n \/ i = n + 1
  BY <1>2
<1>9. \A i \in 2 .. n : i \in 1 .. n /\ i \in 2 .. n + 1
  BY <1>2
<1>10. vRegister' # <<>> /\ vRegister'[1] = Entry(MaxId, 0)
  <2>1. 1 \in 1 .. n /\ n + 1 # 0
    BY <1>2
  <2> QED  BY <1>5, <1>7, <2>1, EmptySeq
<1>11. \A i \in 2 .. n + 1 : vRegister'[i].id <= created' - 2
  <2> TAKE i \in 2 .. n + 1
  <2>1. CASE i \in 2 .. n
    <3>1. vRegister[i].id <= created - 2 /\ vRegister[i].id \in Nat
      BY <1>2, <1>7, <1>9, <2>1 DEF Entries
    <3> QED  BY <1>1, <1>2, <1>5, <1>9, <2>1, <3>1
  <2>2. CASE i = n + 1
    BY <1>1, <1>2, <1>3, <1>4, <1>5, <2>2
  <2> QED  BY <1>8, <2>1, <2>2
<1>12. \A i, j \in 2 .. n + 1 : i < j => vRegister'[i].id < vRegister'[j].id
  <2> SUFFICES ASSUME NEW i \in 2 .. n + 1, NEW j \in 2 .. n + 1, i < j
               PROVE  vRegister'[i].id < vRegister'[j].id
    OBVIOUS
  <2>1. i \in 2 .. n
    BY <1>2
  <2>2. CASE j \in 2 .. n
    BY <1>5, <1>7, <1>9, <2>1, <2>2
  <2>3. CASE j = n + 1
    BY <1>3, <1>4, <1>5, <1>9, <2>1, <2>3
  <2> QED  BY <1>8, <2>2, <2>3
<1>13. \A x \in ids' : \E i \in 2 .. n + 1 : vRegister'[i] = x
  <2>1. n + 1 \in 2 .. n + 1
    BY <1>2
  <2> QED  BY <1>1, <1>5, <1>7, <1>9, <2>1
<1> QED
  BY <1>5, <1>6, <1>10, <1>11, <1>12, <1>13 DEF RegistryInv

\* A deletion keeps what it should.
LEMMA DeleteKeeps ==
  ASSUME TypeOK, RegistryInv, NEW e \in ids, deleteRegistry(e.id),
         ids' = ids \ {e}
  PROVE  RegistryInv' /\ TypeOK'
<1> USE BoundsAssumption
<1> DEFINE n == Len(vRegister)
           K == {x \in Entries : x.id # e.id}
           L == Left(e.id)
           w == L[n]
<1>1. /\ e.id # MaxId /\ vRegister' = w
      /\ UNCHANGED <<created, trackerVars>>
  BY DEF deleteRegistry
<1>2. /\ n \in Nat /\ vRegister \in Seq(Entries) /\ ids \subseteq Entries
      /\ n >= 1 /\ created \in 1 .. MaxRegistries + 1
      /\ \A i \in 1 .. n : vRegister[i] \in Entries
  BY ElementOfSeq, LenProperties, EmptySeq DEF TypeOK, RegistryInv
<1>3. Keeps(L, vRegister, K)
  BY LeftRecursion
<1> HIDE DEF L
<1>4. w \in Seq(Entries) /\ \E spot : Selects(spot, w, vRegister, K)
  <2> HIDE DEF K
  <2> QED  BY <1>2, <1>3, KeptProperties
<1>5. PICK spot \in [DOMAIN w -> 1 .. n] :
         /\ \A k \in DOMAIN w : w[k] = vRegister[spot[k]] /\ vRegister[spot[k]] \in K
         /\ \A j, k \in DOMAIN w : j < k => spot[j] < spot[k]
         /\ \A i \in 1 .. n :
              vRegister[i] \in K => \E k \in DOMAIN w : spot[k] = i
  BY <1>4 DEF Selects
<1> HIDE DEF w
<1> DEFINE m == Len(w)
<1>6. m \in Nat /\ DOMAIN w = 1 .. m
  BY <1>4, LenProperties
<1>7. /\ \A i \in 2 .. n : vRegister[i].id <= created - 2
      /\ \A i, j \in 2 .. n : i < j => vRegister[i].id < vRegister[j].id
      /\ \A x \in ids : \E i \in 2 .. n : vRegister[i] = x
      /\ vRegister[1] = Entry(MaxId, 0)
  BY DEF RegistryInv
<1> HIDE DEF n, m
\* The information registry stays in front.
<1>8. m >= 1 /\ spot[1] = 1
  <2>1. vRegister[1] \in K /\ 1 \in 1 .. n
    BY <1>1, <1>2, <1>7 DEF Entry
  <2>2. PICK k \in 1 .. m : spot[k] = 1
    BY <1>5, <1>6, <2>1
  <2>3. 1 \in 1 .. m /\ k >= 1 /\ m >= 1
    BY <1>6
  <2>4. spot[1] \in 1 .. n
    BY <1>5, <1>6, <2>3
  <2>5. 1 < k => spot[1] < 1
    BY <1>5, <1>6, <2>2, <2>3
  <2>6. ~(1 < k)
    BY <1>2, <2>4, <2>5
  <2>7. k = 1
    BY <1>6, <2>3, <2>6
  <2> QED  BY <2>2, <2>3, <2>7
<1>9. w # <<>> /\ w[1] = Entry(MaxId, 0)
  <2>1. 1 \in 1 .. m
    BY <1>6, <1>8
  <2>2. m # 0
    BY <1>6, <1>8
  <2> QED  BY <1>5, <1>6, <1>7, <1>8, <2>1, <2>2, EmptySeq DEF m
<1>10. \A k \in 2 .. m : /\ k \in 1 .. m /\ spot[k] \in 2 .. n
                         /\ w[k] = vRegister[spot[k]]
  <2> TAKE k \in 2 .. m
  <2>1. k \in 1 .. m /\ 1 \in 1 .. m /\ 1 < k
    BY <1>6
  <2>2. spot[k] \in 1 .. n /\ 1 < spot[k] /\ w[k] = vRegister[spot[k]]
    BY <1>5, <1>6, <1>8, <2>1
  <2> QED  BY <1>2, <2>1, <2>2
<1>11. \A k \in 2 .. m : w[k].id <= created - 2
  BY <1>7, <1>10
<1>12. \A j, k \in 2 .. m : j < k => w[j].id < w[k].id
  <2> SUFFICES ASSUME NEW j \in 2 .. m, NEW k \in 2 .. m, j < k
               PROVE  w[j].id < w[k].id
    OBVIOUS
  <2>1. spot[j] < spot[k]
    BY <1>5, <1>6, <1>10
  <2> QED  BY <1>7, <1>10, <2>1
<1>13. \A x \in ids \ {e} : \E k \in 2 .. m : w[k] = x
  <2> SUFFICES ASSUME NEW x \in ids \ {e} PROVE \E k \in 2 .. m : w[k] = x
    OBVIOUS
  <2>1. PICK i \in 2 .. n : vRegister[i] = x
    BY <1>7
  <2>2. PICK j \in 2 .. n : vRegister[j] = e
    BY <1>7
  <2>3. i \in 1 .. n /\ j \in 1 .. n /\ i # j /\ i # 1
    BY <1>2, <2>1, <2>2
  <2>4. x.id # e.id
    <3>1. i < j \/ j < i
      BY <1>2, <2>3
    <3>2. x.id < e.id \/ e.id < x.id
      BY <1>7, <2>1, <2>2, <3>1
    <3>3. x.id \in Nat /\ e.id \in Nat
      BY <1>2 DEF Entries
    <3> QED  BY <3>2, <3>3
  <2>5. vRegister[i] \in K
    BY <1>2, <2>1, <2>4
  <2>6. PICK k \in 1 .. m : spot[k] = i
    BY <1>5, <1>6, <2>3, <2>5
  <2>7. k # 1
    BY <1>8, <2>3, <2>6
  <2>8. k \in 2 .. m
    BY <1>6, <2>7
  <2> QED  BY <1>10, <2>1, <2>6, <2>8
<1>14. TypeOK'
  <2>1. ids' \subseteq Entries /\ vRegister' \in Seq(Entries)
    BY <1>1, <1>2, <1>4
  <2> QED  BY <1>1, <2>1 DEF TypeOK, trackerVars
<1> QED
  BY <1>1, <1>9, <1>11, <1>12, <1>13, <1>14 DEF RegistryInv, m

\* So an id finds its registry.
LEMMA FindsRegistry ==
  TypeOK /\ RegistryInv => IdFindsRegistry
<1> SUFFICES ASSUME TypeOK, RegistryInv PROVE IdFindsRegistry
  OBVIOUS
<1> USE BoundsAssumption, WidthAssumption
<1> DEFINE n == Len(vRegister)
<1>1. /\ n \in Nat /\ DOMAIN vRegister = 1 .. n /\ n >= 1
      /\ created \in 1 .. MaxRegistries + 1
      /\ \A i \in 1 .. n : vRegister[i].id \in Nat
  <2>1. vRegister \in Seq(Entries)
    BY DEF TypeOK
  <2>2. \A i \in 1 .. n : vRegister[i] \in Entries
    BY <2>1, ElementOfSeq
  <2> QED
    BY <2>1, <2>2, LenProperties, EmptySeq DEF TypeOK, RegistryInv, Entries
<1>2. /\ \A i \in 2 .. n : vRegister[i].id <= created - 2
      /\ \A i, j \in 2 .. n : i < j => vRegister[i].id < vRegister[j].id
      /\ \A x \in ids : \E i \in 2 .. n : vRegister[i] = x
      /\ vRegister[1] = Entry(MaxId, 0) /\ vRegister # <<>>
  BY DEF RegistryInv
<1> HIDE DEF n
<1>3. vRegister[1].id = MaxId /\ vRegister[1].reg = 0
  BY <1>2 DEF Entry
<1>4. \A i \in 2 .. n : i \in 1 .. n /\ i # 1 /\ vRegister[i].id # MaxId
  <2> TAKE i \in 2 .. n
  <2>1. i \in 1 .. n /\ i # 1
    BY <1>1
  <2>2. vRegister[i].id <= created - 2 /\ vRegister[i].id \in Nat
    BY <1>1, <1>2, <2>1
  <2>3. created - 2 < MaxId
    BY <1>1
  <2> QED  BY <1>1, <2>1, <2>2, <2>3
<1>5. \A i \in 1 .. n : i = 1 \/ i \in 2 .. n
  BY <1>1
\* The only registry with its id.
<1>6. ASSUME NEW i \in 1 .. n
      PROVE  getRegistry(vRegister[i].id) = vRegister[i].reg
  <2> DEFINE found == {j \in DOMAIN vRegister : vRegister[j].id = vRegister[i].id}
  <2>1. ASSUME NEW j \in 1 .. n, vRegister[j].id = vRegister[i].id PROVE j = i
    <3>1. CASE i = 1 \/ j = 1
      BY <1>3, <1>4, <1>5, <2>1, <3>1
    <3>2. CASE i \in 2 .. n /\ j \in 2 .. n
      <4>1. ~(i < j) /\ ~(j < i)
        BY <1>1, <1>2, <2>1, <3>2
      <4> QED  BY <1>1, <4>1
    <3> QED  BY <1>5, <3>1, <3>2
  <2>2. found = {i}
    BY <1>1, <2>1
  <2>3. getRegistry(vRegister[i].id) = IF found = {} THEN -1
                                        ELSE vRegister[Min(found)].reg
    BY DEF getRegistry
  <2> HIDE DEF found
  <2>4. Min({i}) = i
    BY <1>1 DEF Min
  <2> QED  BY <2>2, <2>3, <2>4
<1>7. \A x \in ids : getRegistry(x.id) = x.reg
  BY <1>2, <1>4, <1>6
<1>8. getRegistry(MaxId) = 0
  <2>1. 1 \in 1 .. n
    BY <1>1
  <2> QED  BY <1>3, <1>6, <2>1
<1> QED  BY <1>2, <1>7, <1>8 DEF IdFindsRegistry

\* The threads that are at some place; those that are in no event at all are
\* perhaps infinitely many.
Where(places) == {t \in Threads : pc[t] \in places}
Active == {"working", "outcome", "total", "decrement"}

TrackerInv == IsFiniteSet(Where(Active)) /\ EventsBalance

\* What the tracker's invariant says of the sets of threads it counts.
LEMMA Counting ==
  ASSUME TypeOK, TrackerInv
  PROVE  /\ Where({"outcome"}) \subseteq Where(Active)
         /\ IsFiniteSet(Where(Active)) /\ IsFiniteSet(Where({"outcome"}))
         /\ activeCtr = Cardinality(Where(Active)) /\ activeCtr \in Nat
         /\ counts.success + counts.failed
              = counts.total + Cardinality(Where({"outcome"}))
         /\ Cardinality(Where({"outcome"})) \in Nat
<1>1. Where({"outcome"}) \subseteq Where(Active)
  BY DEF Where, Active
<1>2. IsFiniteSet(Where(Active)) /\ IsFiniteSet(Where({"outcome"}))
  BY <1>1, FS_Subset DEF TrackerInv
<1>3. /\ activeCtr = Cardinality(Where(Active))
      /\ counts.success + counts.failed
           = counts.total + Cardinality(Where({"outcome"}))
  BY DEF TrackerInv, EventsBalance, At, Where, Active
<1> QED  BY <1>1, <1>2, <1>3, FS_CardinalityType

\* A step of one thread moves it from one place to another.
LEMMA WhereAfter ==
  ASSUME TypeOK, NEW t \in Threads, NEW from, NEW to, Goes(t, from, to),
         NEW places
  PROVE  Where(places)' = IF to \in places THEN Where(places) \cup {t}
                          ELSE Where(places) \ {t}
BY DEF TypeOK, Goes, Where

\* Threads that begin or end an event.
LEMMA TrackerKeeps ==
  ASSUME TypeOK, TrackerInv, NEW t \in Threads,
         \/ incrementActive(t) \/ endScope(t)
         \/ \E o \in {"success", "failed"} : incrementOutcome(t, o)
         \/ incrementTotal(t) \/ checkActive(t) \/ decrementActive(t)
  PROVE  TypeOK' /\ TrackerInv'
<1> USE BoundsAssumption
<1> DEFINE A == Where(Active)
           O == Where({"outcome"})
<1>1. /\ IsFiniteSet(A) /\ IsFiniteSet(O) /\ O \subseteq A
      /\ activeCtr = Cardinality(A) /\ activeCtr \in Nat
      /\ counts.success + counts.failed = counts.total + Cardinality(O)
      /\ Cardinality(O) \in Nat /\ Cardinality(A) \in Nat
  BY Counting
<1>2. /\ counts \in [{"total", "success", "failed"} -> Nat]
      /\ counts.total \in Nat /\ counts.success \in Nat /\ counts.failed \in Nat
      /\ pc \in [Threads -> {"idle", "working", "outcome", "total", "decrement"}]
  BY DEF TypeOK
<1>3. (t \in A <=> pc[t] \in Active) /\ (t \in O <=> pc[t] = "outcome")
  BY DEF Where
<1>4. ASSUME IsFiniteSet(A'), activeCtr' = Cardinality(A'),
             counts'.success + counts'.failed = counts'.total + Cardinality(O')
      PROVE  TrackerInv'
  BY <1>4 DEF TrackerInv, EventsBalance, At, Where, Active
<1>5. ASSUME NEW S, IsFiniteSet(S)
      PROVE  /\ Cardinality(S \cup {t}) = IF t \in S THEN Cardinality(S)
                                          ELSE Cardinality(S) + 1
             /\ Cardinality(S \ {t}) = IF t \in S THEN Cardinality(S) - 1
                                       ELSE Cardinality(S)
             /\ IsFiniteSet(S \cup {t}) /\ IsFiniteSet(S \ {t})
  BY <1>5, FS_AddElement, FS_RemoveElement
<1>6. CASE incrementActive(t)
  <2>1. /\ Goes(t, "idle", "working") /\ activeCtr' = activeCtr + 1
        /\ events < MaxEvents /\ events' = events + 1
        /\ UNCHANGED <<counts, registryVars>>
    BY <1>6 DEF incrementActive
  <2>2. pc[t] = "idle" /\ t \notin A /\ t \notin O
    BY <1>3, <2>1 DEF Goes, Active
  <2>3. A' = A \cup {t} /\ O' = O \ {t}
    BY <2>1, WhereAfter DEF Active
  <2> HIDE DEF A, O
  <2>4. TrackerInv'
    BY <1>1, <1>4, <1>5, <2>1, <2>2, <2>3
  <2>5. TypeOK'
    BY <1>2, <2>1 DEF TypeOK, Goes, registryVars
  <2> QED  BY <2>4, <2>5
<1>7. CASE endScope(t) \/ decrementActive(t)
  <2>1. /\ Goes(t, "working", "idle") \/ Goes(t, "decrement", "idle")
        /\ activeCtr' = activeCtr - 1
        /\ UNCHANGED <<counts, events, registryVars>>
    BY <1>7 DEF endScope, decrementActive
  <2>2. t \in A /\ t \notin O
    BY <1>3, <2>1 DEF Goes, Active
  <2>3. A' = A \ {t} /\ O' = O \ {t}
    BY <2>1, WhereAfter DEF Active
  <2> HIDE DEF A, O
  <2>4. TrackerInv'
    BY <1>1, <1>4, <1>5, <2>1, <2>2, <2>3
  <2>5. TypeOK'
    BY <1>2, <2>1 DEF TypeOK, Goes, registryVars
  <2> QED  BY <2>4, <2>5
<1>8. ASSUME NEW o \in {"success", "failed"}, incrementOutcome(t, o)
      PROVE  TypeOK' /\ TrackerInv'
  <2>1. /\ Goes(t, "working", "outcome")
        /\ counts' = [counts EXCEPT ![o] = counts[o] + 1]
        /\ UNCHANGED <<activeCtr, events, registryVars>>
    BY <1>8 DEF incrementOutcome
  <2>2. t \in A /\ t \notin O
    BY <1>3, <2>1 DEF Goes, Active
  <2>3. A' = A \cup {t} /\ O' = O \cup {t}
    BY <2>1, WhereAfter DEF Active
  <2>4. /\ counts' \in [{"total", "success", "failed"} -> Nat]
        /\ counts'.success + counts'.failed = counts.success + counts.failed + 1
        /\ counts'.total = counts.total
    <3>1. CASE o = "success"
      BY <1>2, <2>1, <3>1
    <3>2. CASE o = "failed"
      BY <1>2, <2>1, <3>2
    <3> QED  BY <3>1, <3>2
  <2> HIDE DEF A, O
  <2>5. TrackerInv'
    <3>1. IsFiniteSet(A') /\ Cardinality(A') = Cardinality(A)
      BY <1>1, <1>5, <2>2, <2>3
    <3>2. Cardinality(O') = Cardinality(O) + 1
      BY <1>1, <1>5, <2>2, <2>3
    <3>3. counts'.success + counts'.failed = counts'.total + Cardinality(O')
      BY <1>1, <1>2, <2>4, <3>2
    <3> QED  BY <1>1, <1>4, <2>1, <3>1, <3>3
  <2>6. TypeOK'
    BY <1>2, <2>1, <2>4 DEF TypeOK, Goes, registryVars
  <2> QED  BY <2>5, <2>6
<1>9. CASE incrementTotal(t)
  <2>1. /\ Goes(t, "outcome", "total")
        /\ counts' = [counts EXCEPT !["total"] = counts["total"] + 1]
        /\ UNCHANGED <<activeCtr, events, registryVars>>
    BY <1>9 DEF incrementTotal
  <2>2. t \in A /\ t \in O
    BY <1>3, <2>1 DEF Goes, Active
  <2>3. A' = A \cup {t} /\ O' = O \ {t}
    BY <2>1, WhereAfter DEF Active
  <2>4. /\ counts' \in [{"total", "success", "failed"} -> Nat]
        /\ counts'.success = counts.success /\ counts'.failed = counts.failed
        /\ counts'.total = counts.total + 1
    BY <1>2, <2>1
  <2> HIDE DEF A, O
  <2>5. TrackerInv'
    <3>1. IsFiniteSet(A') /\ Cardinality(A') = Cardinality(A)
      BY <1>1, <1>5, <2>2, <2>3
    <3>2. Cardinality(O') = Cardinality(O) - 1
      BY <1>1, <1>5, <2>2, <2>3
    <3>3. counts'.success + counts'.failed = counts'.total + Cardinality(O')
      BY <1>1, <1>2, <2>4, <3>2
    <3> QED  BY <1>1, <1>4, <2>1, <3>1, <3>3
  <2>6. TypeOK'
    BY <1>2, <2>1, <2>4 DEF TypeOK, Goes, registryVars
  <2> QED  BY <2>5, <2>6
\* The gauge counts at least this thread's event: the check is passed.
<1>10. CASE checkActive(t)
  <2>1. /\ Goes(t, "total", IF MayDecrement THEN "decrement" ELSE "idle")
        /\ UNCHANGED <<counts, activeCtr, events, registryVars>>
    BY <1>10 DEF checkActive
  <2>2. t \in A /\ t \notin O
    BY <1>3, <2>1 DEF Goes, Active
  <2>3. Cardinality(A) > 0
    <3> HIDE DEF A, O
    <3> QED  BY <1>1, <2>2, FS_EmptySet
  <2>4. Goes(t, "total", "decrement")
    BY <1>1, <2>1, <2>3 DEF MayDecrement
  <2>5. A' = A \cup {t} /\ O' = O \ {t}
    BY <2>4, WhereAfter DEF Active
  <2> HIDE DEF A, O
  <2>6. TrackerInv'
    BY <1>1, <1>4, <1>5, <2>1, <2>2, <2>5
  <2>7. TypeOK'
    BY <1>2, <2>1, <2>4 DEF TypeOK, Goes, registryVars
  <2> QED  BY <2>6, <2>7
<1> QED  BY <1>6, <1>7, <1>8, <1>9, <1>10

MetricsInv == TypeOK /\ RegistryInv /\ TrackerInv

\* The registries' and the status tracker's invariant holds at first.
LEMMA MetricsInit == Init => MetricsInv
<1> SUFFICES ASSUME Init PROVE MetricsInv
  OBVIOUS
<1> USE BoundsAssumption DEF Init, Entry
<1>1. Entry(MaxId, 0) \in Entries
  BY DEF Entries
<1>2. TypeOK
  <2>1. vRegister \in Seq(Entries)
    BY <1>1
  <2>2. counts \in [{"total", "success", "failed"} -> Nat]
    OBVIOUS
  <2> QED  BY <2>1, <2>2 DEF TypeOK
<1>3. RegistryInv
  BY DEF RegistryInv
<1>4. TrackerInv
  <2>1. Where(Active) = {} /\ Where({"outcome"}) = {}
    BY DEF Where, Active
  <2>2. At(Active) = 0 /\ At({"outcome"}) = 0
    BY <2>1, FS_EmptySet DEF At, Where
  <2> QED  BY <2>1, <2>2, FS_EmptySet DEF TrackerInv, EventsBalance, Active
<1> QED  BY <1>2, <1>3, <1>4 DEF MetricsInv

\* The lemmas above together: a call of one leaves the other alone.
LEMMA MetricsKeeps ==
  ASSUME MetricsInv, Next PROVE MetricsInv'
<1>1. CASE createNewRegistry
  BY <1>1, CreateKeeps
  DEF MetricsInv, createNewRegistry, trackerVars, TrackerInv, EventsBalance, At,
      Where, Active
<1>2. CASE DeleteOwn
  BY <1>2, DeleteKeeps
  DEF MetricsInv, DeleteOwn, deleteRegistry, trackerVars, TrackerInv,
      EventsBalance, At, Where, Active
<1>3. ASSUME NEW t \in Threads,
             \/ incrementActive(t) \/ endScope(t)
             \/ \E o \in {"success", "failed"} : incrementOutcome(t, o)
             \/ incrementTotal(t) \/ checkActive(t) \/ decrementActive(t)
      PROVE  MetricsInv'
  <2>1. TypeOK' /\ TrackerInv'
    BY <1>3, TrackerKeeps DEF MetricsInv
  <2>2. UNCHANGED registryVars
    BY <1>3 DEF incrementActive, endScope, incrementOutcome, incrementTotal,
                checkActive, decrementActive
  <2> QED
    BY <2>1, <2>2 DEF MetricsInv, RegistryInv, registryVars
<1> QED  BY <1>1, <1>2, <1>3 DEF Next

-----------------------------------------------------------------------------
(* The four together: a step of one leaves the others alone.               *)

Proved == MetricsInv /\ Timing!TimingInv /\ ProcessInv /\ SocketsInv

\* What the steps of a part do not change.
LEMMA MetricsStill == MetricsInv /\ UNCHANGED vars => MetricsInv'
BY DEF MetricsInv, vars, registryVars, trackerVars, TypeOK, RegistryInv,
       TrackerInv, EventsBalance, At, Where

\* As MetricsStill, for the performance tracker.
LEMMA TimingStill == Timing!TimingInv /\ UNCHANGED timingVars => Timing!TimingInv'
BY DEF timingVars, Timing!TimingInv, Timing!TypeOK, Timing!NeverOverstates,
       Timing!StartsInv, Timing!ExtremesInv

\* For the self monitor.
LEMMA ProcessStill == ProcessInv /\ UNCHANGED processVars => ProcessInv'
BY DEF processVars, ProcessInv, Process!TypeOK, Process!DiskBytesAddUp

\* For the raw sockets.
LEMMA SocketsStill == SocketsInv /\ UNCHANGED socketVars => SocketsInv'
BY DEF socketVars, SocketsInv, SocketsAccounted, Sockets!SocketsAccounted,
       Sockets!TypeOK, Sockets!HoldersDiffer, Sockets!OnlyFailuresLeak,
       Sockets!StatsConserved, Sockets!Live, Sockets!Held

\* The invariant of every part holds, whichever part takes the steps: each keeps its
\* own, and leaves the variables of the others alone.
THEOREM PartsProved == PartsSpec => []Proved
<1>1. PartsInit => Proved
  BY MetricsInit, TimingInit, ProcessInit, SocketsInit DEF PartsInit, Proved
<1>2. /\ Proved
      /\ [MetricsStep \/ TimingStep \/ ProcessStep \/ SocketsStep]_<<
            part, vars, timingVars, processVars, socketVars>>
      => Proved'
  <2> SUFFICES ASSUME Proved,
                 [MetricsStep \/ TimingStep \/ ProcessStep \/ SocketsStep]_<<
                   part, vars, timingVars, processVars, socketVars>>
               PROVE  Proved'
    OBVIOUS
  <2> USE DEF Proved
  <2>1. CASE MetricsStep
    BY <2>1, MetricsKeeps, TimingStill, ProcessStill, SocketsStill DEF MetricsStep
  <2>2. CASE TimingStep
    BY <2>2, TimingKeeps, MetricsStill, ProcessStill, SocketsStill DEF TimingStep
  <2>3. CASE ProcessStep
    BY <2>3, ProcessKeeps, MetricsStill, TimingStill, SocketsStill DEF ProcessStep
  <2>4. CASE SocketsStep
    BY <2>4, SocketsKeeps, MetricsStill, TimingStill, ProcessStill DEF SocketsStep
  <2>5. CASE UNCHANGED <<part, vars, timingVars, processVars, socketVars>>
    BY <2>5, MetricsStill, TimingStill, ProcessStill, SocketsStill
  <2> QED  BY <2>1, <2>2, <2>3, <2>4, <2>5
<1> QED  BY <1>1, <1>2, PTL DEF PartsSpec

\* What the named properties take from it.
LEMMA ProvedImplies ==
  Proved => /\ TypesOK /\ PartsInv /\ IdFindsRegistry /\ EventsBalance
            /\ TimingSound /\ DiskBytesAddUp /\ SocketsAccounted
<1> SUFFICES ASSUME Proved
             PROVE  /\ TypesOK /\ PartsInv /\ IdFindsRegistry /\ EventsBalance
                    /\ TimingSound /\ DiskBytesAddUp /\ SocketsAccounted
  OBVIOUS
<1>1. IdFindsRegistry
  BY FindsRegistry DEF Proved, MetricsInv
<1>2. TimingSound
  BY TimingImplies DEF Proved
<1>3. TypesOK
  BY DEF Proved, TypesOK, MetricsInv, Timing!TimingInv, ProcessInv, SocketsInv
<1>4. PartsInv
  BY DEF Proved, PartsInv, MetricsInv, SocketsInv
<1> QED
  BY <1>1, <1>2, <1>3, <1>4
  DEF Proved, MetricsInv, TrackerInv, ProcessInv, SocketsInv, DiskBytesAddUp

\* Every variable of the four parts stays in its range: the registries' ids in
\* uint64_t, and the byte counts, the descriptors and the timings in theirs; the
\* ids grow along the vector, and no two objects hold a descriptor.
THEOREM InductiveHolds == PartsSpec => []Inductive
<1>1. Proved => Inductive
  BY ProvedImplies DEF Inductive
<1> QED  BY <1>1, PartsProved, PTL

\* createNewRegistry(), getRegistry() and deleteRegistry(), in any order by any
\* threads: an id that was given out finds its own registry until it is
\* deleted, for every width of the ids that creation does not exhaust.
THEOREM IdFindsRegistryHolds == PartsSpec => []IdFindsRegistry
BY PartsProved, ProvedImplies, PTL

\* StatusTracker, by any number of threads: decrementActive()'s check and its
\* decrement are two steps, but the check never fails and the gauge is exact.
THEOREM EventsBalanceHolds == PartsSpec => []EventsBalance
BY PartsProved, ProvedImplies, PTL

\* PerformanceTracker: endTimer() never reports more than its thread's own time,
\* whoever else starts the timer, and calls of it that never overlapped leave
\* the true extremes in the gauges.
THEOREM TimingSoundHolds == PartsSpec => []TimingSound
BY PartsProved, ProvedImplies, PTL

\* getDiskIO(): whichever searches fail, each byte is shown in one round, and
\* what was remembered is never more than what the kernel counts.
THEOREM DiskBytesAddUpHolds == PartsSpec => []DiskBytesAddUp
BY PartsProved, ProvedImplies, PTL

\* RawSocket: descriptors leak only with constructors that throw, no two
\* objects hold the same one, and getStats(true) loses no byte.
THEOREM SocketsAccountedHolds == PartsSpec => []SocketsAccounted
BY PartsProved, ProvedImplies, PTL

=============================================================================
