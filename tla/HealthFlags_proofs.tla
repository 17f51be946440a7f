------------------------- MODULE HealthFlags_proofs -------------------------
(***************************************************************************)
(* Proofs about the life of the process and its health flags, for every     *)
(* set of enabled services, of reporters and of services that break, every  *)
(* retry count, and with or without starts that fail and a crash handler    *)
(* that dies.                                                              *)
(***************************************************************************)
EXTENDS HealthFlags, TLAPS

\* The four entries main() makes, in their order.
LEMMA OrderFacts ==
  /\ Len(Order) = 4 /\ DOMAIN Order = 1 .. 4
  /\ Order[1] = "crashpad" /\ Order[2] = "monitor"
  /\ Order[3] = "zeromq" /\ Order[4] = "telnet"
  /\ \A i \in 1 .. 4 : Order[i] \in Services
  /\ Place("telnet") = 4
<1>1. /\ Len(Order) = 4 /\ DOMAIN Order = 1 .. 4
      /\ Order[1] = "crashpad" /\ Order[2] = "monitor"
      /\ Order[3] = "zeromq" /\ Order[4] = "telnet"
  BY DEF Order
<1>2. \A i \in 1 .. 4 : i = 1 \/ i = 2 \/ i = 3 \/ i = 4
  OBVIOUS
<1>3. \A i \in 1 .. 4 : Order[i] \in Services
  BY <1>1, <1>2 DEF Services
<1>4. \A i \in DOMAIN Order : Order[i] = "telnet" <=> i = 4
  BY <1>1, <1>2
<1>5. Place("telnet") = 4
  <2>1. 4 \in DOMAIN Order
    BY <1>1
  <2> QED  BY <1>4, <2>1 DEF Place
<1> QED  BY <1>1, <1>3, <1>5

\* Every service has one entry.
LEMMA OneEntry ==
  /\ \A i, j \in DOMAIN Order : Order[i] = Order[j] => i = j
  /\ \A s \in Services : \E i \in DOMAIN Order : Order[i] = s
<1>1. \A i \in 1 .. 4 : i = 1 \/ i = 2 \/ i = 3 \/ i = 4
  OBVIOUS
<1> QED  BY <1>1, OrderFacts DEF Services

\* A reader that goes on is still one.
LEMMA NextReading ==
  ASSUME NEW r \in Readings, NEW n \in 0 .. Len(Order) + 1,
         NEW v \in SUBSET Services
  PROVE  [r EXCEPT !.next = n, !.seen = v] \in Readings
BY DEF Readings

\* The start of the process: nothing runs and the vector is empty.
LEMMA InitInductive == Init => Inductive
<1> SUFFICES ASSUME Init PROVE Inductive
  OBVIOUS
<1> USE ConstantsAssumption, OrderFacts
<1>1. TypeOK
  <2>1. NotReading \in Readings
    BY DEF NotReading, Readings
  <2>2. reader \in [Reporters -> Readings]
    BY <2>1 DEF Init
  <2>3. flag \in [Services -> BOOLEAN]
    BY DEF Init
  <2>4. started \subseteq Enabled /\ working \subseteq Services
    BY DEF Init
  <2>5. /\ at \in 0 .. Len(Order) /\ size \in 0 .. Len(Order)
        /\ capacity \in size .. 2 * Len(Order)
        /\ clearing \in 0 .. Len(Order) + 1 /\ retries \in 0 .. RetryCount + 1
    BY DEF Init
  <2> QED  BY <2>2, <2>3, <2>4, <2>5 DEF Init, TypeOK
<1>2. VectorInv /\ StartedInv /\ TracerInv
  BY DEF Init, VectorInv, StartedInv, TracerInv
<1>3. ReaderInv
  BY DEF Init, ReaderInv, NotReading, Reading
<1> QED
  BY <1>1, <1>2, <1>3
  DEF Init, Inductive, NoReallocationUnderReader

\* Every step keeps the invariant: one step below for each action, with one
\* step for each part that the action disturbs.
LEMMA StepKeeps == ASSUME Inductive, [Next]_vars PROVE Inductive'
<1> USE ConstantsAssumption, OrderFacts DEF Inductive
<1>1. ASSUME AppendFlag PROVE Inductive'
  <2> USE <1>1 DEF AppendFlag, vars, mainVars, alarmVars, tracerVars, Grown,
    Reading
  <2>1. TypeOK'
    BY DEF TypeOK, VectorInv
  <2>2. NoReallocationUnderReader'
    BY DEF NoReallocationUnderReader, TypeOK, VectorInv, StartedInv, ReaderInv
  <2>3. VectorInv'
    BY DEF VectorInv, TypeOK
  <2>4. StartedInv'
    BY DEF StartedInv, TypeOK, VectorInv
  <2>5. TracerInv'
    BY DEF TracerInv, VectorInv, TypeOK
  <2>6. ReaderInv'
    BY DEF ReaderInv, TypeOK, Readings
  <2> QED  BY <2>1, <2>2, <2>3, <2>4, <2>5, <2>6
<1>2. ASSUME Start PROVE Inductive'
  <2> USE <1>2 DEF Start, vars, mainVars, alarmVars, tracerVars
  <2>1. TypeOK'
    BY DEF TypeOK
  <2>2. VectorInv'
    BY DEF VectorInv, TypeOK
  <2>3. StartedInv'
    BY OneEntry DEF StartedInv, TypeOK, VectorInv
  <2>4. ReaderInv'
    BY DEF ReaderInv, Reading
  <2>5. TracerInv'
    BY OneEntry DEF TracerInv, TypeOK, VectorInv
  <2>6. NoReallocationUnderReader'
    BY DEF NoReallocationUnderReader
  <2> QED  BY <2>1, <2>2, <2>3, <2>4, <2>5, <2>6
<1>3. ASSUME StartFails PROVE Inductive'
  <2> USE <1>3 DEF StartFails, vars, mainVars, alarmVars, tracerVars
  <2>1. \/ phase' = "aborted" \/ phase' = "stopping"
        \/ phase' = "running" /\ at = Len(Order)
    BY DEF AfterFailed, TypeOK, VectorInv, Services
  <2>2. TypeOK'
    BY <2>1 DEF TypeOK
  <2>3. VectorInv'
    BY <2>1 DEF VectorInv, TypeOK
  <2>4. StartedInv'
    BY <2>1 DEF StartedInv, TypeOK, VectorInv
  <2>5. TracerInv'
    BY <2>1 DEF TracerInv, TypeOK
  <2>6. NoReallocationUnderReader' /\ ReaderInv'
    BY DEF NoReallocationUnderReader, ReaderInv, Reading
  <2> QED  BY <2>2, <2>3, <2>4, <2>5, <2>6
<1>4. ASSUME Stop PROVE Inductive'
  <2> USE <1>4 DEF Stop, vars, mainVars, alarmVars, tracerVars, Stopped,
    Joined, Reading
  <2>1. at \in 1 .. 4 /\ at' \in 0 .. 3
    BY DEF TypeOK
  <2>2. started' \subseteq started
    OBVIOUS
  <2>3. TypeOK'
    BY <2>1, <2>2 DEF TypeOK
  <2>4. VectorInv'
    BY <2>1, <2>2 DEF VectorInv, TypeOK
  <2>5. StartedInv'
    BY <2>1, <2>2, OneEntry DEF StartedInv, TypeOK, VectorInv
  <2>6. ReaderInv'
    BY <2>1, <2>2, OneEntry DEF ReaderInv, Reading, StartedInv, TypeOK
  <2>7. TracerInv'
    BY <2>1, <2>2 DEF TracerInv, TypeOK
  <2>8. NoReallocationUnderReader'
    BY DEF NoReallocationUnderReader
  <2> QED  BY <2>3, <2>4, <2>5, <2>6, <2>7, <2>8
<1>5. ASSUME Return PROVE Inductive'
  <2> USE <1>5 DEF Return, vars, mainVars, alarmVars, tracerVars
  <2>1. TypeOK'
    BY DEF TypeOK
  <2>2. VectorInv'
    BY DEF VectorInv, TypeOK
  <2>3. StartedInv'
    BY DEF StartedInv, TypeOK
  <2>4. /\ NoReallocationUnderReader' /\ ReaderInv'
       /\ TracerInv'
    BY DEF NoReallocationUnderReader, ReaderInv, Reading,
      TracerInv
  <2> QED  BY <2>1, <2>2, <2>3, <2>4
<1>6. ASSUME Interrupt PROVE Inductive'
  <2> USE <1>6 DEF Interrupt, vars, mainVars, alarmVars, tracerVars
  <2>1. TypeOK'
    BY DEF TypeOK
  <2>2. VectorInv'
    BY DEF VectorInv, TypeOK
  <2>3. StartedInv'
    BY DEF StartedInv, TypeOK, VectorInv
  <2>4. /\ NoReallocationUnderReader' /\ ReaderInv'
       /\ TracerInv'
    BY DEF NoReallocationUnderReader, ReaderInv, Reading,
      TracerInv
  <2> QED  BY <2>1, <2>2, <2>3, <2>4
<1>7. ASSUME NEW s \in Services, Round(s) PROVE Inductive'
  <2> USE <1>7 DEF Round, vars, mainVars, alarmVars, tracerVars, Flagged,
    SetsFlag, FlagOf
  <2>1. TypeOK'
    BY DEF TypeOK
  <2>2. /\ NoReallocationUnderReader' /\ VectorInv' /\ StartedInv'
       /\ ReaderInv' /\ TracerInv'
    BY DEF NoReallocationUnderReader, VectorInv, StartedInv, ReaderInv,
      Reading, TracerInv
  <2> QED  BY <2>1, <2>2
<1>8. ASSUME TracerRound PROVE Inductive'
  <2> USE <1>8 DEF TracerRound, vars, mainVars, alarmVars, tracerVars,
    IsRunning, Ended
  <2>1. TypeOK'
    BY DEF TypeOK, TracerInv
  <2>3. StartedInv'
    BY DEF StartedInv, TypeOK
  <2>4. ReaderInv'
    <3>1. \A s \in Reporters : s \in started => s \in started'
      OBVIOUS
    <3> QED  BY <3>1 DEF ReaderInv, Reading
  <2>5. TracerInv'
    BY DEF TracerInv, StartedInv, TypeOK
  <2>6. NoReallocationUnderReader' /\ VectorInv'
    BY DEF NoReallocationUnderReader, VectorInv
  <2> QED  BY <2>1, <2>3, <2>4, <2>5, <2>6
<1>9. ASSUME NEW s \in Services, Break(s) PROVE Inductive'
  <2> USE <1>9 DEF Break, vars, mainVars, alarmVars, tracerVars
  <2>1. TypeOK'
    BY DEF TypeOK
  <2>2. /\ NoReallocationUnderReader' /\ VectorInv'
       /\ StartedInv' /\ ReaderInv' /\ TracerInv'
    BY DEF NoReallocationUnderReader, VectorInv, StartedInv,
      ReaderInv, Reading, TracerInv
  <2> QED  BY <2>1, <2>2
<1>10. ASSUME NEW s \in Services, Recover(s) PROVE Inductive'
  <2> USE <1>10 DEF Recover, vars, mainVars, alarmVars, tracerVars
  <2>1. TypeOK'
    BY DEF TypeOK
  <2>2. /\ NoReallocationUnderReader' /\ VectorInv'
       /\ StartedInv' /\ ReaderInv' /\ TracerInv'
    BY DEF NoReallocationUnderReader, VectorInv, StartedInv,
      ReaderInv, Reading, TracerInv
  <2> QED  BY <2>1, <2>2
<1>11. ASSUME NEW s \in Reporters, StatusBegin(s) PROVE Inductive'
  <2> USE <1>11 DEF StatusBegin, vars, mainVars, alarmVars, tracerVars, Ended
  <2>1. reader' \in [Reporters -> Readings]
    BY DEF TypeOK, Readings, Reading
  <2>2. TypeOK'
    BY <2>1 DEF TypeOK
  <2>3. ReaderInv'
    BY <2>1 DEF ReaderInv, Reading, TypeOK
  <2>4. /\ NoReallocationUnderReader' /\ VectorInv'
       /\ StartedInv' /\ TracerInv'
    BY DEF NoReallocationUnderReader, VectorInv, StartedInv,
      TracerInv
  <2> QED  BY <2>2, <2>3, <2>4
<1>12. ASSUME NEW s \in Reporters, StatusRead(s) PROVE Inductive'
  <2> USE <1>12 DEF StatusRead, vars, mainVars, alarmVars, tracerVars
  <2>1. reader[s].next \in 1 .. 4
    BY DEF TypeOK, Reading, Readings
  <2>2. reader' \in [Reporters -> Readings]
    <3> DEFINE v == IF flag[Order[reader[s].next]]
                    THEN reader[s].seen \cup {Order[reader[s].next]}
                    ELSE reader[s].seen
    <3>1. v \in SUBSET Services
      BY <2>1 DEF TypeOK, Readings
    <3>2. reader[s] \in Readings
      BY DEF TypeOK
    <3>3. [reader[s] EXCEPT !.next = reader[s].next + 1, !.seen = v]
            \in Readings
      <4> HIDE DEF v
      <4>1. reader[s].next + 1 \in 0 .. Len(Order) + 1
        BY <2>1
      <4> QED  BY <4>1, <3>1, <3>2, NextReading
    <3> QED  BY <3>3 DEF TypeOK
  <2>3. TypeOK'
    BY <2>1, <2>2 DEF TypeOK
  <2>4. ReaderInv'
    <3>1. /\ reader'[s].next = reader[s].next + 1
          /\ reader'[s].size = reader[s].size
      BY DEF TypeOK, Readings
    <3>2. \A t \in Reporters \ {s} : reader'[t] = reader[t]
      BY DEF TypeOK
    <3>3. /\ reader[s].next <= reader[s].size /\ reader[s].size <= size
          /\ s \in started /\ (s = "telnet" => connected)
          /\ reader[s].size \in Nat
      BY <2>1 DEF ReaderInv, Reading, TypeOK, Readings
    <3>4. size' = size /\ started' = started /\ connected' = connected
      OBVIOUS
    <3> HIDE <1>12 DEF StatusRead
    <3>5. reader'[s].next <= reader'[s].size + 1 /\ reader'[s].size <= size
      BY <2>1, <3>1, <3>3
    <3> QED  BY <3>2, <3>3, <3>4, <3>5 DEF ReaderInv, Reading
  <2>5. /\ NoReallocationUnderReader' /\ VectorInv'
       /\ StartedInv' /\ TracerInv'
    BY DEF NoReallocationUnderReader, VectorInv, StartedInv,
      TracerInv
  <2> QED  BY <2>3, <2>4, <2>5
<1>13. ASSUME NEW s \in Reporters, StatusEnd(s) PROVE Inductive'
  <2> USE <1>13 DEF StatusEnd, vars, mainVars, alarmVars, tracerVars,
    NotReading, Flagged, SetsFlag, FlagOf
  <2>1. reader' \in [Reporters -> Readings]
    BY DEF TypeOK, Readings, Reading
  <2>2. flag' \in [Services -> BOOLEAN]
    BY DEF TypeOK
  <2>3. TypeOK'
    BY <2>1, <2>2 DEF TypeOK
  <2>5. ReaderInv'
    BY <2>1, <2>2 DEF ReaderInv, Reading, TypeOK
  <2>6. /\ NoReallocationUnderReader' /\ VectorInv' /\ StartedInv'
       /\ TracerInv'
    BY DEF NoReallocationUnderReader, VectorInv, StartedInv, TracerInv
  <2> QED  BY <2>3, <2>5, <2>6
<1>14. ASSUME AlarmFires PROVE Inductive'
  <2> USE <1>14 DEF AlarmFires, vars, mainVars, alarmVars, tracerVars, Ended,
    Rearmed
  <2>1. TypeOK'
    BY DEF TypeOK
  <2>2. VectorInv'
    BY DEF VectorInv, TypeOK
  <2>3. /\ NoReallocationUnderReader' /\ StartedInv'
       /\ ReaderInv' /\ TracerInv'
    BY DEF NoReallocationUnderReader, StartedInv, ReaderInv,
      Reading, TracerInv
  <2> QED  BY <2>1, <2>2, <2>3
<1>15. ASSUME AlarmClears PROVE Inductive'
  <2> USE <1>15 DEF AlarmClears, vars, mainVars, alarmVars, tracerVars
  <2>1. flag' \in [Services -> BOOLEAN] /\ clearing' \in 0 .. Len(Order) + 1
    <3>1. CASE clearing <= size
      <4>1. Order[clearing] \in Services
        BY <3>1 DEF TypeOK
      <4>2. flag' \in [Services -> BOOLEAN]
        BY <3>1, <4>1 DEF TypeOK
      <4>3. clearing' = clearing + 1
        BY <3>1
      <4> QED  BY <3>1, <4>2, <4>3 DEF TypeOK
    <3>2. CASE ~(clearing <= size)
      BY <3>2 DEF TypeOK
    <3> QED  BY <3>1, <3>2
  <2>2. TypeOK'
    BY <2>1 DEF TypeOK
  <2>4. VectorInv'
    BY <2>1 DEF VectorInv, TypeOK
  <2>5. /\ NoReallocationUnderReader' /\ StartedInv' /\ ReaderInv'
       /\ TracerInv'
    BY DEF NoReallocationUnderReader, StartedInv, ReaderInv, Reading,
      TracerInv
  <2> QED  BY <2>2, <2>4, <2>5
<1>16. ASSUME NEW to \in {"hungUp", "gone"}, HandlerFails(to) PROVE Inductive'
  <2> USE <1>16 DEF HandlerFails, vars, mainVars, alarmVars, tracerVars
  <2>1. TypeOK'
    BY DEF TypeOK
  <2>2. /\ NoReallocationUnderReader' /\ VectorInv'
       /\ StartedInv' /\ ReaderInv' /\ TracerInv'
    BY DEF NoReallocationUnderReader, VectorInv, StartedInv,
      ReaderInv, Reading, TracerInv
  <2> QED  BY <2>1, <2>2
<1>17. ASSUME ClientConnects PROVE Inductive'
  <2> USE <1>17 DEF ClientConnects, vars, mainVars, alarmVars, tracerVars,
    Ended
  <2>1. TypeOK'
    BY DEF TypeOK
  <2>2. StartedInv'
    BY DEF StartedInv
  <2>3. ReaderInv'
    BY DEF ReaderInv, Reading
  <2>4. /\ NoReallocationUnderReader' /\ VectorInv'
       /\ TracerInv'
    BY DEF NoReallocationUnderReader, VectorInv, TracerInv
  <2> QED  BY <2>1, <2>2, <2>3, <2>4
<1>18. ASSUME LastClientLeaves PROVE Inductive'
  <2> USE <1>18 DEF LastClientLeaves, vars, mainVars, alarmVars, tracerVars,
    Orphaned, Ended
  <2>1. TypeOK'
    BY DEF TypeOK
  <2>2. VectorInv'
    BY DEF VectorInv, TypeOK
  <2>3. StartedInv'
    BY OneEntry DEF StartedInv, TypeOK
  <2>4. ReaderInv'
    BY DEF ReaderInv, Reading
  <2>5. TracerInv'
    BY DEF TracerInv
  <2>6. NoReallocationUnderReader'
    BY DEF NoReallocationUnderReader
  <2> QED  BY <2>1, <2>2, <2>3, <2>4, <2>5, <2>6
<1>19. ASSUME PrometheusFails PROVE Inductive'
  <2> USE <1>19 DEF PrometheusFails, vars, mainVars, alarmVars, tracerVars
  <2>1. TypeOK'
    BY DEF TypeOK
  <2>2. VectorInv'
    BY DEF VectorInv, TypeOK
  <2>3. StartedInv'
    BY DEF StartedInv, TypeOK, VectorInv
  <2>4. NoReallocationUnderReader' /\ ReaderInv' /\ TracerInv'
    BY DEF NoReallocationUnderReader, ReaderInv, Reading, TracerInv
  <2> QED  BY <2>1, <2>2, <2>3, <2>4
<1>20. ASSUME UNCHANGED vars PROVE Inductive'
  BY <1>20
  DEF vars, mainVars, alarmVars, tracerVars, TypeOK,
      NoReallocationUnderReader, VectorInv, StartedInv,
      ReaderInv, Reading, TracerInv
<1> QED
  BY <1>1, <1>2, <1>3, <1>4, <1>5, <1>6, <1>7, <1>8, <1>9, <1>10, <1>11,
    <1>12, <1>13, <1>14, <1>15, <1>16, <1>17, <1>18, <1>19, <1>20
  DEF Next, Main, Serve, Report

\* How the vector of flags has grown when main() is at each of its places, which
\* services and readers have started by then, and where each reader stands.
THEOREM InductiveHolds == Spec => []Inductive
<1> QED  BY InitInductive, StepKeeps, PTL DEF Spec

\* The state has its shape: in particular the handler and the readers stay
\* within the vector's four entries, and stopCounter within its bound.
THEOREM TypeCorrect == Spec => []TypeOK
<1>1. Inductive => TypeOK
  BY DEF Inductive
<1> QED  BY <1>1, InductiveHolds, PTL

\* vCheckFlag.emplace_back() never moves the vector under a thread that answers
\* a status request, whichever of the two servers reports and however far
\* main() has come: the only append a reader can meet is the fourth.  (The alarm
\* handler is no such thread: it may interrupt main() in an append that moves it.)
THEOREM NoReallocationUnderReaderHolds == Spec => []NoReallocationUnderReader
<1>1. Inductive => NoReallocationUnderReader
  BY DEF Inductive
<1> QED  BY <1>1, InductiveHolds, PTL

\* When main() returns, its destructors have joined every thread but that of a
\* Telnet server whose sessions own it.
THEOREM OnlySessionsOutliveHolds == Spec => []OnlySessionsOutlive
<1>1. Inductive => OnlySessionsOutlive
  <2> SUFFICES ASSUME Inductive, phase = "returned", started # {}
               PROVE  started = {"telnet"} /\ connected
    BY DEF OnlySessionsOutlive
  <2>1. \A s \in started : s \in Services
    BY ConstantsAssumption DEF Inductive, TypeOK
  <2>2. \A s \in started : s = "telnet" /\ connected
    <3> SUFFICES ASSUME NEW s \in started PROVE s = "telnet" /\ connected
      OBVIOUS
    <3>1. PICK i \in DOMAIN Order : Order[i] = s
      BY <2>1, OneEntry
    <3> QED
      BY <3>1, OrderFacts DEF Inductive, StartedInv, VectorInv
  <2> QED  BY <2>2
<1> QED  BY <1>1, InductiveHolds, PTL

=============================================================================
