---------------------------- MODULE Logging_proofs ----------------------------
(***************************************************************************)
(* Proofs about Logging, for any number of messages and any levels.  A     *)
(* message has the number of messages logged so far as its own, so that it  *)
(* is behind all of them wherever it is put.                               *)
(***************************************************************************)
EXTENDS Logging, DataLemmas

-----------------------------------------------------------------------------
(* The levels.                                                             *)

\* The order of the levels, as spdlog numbers them.
LEMMA Numbers ==
  /\ Number("trace") = 0 /\ Number("debug") = 1 /\ Number("info") = 2
  /\ Number("warn") = 3 /\ Number("err") = 4 /\ Number("critical") = 5
<1>1. /\ AllLevels[1] = "trace" /\ AllLevels[2] = "debug" /\ AllLevels[3] = "info"
      /\ AllLevels[4] = "warn" /\ AllLevels[5] = "err"
      /\ AllLevels[6] = "critical" /\ AllLevels[7] = "off"
  BY DEF AllLevels
<1>2. ASSUME NEW level, NEW k \in 0 .. 6, AllLevels[k + 1] = level,
             \A n \in 0 .. 6 : AllLevels[n + 1] = level => n = k
      PROVE  Number(level) = k
  BY <1>2 DEF Number
<1>3. \A n \in 0 .. 6 : n = 0 \/ n = 1 \/ n = 2 \/ n = 3 \/ n = 4 \/ n = 5 \/ n = 6
  OBVIOUS
<1>4. /\ \A n \in 0 .. 6 : AllLevels[n + 1] = "trace" => n = 0
      /\ \A n \in 0 .. 6 : AllLevels[n + 1] = "debug" => n = 1
      /\ \A n \in 0 .. 6 : AllLevels[n + 1] = "info" => n = 2
      /\ \A n \in 0 .. 6 : AllLevels[n + 1] = "warn" => n = 3
      /\ \A n \in 0 .. 6 : AllLevels[n + 1] = "err" => n = 4
      /\ \A n \in 0 .. 6 : AllLevels[n + 1] = "critical" => n = 5
  BY <1>1, <1>3
<1>5. Number("trace") = 0
  BY <1>1, <1>4, <1>2
<1>6. Number("debug") = 1
  BY <1>1, <1>4, <1>2
<1>7. Number("info") = 2
  BY <1>1, <1>4, <1>2
<1>8. Number("warn") = 3
  BY <1>1, <1>4, <1>2
<1>9. Number("err") = 4
  BY <1>1, <1>4, <1>2
<1>10. Number("critical") = 5
  BY <1>1, <1>4, <1>2
<1> QED BY <1>5, <1>6, <1>7, <1>8, <1>9, <1>10

(* The levels a message can have.                                          *)
LEMMA LevelTypes ==
  \A level \in Levels \cup {"info"} :
    /\ Number(level) \in 0 .. 5
    /\ ToLoki(level) <=> level # "trace"
    /\ ToLoki(level) => Number(level) \in Buffers
    /\ ToSentry(level) <=> Number(level) >= Number("warn")
<1>1. Levels \subseteq {"trace", "debug", "info", "warn", "err", "critical"}
  <2>1. /\ AllLevels[1] = "trace" /\ AllLevels[2] = "debug" /\ AllLevels[3] = "info"
        /\ AllLevels[4] = "warn" /\ AllLevels[5] = "err"
        /\ AllLevels[6] = "critical"
    BY DEF AllLevels
  <2>2. \A n \in 1 .. 6 : AllLevels[n] \in
          {"trace", "debug", "info", "warn", "err", "critical"}
    BY <2>1
  <2>3. Levels \subseteq {AllLevels[n] : n \in 1 .. 6}
    BY ConstantsAssumption
  <2> QED BY <2>2, <2>3
<1> QED BY <1>1, Numbers DEF ToLoki, ToSentry, Buffers

-----------------------------------------------------------------------------
(* Sequences in order.                                                     *)

\* All of one sequence were logged before all of another.
Precede(s, t) == \A m \in Range(s), n \in Range(t) : m.number < n.number

\* What is in a sequence, in two of them together, and in one made longer.
LEMMA RangeIs ==
  ASSUME NEW S, NEW s \in Seq(S), NEW t \in Seq(S), NEW e \in S
  PROVE  /\ Range(s) \subseteq S
         /\ Range(s \o t) = Range(s) \cup Range(t)
         /\ Range(Append(s, e)) = Range(s) \cup {e}
         /\ Range(<<>>) = {}
<1>1. Range(s) \subseteq S /\ Range(<<>>) = {}
  BY ElementOfSeq, LenProperties DEF Range
<1>2. Range(s \o t) = Range(s) \cup Range(t)
  BY RangeConcatenation
<1>3. Append(s, e) = s \o <<e>> /\ <<e>> \in Seq(S) /\ Range(<<e>>) = {e}
  BY AppendIsConcat DEF Range
<1>5. \A u \in Seq(S) : Range(s \o u) = Range(s) \cup Range(u)
  BY RangeConcatenation
<1>4. Range(s \o <<e>>) = Range(s) \cup Range(<<e>>)
  BY <1>3, <1>5
<1> QED BY <1>1, <1>2, <1>3, <1>4

\* Two sequences together are in order if both are, and the first before the second.
LEMMA OrderOfConcat ==
  ASSUME NEW s \in Seq(Messages), NEW t \in Seq(Messages)
  PROVE  InOrder(s \o t) <=> InOrder(s) /\ InOrder(t) /\ Precede(s, t)
<1> DEFINE n == Len(s)
           w == s \o t
<1>1. /\ n \in Nat /\ Len(t) \in Nat
      /\ DOMAIN s = 1 .. n /\ DOMAIN t = 1 .. Len(t)
  BY LenProperties
<1>2. DOMAIN w = 1 .. n + Len(t)
  BY ConcatProperties, LenProperties
<1>3. /\ \A i \in 1 .. n : w[i] = s[i]
      /\ \A i \in 1 .. Len(t) : w[n + i] = t[i]
  BY <1>1, ConcatProperties
<1>4. ASSUME InOrder(w)
      PROVE  InOrder(s) /\ InOrder(t) /\ Precede(s, t)
  <2> HIDE DEF w, n
  <2>1. InOrder(s)
    BY <1>1, <1>2, <1>3, <1>4 DEF InOrder
  <2>2. InOrder(t)
    <3> SUFFICES ASSUME NEW i \in 1 .. Len(t), NEW j \in 1 .. Len(t), i < j
                 PROVE  t[i].number < t[j].number
      BY <1>1 DEF InOrder
    <3>1. n + i \in DOMAIN w /\ n + j \in DOMAIN w /\ n + i < n + j
      BY <1>1, <1>2
    <3>2. w[n + i].number < w[n + j].number
      BY <3>1, <1>4 DEF InOrder
    <3> QED BY <3>2, <1>3
  <2>3. Precede(s, t)
    <3> SUFFICES ASSUME NEW i \in 1 .. n, NEW j \in 1 .. Len(t)
                 PROVE  s[i].number < t[j].number
      BY <1>1 DEF Precede, Range
    <3>1. i \in DOMAIN w /\ n + j \in DOMAIN w /\ i < n + j
      BY <1>1, <1>2
    <3>2. w[i].number < w[n + j].number
      BY <3>1, <1>4 DEF InOrder
    <3> QED BY <3>2, <1>3
  <2> QED BY <2>1, <2>2, <2>3
<1>5. ASSUME InOrder(s), InOrder(t), Precede(s, t)
      PROVE  InOrder(w)
  <2> HIDE DEF w, n
  <2> SUFFICES ASSUME NEW i \in DOMAIN w, NEW j \in DOMAIN w, i < j
               PROVE  w[i].number < w[j].number
    BY DEF InOrder
  <2>1. CASE j <= n
    <3>1. i \in 1 .. n /\ j \in 1 .. n
      BY <2>1, <1>1, <1>2
    <3>2. s[i].number < s[j].number
      BY <3>1, <1>1, <1>5 DEF InOrder
    <3> QED BY <3>1, <3>2, <1>3
  <2>2. CASE i > n
    <3>1. PICK k \in 1 .. Len(t), l \in 1 .. Len(t) : i = n + k /\ j = n + l
      <4>1. i \in 1 .. n + Len(t) /\ j \in 1 .. n + Len(t) /\ i > n /\ j > n
        BY <2>2, <1>1, <1>2
      <4>2. i - n \in 1 .. Len(t) /\ i = n + (i - n)
        BY <4>1, <1>1
      <4>3. j - n \in 1 .. Len(t) /\ j = n + (j - n)
        BY <4>1, <1>1
      <4> QED BY <4>2, <4>3
    <3>2. t[k].number < t[l].number
      BY <3>1, <1>1, <1>5 DEF InOrder
    <3> QED BY <3>1, <3>2, <1>3
  <2>3. CASE i <= n /\ j > n
    <3>1. i \in 1 .. n
      BY <2>3, <1>1, <1>2
    <3>2. PICK l \in 1 .. Len(t) : j = n + l
      <4>1. j - n \in 1 .. Len(t) /\ j = n + (j - n)
        BY <2>3, <1>1, <1>2
      <4> QED BY <4>1
    <3>3. s[i] \in Range(s) /\ t[l] \in Range(t)
      BY <3>1, <3>2, <1>1 DEF Range
    <3>4. s[i].number < t[l].number
      BY <3>3, <1>5 DEF Precede
    <3> QED BY <3>1, <3>2, <3>4, <1>3
  <2> QED BY <2>1, <2>2, <2>3, <1>1, <1>2
<1> QED BY <1>4, <1>5

(* A message that is behind all of a sequence.                             *)
LEMMA OrderOfAppend ==
  ASSUME NEW s \in Seq(Messages), NEW m \in Messages, InOrder(s),
         \A n \in Range(s) : n.number < m.number
  PROVE  InOrder(Append(s, m))
<1>1. Append(s, m) = s \o <<m>> /\ <<m>> \in Seq(Messages) /\ Range(<<m>>) = {m}
  BY AppendIsConcat DEF Range
<1>2. InOrder(<<m>>)
  BY DEF InOrder
<1>3. Precede(s, <<m>>)
  BY <1>1 DEF Precede
<1> QED BY <1>1, <1>2, <1>3, OrderOfConcat

(* What Loki has, is sent and keeps waiting, one behind the other.           *)
LEMMA OrderOfThree ==
  ASSUME NEW s \in Seq(Messages), NEW t \in Seq(Messages), NEW u \in Seq(Messages),
         InOrder(s), InOrder(t), InOrder(u),
         Precede(s, t), Precede(s, u), Precede(t, u)
  PROVE  InOrder(s \o t \o u)
<1>1. s \o t \in Seq(Messages) /\ InOrder(s \o t)
  BY ConcatProperties, OrderOfConcat
<1>2. Precede(s \o t, u)
  BY RangeConcatenation DEF Precede
<1> QED BY <1>1, <1>2, OrderOfConcat

-----------------------------------------------------------------------------
(* The invariant.                                                          *)

\* The messages of level b that Loki has, is sent, or is not sent yet.
Of(b) == Range(store[b]) \cup Range(posting[b]) \cup Range(buffer[b])

\* A message has its own number, the greatest so far.
Counts ==
  /\ IsFiniteSet(logged) /\ Cardinality(logged) <= MaxMessages + 1
  /\ phase \in {"none", "starting", "alive"} => Cardinality(logged) <= MaxMessages
  /\ \A m \in logged : m.number <= Cardinality(logged)
  /\ flushed <= Cardinality(logged)

\* Every message is in the place of its level, or was lost.
Placed ==
  /\ \A b \in Buffers : \A m \in Of(b) :
       m \in logged /\ Number(m.level) = b /\ m \notin lost
  /\ lost \subseteq logged
  /\ LokiAvailable =>
       \A m \in logged : m.level # "trace" =>
         m \in lost \/ \E b \in Buffers : m \in Of(b)
  /\ \A m \in lost : m.level # "trace"

\* Every level is in order, and what Loki has is before the rest.
Sorted ==
  \A b \in Buffers :
    /\ InOrder(store[b]) /\ InOrder(posting[b]) /\ InOrder(buffer[b])
    /\ Precede(store[b], posting[b]) /\ Precede(store[b], buffer[b])
    /\ Precede(posting[b], buffer[b])

Late ==
  phase \in {"flushed", "dropped", "gone", "crashed"} =>
    \A b \in Buffers : \A m \in Range(buffer[b]) : m.number > flushed

Handed ==
  /\ Range(events) \subseteq logged /\ InOrder(events)
  /\ SentryAvailable =>
       \A m \in logged : Number(m.level) >= Number("warn") <=> m \in Range(events)

IInv == TypeOK /\ Counts /\ Placed /\ Sorted /\ Late /\ Handed

\* The three batches hold sequences of messages, and All collects them.
LEMMA Batches ==
  ASSUME TypeOK
  PROVE  /\ \A b \in Buffers :
              /\ store[b] \in Seq(Messages) /\ posting[b] \in Seq(Messages)
              /\ buffer[b] \in Seq(Messages)
         /\ \A m : m \in All(store) <=> \E b \in Buffers : m \in Range(store[b])
         /\ \A m : m \in All(posting) <=> \E b \in Buffers : m \in Range(posting[b])
         /\ \A m : m \in All(buffer) <=> \E b \in Buffers : m \in Range(buffer[b])
<1>1. /\ store \in [Buffers -> Seq(Messages)]
      /\ posting \in [Buffers -> Seq(Messages)]
      /\ buffer \in [Buffers -> Seq(Messages)]
  BY DEF TypeOK
<1> QED BY <1>1 DEF All

\* A message whose level has a buffer is no "trace".
LEMMA MessageTypes ==
  \A m \in Messages :
    /\ m.number \in Nat /\ m.level \in Levels \cup {"info"}
    /\ Number(m.level) \in 0 .. 5
    /\ Number(m.level) \in Buffers => m.level # "trace"
<1>1. \A m \in Messages : m.number \in Nat /\ m.level \in Levels \cup {"info"}
  BY ConstantsAssumption DEF Messages
<1> QED BY <1>1, LevelTypes, Numbers DEF Buffers

(* The invariant is what the properties say, and more.                      *)
LEMMA InvariantSays ==
  ASSUME IInv
  PROVE  OnceAndInOrder /\ OnlyLateOnesStay
<1>0. TypeOK /\ Counts /\ Placed /\ Sorted /\ Late /\ Handed
  BY DEF IInv
<1>1. \A b \in Buffers : InOrder(store[b] \o posting[b] \o buffer[b])
  BY <1>0, Batches, OrderOfThree DEF Sorted
<1>2. \A m \in logged : m \in Messages
  BY <1>0 DEF TypeOK
<1>3. ASSUME LokiAvailable
      PROVE  {m \in logged : m.level # "trace"}
               = All(store) \cup All(posting) \cup All(buffer) \cup lost
  <2>1. ASSUME NEW m \in logged, m.level # "trace"
        PROVE  m \in All(store) \cup All(posting) \cup All(buffer) \cup lost
    BY <2>1, <1>0, <1>3, Batches DEF Placed, Of
  <2>2. ASSUME NEW m, m \in All(store) \cup All(posting) \cup All(buffer)
        PROVE  m \in logged /\ m.level # "trace"
    <3>1. PICK b \in Buffers : m \in Of(b)
      BY <2>2, <1>0, Batches DEF Of
    <3>2. m \in logged /\ Number(m.level) = b
      BY <3>1, <1>0 DEF Placed
    <3> QED BY <3>2, <1>2, MessageTypes
  <2>3. \A m \in lost : m \in logged /\ m.level # "trace"
    BY <1>0 DEF Placed
  <2> QED BY <2>1, <2>2, <2>3
<1>4. All(store) \cap lost = {}
  BY <1>0, Batches DEF Placed, Of
<1>5. phase \in {"dropped", "gone", "crashed"} => \A m \in All(buffer) : m.number > flushed
  BY <1>0, Batches DEF Late
<1>6. ASSUME SentryAvailable
      PROVE  Range(events) = {m \in logged : Number(m.level) >= Number("warn")}
  BY <1>6, <1>0 DEF Handed
<1>7. InOrder(events)
  BY <1>0 DEF Handed
<1> QED BY <1>0, <1>1, <1>3, <1>4, <1>5, <1>6, <1>7
        DEF OnceAndInOrder, OnlyLateOnesStay

\* Nothing is in NoBatch.
LEMMA NoBatchIsEmpty ==
  /\ NoBatch \in [Buffers -> Seq(Messages)]
  /\ \A b \in Buffers : NoBatch[b] = <<>> /\ Range(NoBatch[b]) = {}
                        /\ InOrder(NoBatch[b])
BY DEF NoBatch, Range, InOrder

\* It holds at first.
LEMMA InitIInv == Init => IInv
<1> SUFFICES ASSUME Init
             PROVE  IInv
  OBVIOUS
<1>1. /\ threshold = "off" /\ phase = "none"
      /\ buffer = NoBatch /\ posting = NoBatch /\ store = NoBatch
      /\ status = NoStatus /\ events = <<>> /\ logged = {} /\ lost = {}
      /\ flushed = 0
  BY DEF Init
<1>2. TypeOK
  <2>1. flushed \in 0 .. MaxMessages + 1
    BY <1>1, ConstantsAssumption
  <2> QED BY <1>1, <2>1, NoBatchIsEmpty DEF TypeOK
<1>3. Counts
  BY <1>1, ConstantsAssumption, FS_EmptySet DEF Counts
<1>4. Placed /\ Late
  BY <1>1, NoBatchIsEmpty DEF Placed, Late, Of
<1>5. Sorted
  BY <1>1, NoBatchIsEmpty DEF Sorted, Precede
<1>6. Handed
  <2>1. Range(events) = {} /\ InOrder(events)
    BY <1>1 DEF Range, InOrder
  <2> QED BY <2>1, <1>1 DEF Handed
<1> QED BY <1>2, <1>3, <1>4, <1>5, <1>6 DEF IInv

-----------------------------------------------------------------------------
(* A message.                                                              *)

(* It is put into the buffer of its level, behind what is there.             *)
LEMMA PushedIs ==
  ASSUME TypeOK, NEW n \in Buffers, NEW msg \in Messages
  PROVE  /\ Pushed(n, msg) \in [Buffers -> Seq(Messages)]
         /\ Pushed(n, msg)[n] = Append(buffer[n], msg)
         /\ \A b \in Buffers \ {n} : Pushed(n, msg)[b] = buffer[b]
<1>1. \A b \in Buffers : buffer[b] \in Seq(Messages)
  BY Batches
<1>2. \A b \in Buffers :
        Pushed(n, msg)[b] = buffer[b] \o (IF b = n THEN <<msg>> ELSE <<>>)
  BY DEF Pushed
<1>3. Pushed(n, msg)[n] = Append(buffer[n], msg)
  <2>1. Append(buffer[n], msg) = buffer[n] \o <<msg>>
    BY <1>1, AppendIsConcat
  <2> QED BY <2>1, <1>2
<1>4. ASSUME NEW b \in Buffers \ {n}
      PROVE  Pushed(n, msg)[b] = buffer[b]
  <2>1. Pushed(n, msg)[b] = buffer[b] \o <<>>
    BY <1>2
  <2>2. buffer[b] \o <<>> = buffer[b]
    BY <1>1, ConcatEmptySeq
  <2> QED BY <2>1, <2>2
<1>5. Append(buffer[n], msg) \in Seq(Messages)
  BY <1>1, AppendProperties
<1>6. \A b \in Buffers : Pushed(n, msg)[b] \in Seq(Messages)
  BY <1>1, <1>3, <1>4, <1>5
<1>7. Pushed(n, msg) = [b \in Buffers |-> Pushed(n, msg)[b]]
  BY DEF Pushed
<1> QED BY <1>3, <1>4, <1>6, <1>7

\* What a step that logs no more than one message leaves as it should be.
KeepsLogged ==
  /\ logged' \subseteq Messages /\ events' \in Seq(Messages)
  /\ buffer' \in [Buffers -> Seq(Messages)]
  /\ IsFiniteSet(logged')
  /\ Cardinality(logged') \in {Cardinality(logged), Cardinality(logged) + 1}
  /\ \A m \in logged' : m.number <= Cardinality(logged')
  /\ Placed' /\ Sorted' /\ Handed'
  /\ \A b \in Buffers : \A m \in Range(buffer'[b]) :
       m \in Range(buffer[b]) \/ m.number > flushed

\* A message goes to the end of its level, with a number greater than all before.
LEMMA LoggedKeeps ==
  ASSUME IInv, NEW level \in Levels \cup {"info"}, NEW clean \in BOOLEAN,
         Cardinality(logged) <= MaxMessages, Logged(level, clean),
         UNCHANGED <<posting, store, lost>>
  PROVE  KeepsLogged
<1> DEFINE msg == [number |-> Cardinality(logged) + 1, level |-> level,
                   clean |-> clean]
           N == Cardinality(logged)
<1>0. TypeOK /\ Counts /\ Placed /\ Sorted /\ Late /\ Handed
  BY DEF IInv
<1>t. N \in Nat /\ flushed \in Nat /\ flushed <= N
  BY <1>0, FS_CardinalityType, ConstantsAssumption DEF Counts, TypeOK
<1>1. CASE Number(level) < Number(threshold)
  <2>1. UNCHANGED <<logged, buffer, events>>
    BY <1>1 DEF Logged
  <2>2. Placed' /\ Sorted' /\ Handed'
    BY <2>1, <1>0 DEF Placed, Of, Sorted, Precede, Handed
  <2> QED BY <2>1, <2>2, <1>0 DEF TypeOK, Counts, KeepsLogged
<1>2. CASE ~ (Number(level) < Number(threshold))
  <2>1. /\ logged' = logged \cup {msg}
        /\ buffer' = IF LokiAvailable /\ ToLoki(level)
                     THEN Pushed(Number(level), msg) ELSE buffer
        /\ events' = IF SentryAvailable /\ ToSentry(level)
                     THEN Append(events, msg) ELSE events
    BY <1>2 DEF Logged
  <2>2. /\ msg \in Messages /\ msg.number = N + 1 /\ msg.level = level
    <3>1. N + 1 \in 1 .. MaxMessages + 1
      BY <1>t, ConstantsAssumption
    <3> QED BY <3>1 DEF Messages
  <2> HIDE DEF msg
  <2>3. \A m \in logged : m.number < msg.number /\ m \in Messages
    BY <1>0, <2>2, <1>t, MessageTypes DEF Counts, TypeOK
  <2>4. msg \notin logged
    BY <2>3, <2>2, <1>t
  <2>5. IsFiniteSet(logged') /\ Cardinality(logged') = N + 1
    BY <2>1, <2>4, <1>0, FS_AddElement DEF Counts
  <2>6. \A m \in logged' : m.number <= N + 1
    BY <2>1, <2>2, <1>0, <1>t, MessageTypes DEF Counts, TypeOK
  <2>b. \A b \in Buffers : store[b] \in Seq(Messages)
                           /\ posting[b] \in Seq(Messages)
                           /\ buffer[b] \in Seq(Messages)
    BY <1>0, Batches
  <2>7. ASSUME LokiAvailable, ToLoki(level)
        PROVE  /\ Number(level) \in Buffers
               /\ buffer' \in [Buffers -> Seq(Messages)]
               /\ buffer'[Number(level)] = Append(buffer[Number(level)], msg)
               /\ Range(buffer'[Number(level)])
                    = Range(buffer[Number(level)]) \cup {msg}
               /\ \A b \in Buffers \ {Number(level)} : buffer'[b] = buffer[b]
    <3>1. Number(level) \in Buffers
      BY <2>7, LevelTypes
    <3>2. buffer' = Pushed(Number(level), msg)
      BY <2>1, <2>7
    <3>3. Range(Append(buffer[Number(level)], msg))
            = Range(buffer[Number(level)]) \cup {msg}
      BY <3>1, <2>b, <2>2, RangeIs
    <3> QED BY <3>1, <3>2, <3>3, <1>0, <2>2, PushedIs
  <2>8. buffer' = buffer \/ (LokiAvailable /\ ToLoki(level))
    BY <2>1
  <2>9. \A b \in Buffers : \A m \in Range(buffer'[b]) :
          \/ m \in Range(buffer[b])
          \/ m = msg /\ b = Number(level)
    BY <2>7, <2>8
  <2>10. buffer' \in [Buffers -> Seq(Messages)]
    BY <2>7, <2>8, <1>0 DEF TypeOK
  <2>11. Placed'
    <3>1. ASSUME NEW b \in Buffers, NEW m \in Of(b)'
          PROVE  m \in logged' /\ Number(m.level) = b /\ m \notin lost'
      <4>1. m \in Of(b) \/ (m = msg /\ b = Number(level))
        BY <3>1, <2>9 DEF Of
      <4>2. CASE m \in Of(b)
        BY <4>2, <2>1, <1>0 DEF Placed
      <4>3. CASE m = msg /\ b = Number(level)
        BY <4>3, <2>1, <2>2, <2>4, <1>0 DEF Placed
      <4> QED BY <4>1, <4>2, <4>3
    <3>2. lost' \subseteq logged' /\ \A m \in lost' : m.level # "trace"
      BY <2>1, <1>0 DEF Placed
    <3>3. ASSUME LokiAvailable, NEW m \in logged', m.level # "trace"
          PROVE  m \in lost' \/ \E b \in Buffers : m \in Of(b)'
      <4>1. CASE m \in logged
        <5>1. m \in lost \/ \E b \in Buffers : m \in Of(b)
          BY <4>1, <3>3, <1>0 DEF Placed
        <5>2. \A b \in Buffers : Of(b) \subseteq Of(b)'
          BY <2>7, <2>8 DEF Of
        <5> QED BY <5>1, <5>2
      <4>2. CASE m = msg
        <5>1. ToLoki(level)
          BY <4>2, <3>3, <2>2, LevelTypes
        <5>2. msg \in Range(buffer'[Number(level)]) /\ Number(level) \in Buffers
          BY <5>1, <3>3, <2>7
        <5> QED BY <5>2, <4>2 DEF Of
      <4> QED BY <4>1, <4>2, <2>1
    <3> QED BY <3>1, <3>2, <3>3 DEF Placed
  <2>12. Sorted'
    <3> SUFFICES ASSUME NEW b \in Buffers
                 PROVE  /\ InOrder(store'[b]) /\ InOrder(posting'[b])
                        /\ InOrder(buffer'[b]) /\ Precede(store'[b], posting'[b])
                        /\ Precede(store'[b], buffer'[b])
                        /\ Precede(posting'[b], buffer'[b])
      BY DEF Sorted, Precede
    <3>1. /\ InOrder(store[b]) /\ InOrder(posting[b]) /\ InOrder(buffer[b])
          /\ Precede(store[b], posting[b]) /\ Precede(store[b], buffer[b])
          /\ Precede(posting[b], buffer[b])
      BY <1>0 DEF Sorted
    <3>2. \A m \in Of(b) : m.number < msg.number
      BY <1>0, <2>3 DEF Placed
    <3>3. InOrder(buffer'[b])
      <4>1. InOrder(Append(buffer[b], msg))
        BY <3>1, <3>2, <2>2, <2>b, OrderOfAppend DEF Of
      <4> QED BY <4>1, <3>1, <2>7, <2>8
    <3>4. \A m \in Range(buffer'[b]) : m \in Range(buffer[b]) \/ m = msg
      BY <2>9
    <3>5. Precede(store[b], buffer'[b]) /\ Precede(posting[b], buffer'[b])
      BY <3>1, <3>2, <3>4 DEF Precede, Of
    <3> QED BY <3>1, <3>3, <3>5
  <2>13. events' \in Seq(Messages) /\ Handed'
    <3>1. Range(events) \subseteq logged /\ InOrder(events)
          /\ events \in Seq(Messages)
      BY <1>0 DEF Handed, TypeOK
    <3>2. CASE SentryAvailable /\ ToSentry(level)
      <4>1. events' = Append(events, msg)
        BY <3>2, <2>1
      <4>2. Append(events, msg) \in Seq(Messages) /\ InOrder(Append(events, msg))
        BY <3>1, <2>2, <2>3, AppendProperties, OrderOfAppend
      <4>3. Range(events') = Range(events) \cup {msg}
        BY <4>1, <3>1, <2>2, RangeIs
      <4>4. Number(msg.level) >= Number("warn")
        BY <3>2, <2>2, LevelTypes
      <4>5. \A m \in logged : Number(m.level) >= Number("warn") <=> m \in Range(events)
        BY <3>2, <1>0 DEF Handed
      <4> QED BY <4>1, <4>2, <4>3, <4>4, <4>5, <3>1, <2>1, <2>4 DEF Handed
    <3>3. CASE ~ (SentryAvailable /\ ToSentry(level))
      <4>1. events' = events
        BY <3>3, <2>1
      <4>2. SentryAvailable => ~ (Number(msg.level) >= Number("warn"))
        BY <3>3, <2>2, LevelTypes
      <4>3. msg \notin Range(events)
        BY <3>1, <2>4
      <4> QED BY <4>1, <4>2, <4>3, <3>1, <2>1, <1>0 DEF Handed
    <3> QED BY <3>2, <3>3
  <2>14. logged' \subseteq Messages
    BY <2>1, <2>2, <1>0 DEF TypeOK
  <2>15. \A b \in Buffers : \A m \in Range(buffer'[b]) :
           m \in Range(buffer[b]) \/ m.number > flushed
    BY <2>9, <2>2, <1>t
  <2> QED BY <2>5, <2>6, <2>10, <2>11, <2>12, <2>13, <2>14, <2>15
          DEF KeepsLogged
<1> QED BY <1>1, <1>2

-----------------------------------------------------------------------------
(* A flush, and its answer.                                                *)

\* What a step that moves a whole batch leaves as it should be.
KeepsMoved ==
  /\ buffer' \in [Buffers -> Seq(Messages)]
  /\ posting' \in [Buffers -> Seq(Messages)]
  /\ store' \in [Buffers -> Seq(Messages)] /\ lost' \subseteq Messages
  /\ Placed' /\ Sorted'

\* A flush moves the buffers in front of an empty post.
LEMMA FlushKeeps ==
  ASSUME IInv, ~Busy, Flush, UNCHANGED <<store, lost, logged>>
  PROVE  KeepsMoved /\ \A b \in Buffers : Range(buffer'[b]) \subseteq Range(buffer[b])
<1>0. TypeOK /\ Placed /\ Sorted
  BY DEF IInv
<1>1. posting = NoBatch
  BY DEF Busy
<1>2. CASE UNCHANGED <<buffer, posting>>
  BY <1>0, <1>2 DEF KeepsMoved, TypeOK, Placed, Of, Sorted, Precede
<1>3. CASE posting' = buffer /\ buffer' = NoBatch
  <2>1. \A b \in Buffers :
          /\ posting'[b] = buffer[b] /\ store'[b] = store[b]
          /\ Range(posting[b]) = {} /\ Range(buffer'[b]) = {}
          /\ InOrder(buffer'[b])
    BY <1>1, <1>3, NoBatchIsEmpty
  <2>2. \A b \in Buffers : Of(b)' = Of(b)
    BY <2>1 DEF Of
  <2>3. Placed'
    BY <2>2, <1>0 DEF Placed
  <2>4. Sorted'
    BY <2>1, <1>0 DEF Sorted, Precede
  <2>5. buffer' \in [Buffers -> Seq(Messages)] /\ posting' \in [Buffers -> Seq(Messages)]
    BY <1>3, <1>0, NoBatchIsEmpty DEF TypeOK
  <2> QED BY <2>1, <2>3, <2>4, <2>5, <1>0 DEF KeepsMoved, TypeOK
<1> QED BY <1>2, <1>3 DEF Flush, Cleared

\* What Loki takes goes behind what it has.
LEMMA AcceptedKeeps ==
  ASSUME IInv, Accepted
  PROVE  KeepsMoved
<1>0. TypeOK /\ Placed /\ Sorted
  BY DEF IInv
<1>1. /\ store' = [b \in Buffers |-> store[b] \o posting[b]]
      /\ posting' = NoBatch
      /\ UNCHANGED <<buffer, logged, lost>>
  BY DEF Accepted
<1>2. \A b \in Buffers : /\ store[b] \in Seq(Messages) /\ posting[b] \in Seq(Messages)
                         /\ buffer[b] \in Seq(Messages)
  BY <1>0, Batches
<1>3. \A b \in Buffers :
        /\ store'[b] = store[b] \o posting[b] /\ store'[b] \in Seq(Messages)
        /\ Range(store'[b]) = Range(store[b]) \cup Range(posting[b])
        /\ Range(posting'[b]) = {} /\ InOrder(posting'[b])
        /\ buffer'[b] = buffer[b]
  <2>1. ASSUME NEW b \in Buffers
        PROVE  /\ store[b] \o posting[b] \in Seq(Messages)
               /\ Range(store[b] \o posting[b])
                    = Range(store[b]) \cup Range(posting[b])
    BY <1>2, ConcatProperties, RangeConcatenation
  <2>2. \A b \in Buffers : store'[b] = store[b] \o posting[b]
    BY <1>1
  <2> QED BY <2>1, <2>2, <1>1, NoBatchIsEmpty
<1>4. \A b \in Buffers : Of(b)' = Of(b)
  BY <1>3 DEF Of
<1>5. Placed'
  BY <1>4, <1>1, <1>0 DEF Placed
<1>6. ASSUME NEW b \in Buffers
      PROVE  /\ InOrder(store'[b]) /\ InOrder(posting'[b]) /\ InOrder(buffer'[b])
             /\ Precede(store'[b], posting'[b]) /\ Precede(store'[b], buffer'[b])
             /\ Precede(posting'[b], buffer'[b])
  <2>1. /\ InOrder(store[b]) /\ InOrder(posting[b]) /\ InOrder(buffer[b])
        /\ Precede(store[b], posting[b]) /\ Precede(store[b], buffer[b])
        /\ Precede(posting[b], buffer[b])
    BY <1>0 DEF Sorted
  <2>2. InOrder(store[b] \o posting[b])
    BY <2>1, <1>2, OrderOfConcat
  <2> QED BY <2>1, <2>2, <1>3 DEF Precede
<1>7. Sorted'
  BY <1>6 DEF Sorted, Precede
<1>8. /\ store' \in [Buffers -> Seq(Messages)] /\ posting' \in [Buffers -> Seq(Messages)]
      /\ buffer' \in [Buffers -> Seq(Messages)] /\ lost' \subseteq Messages
  BY <1>1, <1>3, <1>0, NoBatchIsEmpty DEF TypeOK
<1> QED BY <1>5, <1>7, <1>8 DEF KeepsMoved

\* What it refuses is lost, and only that.
LEMMA RefusedKeeps ==
  ASSUME IInv, Refused
  PROVE  KeepsMoved
<1>0. TypeOK /\ Placed /\ Sorted
  BY DEF IInv
<1>1. /\ lost' = lost \cup All(posting) /\ posting' = NoBatch
      /\ UNCHANGED <<buffer, logged, store>>
  BY DEF Refused
<1>2. \A m : m \in lost' <=> m \in lost \/ \E b \in Buffers : m \in Range(posting[b])
  BY <1>0, <1>1, Batches
<1>3. \A b \in Buffers :
        /\ Range(posting'[b]) = {} /\ InOrder(posting'[b])
        /\ buffer'[b] = buffer[b] /\ store'[b] = store[b]
  BY <1>1, NoBatchIsEmpty
<1>4. logged \subseteq Messages
  BY <1>0 DEF TypeOK
\* A message of the batch is neither in Loki, nor in a buffer.
<1>5. ASSUME NEW b \in Buffers, NEW m \in Range(store[b]) \cup Range(buffer[b])
      PROVE  m \notin lost'
  <2>1. m \in logged /\ Number(m.level) = b /\ m \notin lost
    BY <1>0, <1>5 DEF Placed, Of
  <2>2. ASSUME NEW c \in Buffers, m \in Range(posting[c])
        PROVE  FALSE
    <3>1. c = b
      BY <2>1, <2>2, <1>0 DEF Placed, Of
    <3>2. m.number < m.number
      BY <3>1, <2>2, <1>5, <1>0 DEF Sorted, Precede
    <3>3. m.number \in Nat
      BY <2>1, <1>4, MessageTypes
    <3> QED BY <3>2, <3>3
  <2> QED BY <2>1, <2>2, <1>2
<1>6. Placed'
  <2>1. ASSUME NEW b \in Buffers, NEW m \in Of(b)'
        PROVE  m \in logged' /\ Number(m.level) = b /\ m \notin lost'
    <3>1. m \in Range(store[b]) \cup Range(buffer[b])
      BY <2>1, <1>3 DEF Of
    <3> QED BY <3>1, <1>5, <1>1, <1>0 DEF Placed, Of
  <2>2. ASSUME NEW m \in lost'
        PROVE  m \in logged' /\ m.level # "trace"
    <3>1. CASE m \in lost
      BY <3>1, <1>0, <1>1 DEF Placed
    <3>2. ASSUME NEW b \in Buffers, m \in Range(posting[b])
          PROVE  m \in logged' /\ m.level # "trace"
      <4>1. m \in logged /\ Number(m.level) = b
        BY <3>2, <1>0 DEF Placed, Of
      <4> QED BY <4>1, <1>1, <1>4, MessageTypes
    <3> QED BY <3>1, <3>2, <1>2
  <2>3. ASSUME LokiAvailable, NEW m \in logged', m.level # "trace"
        PROVE  m \in lost' \/ \E b \in Buffers : m \in Of(b)'
    <3>1. m \in lost \/ \E b \in Buffers : m \in Of(b)
      BY <2>3, <1>0, <1>1 DEF Placed
    <3> QED BY <3>1, <1>2, <1>3 DEF Of
  <2> QED BY <2>1, <2>2, <2>3 DEF Placed
<1>7. Sorted'
  BY <1>3, <1>0 DEF Sorted, Precede
<1>8. lost' \subseteq Messages
  BY <1>6, <1>1, <1>4 DEF Placed
<1>9. /\ store' \in [Buffers -> Seq(Messages)] /\ posting' \in [Buffers -> Seq(Messages)]
      /\ buffer' \in [Buffers -> Seq(Messages)]
  BY <1>1, <1>0, NoBatchIsEmpty DEF TypeOK
<1> QED BY <1>6, <1>7, <1>8, <1>9 DEF KeepsMoved

-----------------------------------------------------------------------------
(* The steps.                                                              *)

\* A step keeps the invariant if it keeps what only some steps change.
LEMMA LoggedIsEnough ==
  ASSUME IInv, KeepsLogged, UNCHANGED <<posting, status, store, lost, flushed>>,
         Cardinality(logged') <= MaxMessages + 1,
         phase' \in {"none", "starting", "alive"} => Cardinality(logged') <= MaxMessages,
         phase' \in {"flushed", "dropped", "gone", "crashed"} => phase' = phase,
         phase' \in {"none", "starting", "alive", "leaving", "flushed", "dropped",
                     "gone", "crashed"},
         threshold' \in {"off", BuildLevel} \cup VerboseLevels
  PROVE  IInv'
<1>0. TypeOK /\ Counts /\ Late
  BY DEF IInv
<1>1. TypeOK'
  BY <1>0 DEF TypeOK, KeepsLogged
<1>2. Counts'
  <2>1. flushed' <= Cardinality(logged')
    <3>1. Cardinality(logged) \in Nat /\ flushed \in Nat
      BY <1>0, FS_CardinalityType, ConstantsAssumption DEF Counts, TypeOK
    <3> QED BY <3>1, <1>0 DEF Counts, KeepsLogged
  <2> QED BY <2>1 DEF Counts, KeepsLogged
<1>3. Late'
  BY <1>0 DEF Late, KeepsLogged
<1> QED BY <1>1, <1>2, <1>3 DEF IInv, KeepsLogged

\* What FlushKeeps, AcceptedKeeps and RefusedKeeps say is enough.
LEMMA MovedIsEnough ==
  ASSUME IInv, KeepsMoved, UNCHANGED <<threshold, events, logged>>,
         \A b \in Buffers : Range(buffer'[b]) \subseteq Range(buffer[b]),
         flushed' \in {flushed, Cardinality(logged)},
         status' \in {204, 400, 500, NoStatus},
         \/ phase' = phase /\ flushed' = flushed
         \/ phase' = "flushed" /\ \A b \in Buffers : Range(buffer'[b]) = {}
  PROVE  IInv'
<1>0. TypeOK /\ Counts /\ Late /\ Handed
  BY DEF IInv
<1>1. /\ Cardinality(logged) \in 0 .. MaxMessages + 1
      /\ flushed' \in 0 .. MaxMessages + 1 /\ flushed' <= Cardinality(logged)
  BY <1>0, FS_CardinalityType, ConstantsAssumption DEF Counts, TypeOK
<1>2. TypeOK'
  BY <1>0, <1>1 DEF TypeOK, KeepsMoved
<1>3. Counts'
  BY <1>0, <1>1 DEF Counts
<1>4. Late' /\ Handed'
  BY <1>0 DEF Late, Handed
<1> QED BY <1>2, <1>3, <1>4 DEF IInv, KeepsMoved

\* Every step keeps it: one case for each action.
LEMMA Step == IInv /\ [Next]_vars => IInv'
<1> SUFFICES ASSUME IInv, [Next]_vars
             PROVE  IInv'
  OBVIOUS
<1>0. TypeOK /\ Counts /\ Placed /\ Sorted /\ Late /\ Handed
  BY DEF IInv
<1>c. Cardinality(logged) \in Nat /\ MaxMessages \in Nat
  BY <1>0, FS_CardinalityType, ConstantsAssumption DEF Counts
<1>1. ASSUME NEW level \in Levels, NEW clean \in BOOLEAN, Log(level, clean)
      PROVE  IInv'
  <2>1. /\ Cardinality(logged) < MaxMessages /\ Logged(level, clean)
        /\ UNCHANGED <<threshold, phase, posting, status, store, lost, flushed>>
    BY <1>1 DEF Log
  <2>2. KeepsLogged
    BY <2>1, <1>c, LoggedKeeps
  <2>3. Cardinality(logged') <= MaxMessages
    BY <2>1, <2>2, <1>c DEF KeepsLogged
  <2>4. /\ phase' \in {"none", "starting", "alive", "leaving", "flushed",
                      "dropped", "gone", "crashed"}
        /\ threshold' \in {"off", BuildLevel} \cup VerboseLevels
    BY <2>1, <1>0 DEF TypeOK
  <2>5. Cardinality(logged') <= MaxMessages + 1
    BY <2>2, <2>3, <1>c DEF KeepsLogged
  <2> QED BY <2>1, <2>2, <2>3, <2>4, <2>5, LoggedIsEnough
<1>2. CASE Goodbye
  <2>1. /\ phase = "alive" /\ phase' = "leaving" /\ Logged("info", TRUE)
        /\ UNCHANGED <<threshold, posting, status, store, lost, flushed>>
    BY <1>2 DEF Goodbye
  <2>2. Cardinality(logged) <= MaxMessages
    BY <2>1, <1>0 DEF Counts
  <2>3. KeepsLogged
    BY <2>1, <2>2, LoggedKeeps
  <2>4. Cardinality(logged') <= MaxMessages + 1
    BY <2>2, <2>3, <1>c DEF KeepsLogged
  <2>5. threshold' \in {"off", BuildLevel} \cup VerboseLevels
    BY <2>1, <1>0 DEF TypeOK
  <2> QED BY <2>1, <2>3, <2>4, <2>5, LoggedIsEnough
<1>3. CASE PeriodicFlush
  <2>1. /\ ~Busy /\ Flush
        /\ UNCHANGED <<threshold, phase, status, store, events, logged, lost, flushed>>
    BY <1>3 DEF PeriodicFlush
  <2>2. KeepsMoved /\ \A b \in Buffers : Range(buffer'[b]) \subseteq Range(buffer[b])
    BY <2>1, FlushKeeps
  <2>3. status' \in {204, 400, 500, NoStatus}
    BY <2>1, <1>0 DEF TypeOK
  <2> QED BY <2>1, <2>2, <2>3, MovedIsEnough
<1>4. CASE FlushLast
  <2>1. /\ ~Busy /\ Flush /\ phase' = "flushed" /\ flushed' = Cardinality(logged)
        /\ UNCHANGED <<threshold, status, store, events, logged, lost>>
    BY <1>4 DEF FlushLast, LastFlush
  <2>2. KeepsMoved /\ \A b \in Buffers : Range(buffer'[b]) \subseteq Range(buffer[b])
    BY <2>1, FlushKeeps
  <2>3. status' \in {204, 400, 500, NoStatus}
    BY <2>1, <1>0 DEF TypeOK
  <2>4. buffer' = NoBatch
    BY <2>1 DEF Flush, Cleared
  <2>5. \A b \in Buffers : Range(buffer'[b]) = {}
    BY <2>4, NoBatchIsEmpty
  <2> QED BY <2>1, <2>2, <2>3, <2>5, MovedIsEnough
<1>5. CASE Accepted \/ Refused
  <2>1. KeepsMoved
    BY <1>5, AcceptedKeeps, RefusedKeeps
  <2>2. /\ UNCHANGED <<threshold, phase, buffer, events, logged, flushed>>
        /\ status' \in {204, 400, 500, NoStatus}
    <3>1. CASE Accepted
      BY <3>1 DEF Accepted
    <3>2. CASE Refused
      <4>1. (IF WellFormed THEN 500 ELSE 400) \in {400, 500}
        OBVIOUS
      <4> QED BY <3>2, <4>1 DEF Refused
    <3> QED BY <1>5, <3>1, <3>2
  <2> QED BY <2>1, <2>2, MovedIsEnough
<1>6. CASE \/ Construct \/ AdjustLevel \/ ChangeLevel
           \/ Drop \/ SetDefault \/ LogWithoutDefault
  <2>1. UNCHANGED <<buffer, posting, status, store, lost, events, logged, flushed>>
    BY <1>6
    DEF Construct, AdjustLevel, ChangeLevel, Drop, SetDefault, LogWithoutDefault, lokiVars
  <2>2. /\ phase' \in {"starting", "alive", "dropped", "gone", "crashed"}
        /\ phase' \in {"starting", "alive"} => phase \in {"none", "starting", "alive"}
        /\ phase' \in {"dropped", "gone", "crashed"} => phase \in {"flushed", "dropped"}
    BY <1>6
    DEF Construct, AdjustLevel, ChangeLevel, Drop, SetDefault, LogWithoutDefault
  <2>3. threshold' \in {"off", BuildLevel} \cup VerboseLevels
    BY <1>6, <1>0, ConstantsAssumption
    DEF Construct, AdjustLevel, ChangeLevel, Drop, SetDefault, LogWithoutDefault, TypeOK
  <2>4. TypeOK'
    BY <2>1, <2>2, <2>3, <1>0 DEF TypeOK
  <2>5. Counts' /\ Late'
    BY <2>1, <2>2, <1>0 DEF Counts, Late
  <2>6. Placed' /\ Sorted' /\ Handed'
    BY <2>1, <1>0 DEF Placed, Of, Sorted, Precede, Handed
  <2> QED BY <2>4, <2>5, <2>6 DEF IInv
<1>7. CASE UNCHANGED vars
  <2>1. UNCHANGED <<threshold, phase, buffer, posting, status, store, lost, events,
                    logged, flushed>>
    BY <1>7 DEF vars, lokiVars
  <2>2. TypeOK' /\ Counts' /\ Late'
    BY <2>1, <1>0 DEF TypeOK, Counts, Late
  <2>3. Placed' /\ Sorted' /\ Handed'
    BY <2>1, <1>0 DEF Placed, Of, Sorted, Precede, Handed
  <2> QED BY <2>2, <2>3 DEF IInv
<1> QED BY <1>1, <1>2, <1>3, <1>4, <1>5, <1>6, <1>7 DEF Next

-----------------------------------------------------------------------------
(* Theorems.                                                               *)

(* Every reachable state satisfies the invariant.                          *)
THEOREM InductiveHolds == Spec => []IInv
BY InitIInv, Step, PTL DEF Spec

(* loki_api_sink::flush_(): what Loki has of a level is in the order of       *)
(* logging, has no message twice, and only what was in a failed request is    *)
(* missing.                                                                *)
THEOREM OnceAndInOrderHolds == Spec => []OnceAndInOrder
<1>1. IInv => OnceAndInOrder
  BY InvariantSays
<1> QED BY <1>1, InductiveHolds, PTL

(* ~MainLogger(): what stays in the buffers was logged after the last flush   *)
(* began; Sentry has every warning and worse, in order.                     *)
THEOREM OnlyLateOnesStayHolds == Spec => []OnlyLateOnesStay
<1>1. IInv => OnlyLateOnesStay
  BY InvariantSays
<1> QED BY <1>1, InductiveHolds, PTL
=============================================================================
