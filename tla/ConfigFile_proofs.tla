-------------------------- MODULE ConfigFile_proofs --------------------------
(***************************************************************************)
(* Proofs about ConfigFile, for any parsers, any finite set of keys and any *)
(* values.                                                                 *)
(***************************************************************************)
EXTENDS ConfigFile, DataLemmas

(* Events are only added behind those ioctl() counted.                      *)
SizeFits == size <= Len(queue)

IInv == TypeOK /\ LoadedIsWhole /\ WholeIsWritten /\ SizeFits

-----------------------------------------------------------------------------
(* Maps and their texts.                                                   *)

\* The empty map is one, and a map has at most one length for each key.
LEMMA MapsTypes ==
  /\ Empty \in Maps
  /\ \A m \in Maps : DOMAIN m \subseteq Keys /\ Length(m) \in 1 .. 1 + Cardinality(Keys)
  /\ Cardinality(Keys) \in Nat
<1>1. Cardinality(Keys) \in Nat
  BY ConfigAssumption, FS_CardinalityType
<1>2. Empty \in [{} -> Values]
  BY DEF Empty
<1>3. Empty \in Maps
  BY <1>2 DEF Maps
<1>4. ASSUME NEW m \in Maps
      PROVE  DOMAIN m \subseteq Keys /\ Length(m) \in 1 .. 1 + Cardinality(Keys)
  <2>1. PICK D \in SUBSET Keys : m \in [D -> Values]
    BY DEF Maps
  <2>2. DOMAIN m \subseteq Keys
    BY <2>1
  <2>3. /\ Cardinality(DOMAIN m) \in Nat
        /\ Cardinality(DOMAIN m) <= Cardinality(Keys)
    BY <2>2, ConfigAssumption, FS_Subset, FS_CardinalityType
  <2> QED BY <1>1, <2>2, <2>3 DEF Length
<1> QED BY <1>1, <1>3, <1>4

(* set() and remove() make a map of a map.                                 *)
LEMMA EditedTypes ==
  ASSUME NEW m \in Maps
  PROVE  Edited(m) \subseteq Maps
<1>1. PICK D \in SUBSET Keys : m \in [D -> Values]
  BY DEF Maps
<1>2. ASSUME NEW key \in Keys, NEW value \in Values
      PROVE  With(m, key, value) \in Maps
  <2>1. With(m, key, value) \in [D \cup {key} -> Values]
    BY <1>1 DEF With
  <2>2. D \cup {key} \in SUBSET Keys
    OBVIOUS
  <2> QED BY <2>1, <2>2 DEF Maps
<1>3. ASSUME NEW key \in Keys
      PROVE  Without(m, key) \in Maps
  <2>1. Without(m, key) \in [D \ {key} -> Values]
    BY <1>1 DEF Restrict, Without
  <2>2. D \ {key} \in SUBSET Keys
    OBVIOUS
  <2> QED BY <2>1, <2>2 DEF Maps
<1>4. ASSUME NEW e \in Edited(m)
      PROVE  e \in Maps
  <2>1. \/ \E key \in Keys, value \in Values : e = With(m, key, value)
        \/ \E key \in Keys : e = Without(m, key)
    BY DEF Edited
  <2> QED BY <1>2, <1>3, <2>1
<1> QED BY <1>4

\* What the two operators that make a text give is a text.
LEMMA TextTypes ==
  /\ Truncated \in Texts
  /\ Truncated.whole = FALSE
  /\ \A m \in Maps : TextOf(m) \in Texts /\ TextOf(m).map = m
  /\ Missing.whole = FALSE /\ Missing \in Texts
<1>1. Truncated \in Texts
  BY MapsTypes DEF Truncated, Texts
<1>4. Missing \in Texts
  BY MapsTypes DEF Missing, Texts
<1>2. Truncated.whole = FALSE /\ Missing.whole = FALSE
  BY DEF Truncated, Missing
<1>3. \A m \in Maps : TextOf(m) \in Texts /\ TextOf(m).map = m
  BY MapsTypes DEF TextOf, Texts
<1> QED BY <1>1, <1>2, <1>3, <1>4

(* What write() leaves is a text, and if it is whole it is that of the map.  *)
LEMMA OverwrittenTypes ==
  ASSUME file \in Texts, NEW m \in Maps,
         NEW n \in {Length(m)} \cup (file.length .. Length(m))
  PROVE  Overwritten(m, n) \in Texts /\ Overwritten(m, n).map = m
<1>1. Length(m) \in 1 .. 1 + Cardinality(Keys) /\ Cardinality(Keys) \in Nat
  BY MapsTypes
<1>2. file.length \in -1 .. 1 + Cardinality(Keys)
  BY DEF Texts
<1>3. n \in -1 .. 1 + Cardinality(Keys)
  BY <1>1, <1>2
<1> QED BY <1>2, <1>3 DEF Overwritten, Texts

-----------------------------------------------------------------------------
(* The steps.                                                              *)

\* It holds at first.
LEMMA InitIInv == Init => IInv
<1> SUFFICES ASSUME Init
             PROVE  IInv
  OBVIOUS
<1>1. file \in Texts \cup {Missing} /\ (file.whole => file.map \in written)
      /\ written \subseteq Maps
  <2>1. CASE file = Missing
    BY <2>1, TextTypes DEF Init
  <2>2. CASE file # Missing
    <3>1. PICK m \in Maps : file = TextOf(m)
      BY <2>2 DEF Init
    <3>2. written = {m}
      BY <2>2, <3>1, TextTypes DEF Init
    <3> QED BY <3>1, <3>2, TextTypes
  <2> QED BY <2>1, <2>2
<1>2. /\ map = [p \in Parsers |-> Empty] /\ loaded = map
      /\ valid = [p \in Parsers |-> FALSE] /\ pc = [p \in Parsers |-> "gone"]
      /\ mpc = "top" /\ size = 0 /\ batch = <<>> /\ queue = <<>>
      /\ watched \in BOOLEAN /\ callback = FALSE /\ stopReq = FALSE
      /\ due = FALSE /\ changes = 0
  BY DEF Init
<1>3. map \in [Parsers -> Maps] /\ loaded \in [Parsers -> Maps]
  BY <1>2, MapsTypes
<1>5. valid \in [Parsers -> BOOLEAN] /\ pc \in [Parsers -> {"gone"}]
  BY <1>2
<1>6. changes \in 0 .. MaxChanges /\ size \in Nat /\ SizeFits
  BY <1>2, ConfigAssumption DEF SizeFits
<1>7. batch \in Seq({"modify", "ignored"}) /\ queue \in Seq({"modify", "ignored"})
  BY <1>2
<1>4. TypeOK
  BY <1>1, <1>2, <1>3, <1>5, <1>6, <1>7 DEF TypeOK
<1> QED BY <1>1, <1>2, <1>4, <1>6 DEF IInv, LoadedIsWhole, WholeIsWritten

(* The queue after a change.                                               *)
LEMMA QueuedTypes ==
  ASSUME TypeOK, NEW e \in {"modify", "ignored"}
  PROVE  Queued(e) \in Seq({"modify", "ignored"}) /\ Len(Queued(e)) >= Len(queue)
BY AppendProperties, LenProperties DEF TypeOK, Queued

\* An event that is queued leaves the monitor's variables as they should be.
LEMMA ModifiedTypes ==
  ASSUME TypeOK, SizeFits, Modified
  PROVE  /\ queue' \in Seq({"modify", "ignored"}) /\ size' <= Len(queue')
         /\ due' \in BOOLEAN
         /\ UNCHANGED <<watched, callback, stopReq, mpc, size, batch>>
<1>1. /\ Queued("modify") \in Seq({"modify", "ignored"})
      /\ Len(Queued("modify")) >= Len(queue)
  BY QueuedTypes
<1>2. queue' \in {queue, Queued("modify")} /\ UNCHANGED threadVars
  BY DEF Modified
<1>3. size' <= Len(queue') /\ queue' \in Seq({"modify", "ignored"})
  BY <1>1, <1>2, LenProperties DEF TypeOK, SizeFits, threadVars
<1> QED BY <1>2, <1>3 DEF Modified, TypeOK, threadVars

\* A change that is counted stays within the bound.
LEMMA CountedTypes ==
  ASSUME TypeOK, Counted
  PROVE  changes' \in 0 .. MaxChanges
BY ConfigAssumption DEF TypeOK, Counted

\* Every step keeps it: one case for each action.
LEMMA Step ==
  IInv /\ [Next]_vars => IInv'
<1> SUFFICES ASSUME IInv, [Next]_vars
             PROVE  IInv'
  OBVIOUS
<1>0. TypeOK /\ LoadedIsWhole /\ WholeIsWritten /\ SizeFits
  BY DEF IInv
<1>t. file \in Texts
  BY <1>0, TextTypes DEF TypeOK
<1>1. ASSUME NEW p \in Parsers, Load(p)
      PROVE  IInv'
  <2>1. /\ pc' = [pc EXCEPT ![p] = "idle"]
        /\ map' = [map EXCEPT ![p] = IF Parses(file) THEN file.map ELSE Empty]
        /\ valid' = [valid EXCEPT ![p] = Parses(file)]
        /\ loaded' = [loaded EXCEPT ![p] = map'[p]]
        /\ UNCHANGED <<file, mpc, size, batch, queue, watched, callback, stopReq,
                       written, due, changes>>
    BY <1>1 DEF Load, threadVars
  <2>2. file.map \in Maps /\ Empty \in Maps /\ Parses(file) \in BOOLEAN
    BY <1>t, MapsTypes DEF Texts, Parses
  <2>3. map' \in [Parsers -> Maps] /\ map'[p] \in Maps
    BY <2>1, <2>2, <1>0 DEF TypeOK
  <2>4. TypeOK'
    BY <2>1, <2>2, <2>3, <1>0 DEF TypeOK
  <2>5. ASSUME NEW q \in Parsers, valid'[q]
        PROVE  loaded'[q] \in written'
    <3>1. CASE q = p
      <4>1. Parses(file)
        BY <3>1, <2>1, <2>5, <1>0 DEF TypeOK
      <4>2. loaded'[q] = file.map
        BY <4>1, <3>1, <2>1, <1>0 DEF TypeOK
      <4> QED BY <4>1, <4>2, <2>1, <1>0 DEF Parses, WholeIsWritten
    <3>2. CASE q # p
      BY <3>2, <2>1, <2>5, <1>0 DEF TypeOK, LoadedIsWhole
    <3> QED BY <3>1, <3>2
  <2>6. WholeIsWritten'
    BY <2>1, <1>0 DEF TypeOK, WholeIsWritten
  <2>7. SizeFits'
    BY <2>1, <1>0 DEF SizeFits
  <2> QED BY <2>4, <2>5, <2>6, <2>7 DEF IInv, LoadedIsWhole
<1>2. ASSUME NEW p \in Parsers, Edit(p)
      PROVE  IInv'
  <2>1. PICK m \in Edited(map[p]) : map' = [map EXCEPT ![p] = m]
    BY <1>2 DEF Edit
  <2>2. m \in Maps
    BY <2>1, <1>0, EditedTypes DEF TypeOK
  <2>3. /\ pc[p] = "idle"
        /\ UNCHANGED <<file, valid, pc, loaded, mpc, size, batch, queue, watched,
                       callback, stopReq, written, due>>
    BY <1>2 DEF Edit, threadVars
  <2>4. changes' \in 0 .. MaxChanges
    BY <1>0, <1>2, CountedTypes DEF Edit
  <2>5. TypeOK'
    BY <2>1, <2>2, <2>3, <2>4, <1>0 DEF TypeOK
  <2>6. LoadedIsWhole'
    BY <2>3, <1>0 DEF LoadedIsWhole
  <2>7. WholeIsWritten'
    BY <2>1, <2>3, <1>0 DEF TypeOK, WholeIsWritten
  <2>8. SizeFits'
    BY <2>3, <1>0 DEF SizeFits
  <2> QED BY <2>5, <2>6, <2>7, <2>8 DEF IInv
<1>3. ASSUME NEW p \in Parsers, SaveOpen(p)
      PROVE  IInv'
  <2>1. /\ pc' = [pc EXCEPT ![p] = "writing"] /\ file' = Truncated
        /\ written' = written \cup {map[p]}
        /\ UNCHANGED <<map, valid, loaded>>
    BY <1>3 DEF SaveOpen
  <2>2. changes' \in 0 .. MaxChanges
    BY <1>0, <1>3, CountedTypes DEF SaveOpen
  <2>3. /\ queue' \in Seq({"modify", "ignored"}) /\ size' <= Len(queue')
        /\ due' \in BOOLEAN
        /\ UNCHANGED <<watched, callback, stopReq, mpc, size, batch>>
    BY <1>0, <1>3, ModifiedTypes DEF SaveOpen
  <2>4. TypeOK'
    BY <2>1, <2>2, <2>3, <1>0, TextTypes DEF TypeOK
  <2>5. LoadedIsWhole'
    BY <2>1, <1>0 DEF LoadedIsWhole
  <2>6. WholeIsWritten'
    BY <2>1, <1>0, TextTypes DEF TypeOK, WholeIsWritten
  <2> QED BY <2>3, <2>4, <2>5, <2>6 DEF IInv, SizeFits
<1>4. ASSUME NEW p \in Parsers, SaveWrite(p)
      PROVE  IInv'
  <2>1. PICK n \in {Length(map[p])} \cup (file.length .. Length(map[p])) :
          file' = Overwritten(map[p], n)
    BY <1>4 DEF SaveWrite
  <2>2. /\ pc[p] = "writing" /\ pc' = [pc EXCEPT ![p] = "idle"]
        /\ UNCHANGED <<map, valid, loaded, written, changes>>
    BY <1>4 DEF SaveWrite
  <2>3. file' \in Texts /\ file'.map = map[p]
    BY <2>1, <1>t, <1>0, OverwrittenTypes DEF TypeOK
  <2>4. /\ queue' \in Seq({"modify", "ignored"}) /\ size' <= Len(queue')
        /\ due' \in BOOLEAN
        /\ UNCHANGED <<watched, callback, stopReq, mpc, size, batch>>
    BY <1>0, <1>4, ModifiedTypes DEF SaveWrite
  <2>5. TypeOK'
    BY <2>2, <2>3, <2>4, <1>0 DEF TypeOK
  <2>6. LoadedIsWhole'
    BY <2>2, <1>0 DEF LoadedIsWhole
  <2>7. WholeIsWritten'
    BY <2>2, <2>3, <1>0 DEF TypeOK, WholeIsWritten
  <2> QED BY <2>4, <2>5, <2>6, <2>7 DEF IInv, SizeFits
<1>5. ASSUME NEW p \in Parsers, SaveNowhere(p) \/ Crash(p)
      PROVE  IInv'
  <2>1. /\ pc' \in {[pc EXCEPT ![p] = "idle"], [pc EXCEPT ![p] = "gone"]}
        /\ UNCHANGED <<file, map, valid, loaded, mpc, size, batch, queue, watched,
                       callback, stopReq, written, due>>
    BY <1>5 DEF SaveNowhere, Crash, threadVars
  <2>2. changes' \in 0 .. MaxChanges
    BY <1>0, <1>5, CountedTypes DEF SaveNowhere, Crash, TypeOK
  <2>3. TypeOK'
    BY <2>1, <2>2, <1>0 DEF TypeOK
  <2>4. LoadedIsWhole' /\ WholeIsWritten'
    BY <2>1, <1>0 DEF TypeOK, LoadedIsWhole, WholeIsWritten
  <2> QED BY <2>1, <2>3, <2>4, <1>0 DEF IInv, SizeFits
<1>6. CASE Rewrite
  <2>1. PICK m \in Maps : file' = TextOf(m) /\ written' = written \cup {m}
    BY <1>6 DEF Rewrite
  <2>2. UNCHANGED <<map, valid, pc, loaded>>
    BY <1>6 DEF Rewrite, parserVars
  <2>3. changes' \in 0 .. MaxChanges
    BY <1>0, <1>6, CountedTypes DEF Rewrite
  <2>4. /\ queue' \in Seq({"modify", "ignored"}) /\ size' <= Len(queue')
        /\ due' \in BOOLEAN
        /\ UNCHANGED <<watched, callback, stopReq, mpc, size, batch>>
    BY <1>0, <1>6, ModifiedTypes DEF Rewrite
  <2>5. TypeOK'
    BY <2>1, <2>2, <2>3, <2>4, <1>0, TextTypes DEF TypeOK
  <2>6. LoadedIsWhole' /\ WholeIsWritten'
    BY <2>1, <2>2, <1>0, TextTypes DEF LoadedIsWhole, WholeIsWritten
  <2> QED BY <2>4, <2>5, <2>6 DEF IInv, SizeFits
<1>7. CASE Replace
  <2>1. PICK m \in Maps : file' = TextOf(m) /\ written' = written \cup {m}
    BY <1>7 DEF Replace
  <2>2. /\ watched' = FALSE
        /\ pc' = [p \in Parsers |->
                    IF pc[p] = "writing" THEN "detached" ELSE pc[p]]
        /\ UNCHANGED <<map, valid, loaded, mpc, size, batch, callback, stopReq, due>>
    BY <1>7 DEF Replace, threadVars
  <2>3. changes' \in 0 .. MaxChanges
    BY <1>0, <1>7, CountedTypes DEF Replace
  <2>4. queue' \in Seq({"modify", "ignored"}) /\ size' <= Len(queue')
    <3>1. /\ Queued("ignored") \in Seq({"modify", "ignored"})
          /\ Len(Queued("ignored")) >= Len(queue)
      BY <1>0, QueuedTypes
    <3>2. queue' \in {queue, Queued("ignored")}
      BY <1>7 DEF Replace
    <3> QED BY <3>1, <3>2, <2>2, <1>0, LenProperties DEF TypeOK, SizeFits
  <2>5. TypeOK'
    BY <2>1, <2>2, <2>3, <2>4, <1>0, TextTypes DEF TypeOK
  <2>6. LoadedIsWhole' /\ WholeIsWritten'
    BY <2>1, <2>2, <1>0, TextTypes DEF TypeOK, LoadedIsWhole, WholeIsWritten
  <2> QED BY <2>4, <2>5, <2>6 DEF IInv, SizeFits
<1>8. CASE Ask \/ Scan \/ SetCallback \/ Destroy
  <2>1. UNCHANGED <<file, map, valid, pc, loaded, queue, written, changes, watched>>
    BY <1>8 DEF Ask, Scan, SetCallback, Destroy, parserVars
  <2>2. Len(queue) \in Nat
    BY <1>0, LenProperties DEF TypeOK
  <2>3. /\ mpc' \in {"top", "read", "scan", "stopped"}
        /\ size' \in Nat /\ size' <= Len(queue')
    <3>1. CASE Ask
      BY <3>1, <2>2, <1>0 DEF Ask, TypeOK, SizeFits
    <3>2. CASE Scan \/ SetCallback \/ Destroy
      BY <3>2, <1>0 DEF Scan, SetCallback, Destroy, threadVars, TypeOK, SizeFits
    <3> QED BY <1>8, <3>1, <3>2
  <2>4. /\ batch' \in Seq({"modify", "ignored"})
        /\ callback' \in BOOLEAN /\ stopReq' \in BOOLEAN /\ due' \in BOOLEAN
    <3>1. CASE Scan
      <4>1. /\ batch' = <<>> /\ due' \in {FALSE, due}
            /\ UNCHANGED <<callback, stopReq>>
        BY <3>1 DEF Scan
      <4>2. due \in BOOLEAN /\ callback \in BOOLEAN /\ stopReq \in BOOLEAN
        BY <1>0 DEF TypeOK
      <4>3. due' \in BOOLEAN
        BY <4>1, <4>2, Zenon
      <4>4. batch' \in Seq({"modify", "ignored"})
        BY <4>1
      <4> QED BY <4>1, <4>2, <4>3, <4>4, Zenon
    <3>2. CASE Ask \/ SetCallback \/ Destroy
      BY <3>2, <1>0 DEF Ask, SetCallback, Destroy, threadVars, TypeOK
    <3> QED BY <1>8, <3>1, <3>2
  <2>5. TypeOK'
    BY <2>1, <2>3, <2>4, <1>0 DEF TypeOK
  <2>6. LoadedIsWhole' /\ WholeIsWritten'
    BY <2>1, <1>0 DEF LoadedIsWhole, WholeIsWritten
  <2> QED BY <2>3, <2>5, <2>6 DEF IInv, SizeFits
<1>9. CASE Read
  <2>1. UNCHANGED <<file, map, valid, pc, loaded, written, changes, watched,
                    callback, stopReq, due>>
    BY <1>9 DEF Read, parserVars
  <2>2. /\ mpc' \in {"top", "scan"} /\ size' = 0
        /\ batch' = SubSeq(queue, 1, size)
        /\ queue' = SubSeq(queue, size + 1, Len(queue))
    BY <1>9 DEF Read, AfterEmptyRead
  <2>3. /\ \A i \in 1 .. size : queue[i] \in {"modify", "ignored"}
        /\ \A i \in size + 1 .. Len(queue) : queue[i] \in {"modify", "ignored"}
        /\ size \in Int /\ size + 1 \in Int /\ Len(queue) \in Int
    BY <1>0, ElementOfSeq, LenProperties DEF TypeOK, SizeFits
  <2>4. /\ batch' \in Seq({"modify", "ignored"})
        /\ queue' \in Seq({"modify", "ignored"})
    BY <2>2, <2>3, SubSeqProperties
  <2>5. SizeFits'
    BY <2>2, <2>4, LenProperties DEF SizeFits
  <2>6. TypeOK'
    BY <2>1, <2>2, <2>4, <1>0 DEF TypeOK
  <2>7. LoadedIsWhole' /\ WholeIsWritten'
    BY <2>1, <1>0 DEF LoadedIsWhole, WholeIsWritten
  <2> QED BY <2>5, <2>6, <2>7 DEF IInv
<1>10. CASE UNCHANGED vars
  BY <1>10, <1>0 DEF vars, parserVars, threadVars, IInv, TypeOK, LoadedIsWhole,
                     WholeIsWritten, SizeFits
<1> QED BY <1>1, <1>2, <1>3, <1>4, <1>5, <1>6, <1>7, <1>8, <1>9, <1>10
        DEF Next, MonitorStep

-----------------------------------------------------------------------------
(* Theorems.                                                               *)

(* Every reachable state satisfies the invariant.                          *)
THEOREM InductiveHolds == Spec => []IInv
BY InitIInv, Step, PTL DEF Spec

(* The maps, the file and the monitor's queue have their types, and a text is *)
(* never longer than that of all keys.                                     *)
THEOREM TypeCorrect == Spec => []TypeOK
<1>1. IInv => TypeOK
  BY DEF IInv
<1> QED BY <1>1, InductiveHolds, PTL

(* ConfigParser::isValid(): a configuration that was loaded is one somebody  *)
(* wrote in full.                                                          *)
THEOREM LoadedIsWholeHolds == Spec => []LoadedIsWhole
<1>1. IInv => LoadedIsWhole
  BY DEF IInv
<1> QED BY <1>1, InductiveHolds, PTL
=============================================================================
