------------------------- MODULE TelnetLine_proofs -------------------------
(***************************************************************************)
(* What holds of TelnetLine for every stream of keys, however it is cut     *)
(* into segments, every history limit and every set of commands, proved    *)
(* with TLAPS.                                                             *)
(***************************************************************************)
EXTENDS TelnetLine, DataLemmas

-----------------------------------------------------------------------------
(* What the stages of update() find and cut out.                           *)

\* The first of a non-empty set of places.
LEMMA FirstPlace ==
  ASSUME NEW S \in SUBSET Nat, S # {}
  PROVE  Min(S) \in S /\ \A n \in S : Min(S) <= n
<1>1. \E m \in S : \A n \in S : m <= n
  BY SmallestNumber
<1> QED  BY <1>1 DEF Min

\* First finds the first of the keys, or nothing if there is none.
LEMMA FirstIs ==
  ASSUME NEW K, NEW b \in Seq(K), NEW Ks
  PROVE  /\ First(b, Ks) \in 0 .. Len(b)
         /\ First(b, Ks) = 0 <=> \A i \in 1 .. Len(b) : b[i] \notin Ks
         /\ First(b, Ks) # 0 =>
              b[First(b, Ks)] \in Ks
                /\ \A i \in 1 .. First(b, Ks) - 1 : b[i] \notin Ks
<1> DEFINE at == {i \in 1 .. Len(b) : b[i] \in Ks}
<1>1. Len(b) \in Nat
  BY LenProperties
<1>2. First(b, Ks) = IF at # {} THEN Min(at) ELSE 0
  BY DEF First, SelectInSeq
<1>3. CASE at = {}
  BY <1>1, <1>2, <1>3
<1>4. CASE at # {}
  <2>1. Min(at) \in at /\ \A n \in at : Min(at) <= n
    <3>1. at \in SUBSET Nat
      OBVIOUS
    <3> HIDE DEF at
    <3> QED  BY <1>4, <3>1, FirstPlace
  <2> DEFINE f == Min(at)
  <2>2. f \in 1 .. Len(b) /\ b[f] \in Ks
    BY <2>1
  <2>3. \A i \in 1 .. f - 1 : b[i] \notin Ks
    <3> SUFFICES ASSUME NEW i \in 1 .. f - 1, b[i] \in Ks PROVE FALSE
      OBVIOUS
    <3>1. i \in at
      <4> HIDE DEF f
      <4> QED  BY <1>1, <2>2
    <3>2. f <= i
      BY <2>1, <3>1
    <3> HIDE DEF f
    <3> QED  BY <2>2, <3>2
  <2>4. First(b, Ks) = f
    BY <1>2, <1>4
  <2> HIDE DEF f
  <2> QED  BY <1>1, <2>2, <2>3, <2>4
<1> QED  BY <1>3, <1>4

\* A text without some of its keys in a row.
LEMMA WithoutIs ==
  ASSUME NEW K, NEW b \in Seq(K), NEW from \in 1 .. Len(b), NEW to \in from .. Len(b)
  PROVE  /\ Without(b, from, to) \in Seq(K)
         /\ Len(Without(b, from, to)) = Len(b) - (to - from + 1)
         /\ \A i \in 1 .. Len(b) - (to - from + 1) :
              Without(b, from, to)[i] = IF i < from THEN b[i] ELSE b[i + (to - from + 1)]
<1> DEFINE u == SubSeq(b, 1, from - 1)
           v == SubSeq(b, to + 1, Len(b))
<1>1. Len(b) \in Nat /\ \A i \in 1 .. Len(b) : b[i] \in K
  BY ElementOfSeq, LenProperties
<1>2. /\ u \in Seq(K) /\ Len(u) = from - 1
      /\ \A i \in 1 .. from - 1 : u[i] = b[i]
  <2>1. \A i \in 1 .. from - 1 : b[i] \in K
    BY <1>1
  <2> HIDE DEF u
  <2> QED  BY <1>1, <2>1, SubSeqProperties DEF u
<1>3. /\ v \in Seq(K) /\ Len(v) = Len(b) - to
      /\ \A i \in 1 .. Len(b) - to : v[i] = b[to + i]
  <2>1. \A i \in to + 1 .. Len(b) : b[i] \in K
    BY <1>1
  <2> HIDE DEF v
  <2> QED  BY <1>1, <2>1, SubSeqProperties DEF v
<1> HIDE DEF u, v
<1>4. /\ u \o v \in Seq(K) /\ Len(u \o v) = Len(u) + Len(v)
      /\ \A i \in 1 .. Len(u) + Len(v) :
           (u \o v)[i] = IF i <= Len(u) THEN u[i] ELSE v[i - Len(u)]
  BY <1>2, <1>3, ConcatProperties
<1>5. Without(b, from, to) = u \o v
  BY DEF Without, u, v
<1> HIDE DEF Without
<1>6. /\ Len(u) + Len(v) = Len(b) - (to - from + 1)
      /\ Without(b, from, to) \in Seq(K)
  BY <1>1, <1>2, <1>3, <1>4, <1>5
<1>7. ASSUME NEW i \in 1 .. Len(b) - (to - from + 1)
      PROVE  (u \o v)[i] = IF i < from THEN b[i] ELSE b[i + (to - from + 1)]
  <2>1. (u \o v)[i] = IF i <= Len(u) THEN u[i] ELSE v[i - Len(u)]
    BY <1>4, <1>6
  <2>2. CASE i < from
    BY <1>1, <1>2, <2>1, <2>2
  <2>3. CASE ~(i < from)
    <3>1. ~(i <= Len(u)) /\ i - Len(u) \in 1 .. Len(b) - to
      BY <1>1, <1>2, <2>3
    <3>2. to + (i - Len(u)) = i + (to - from + 1)
      BY <1>1, <1>2, <2>3
    <3> QED  BY <1>3, <2>1, <2>3, <3>1, <3>2
  <2> QED  BY <2>2, <2>3
<1> QED  BY <1>4, <1>5, <1>6, <1>7

\* A negotiation is cut out if all of it is there.
LEMMA StripFirstNVTIs ==
  ASSUME NEW K, NEW b \in Seq(K)
  PROVE  /\ StripFirstNVT(b) \in Seq(K)
         /\ StripFirstNVT(b) = b \/ Len(StripFirstNVT(b)) < Len(b)
<1> DEFINE f == First(b, {"iac"})
<1>1. f \in 0 .. Len(b) /\ Len(b) \in Nat
  BY FirstIs, LenProperties
<1>2. CASE f # 0 /\ f + 2 <= Len(b)
  <2>1. f \in 1 .. Len(b) /\ f + 2 \in f .. Len(b)
    BY <1>1, <1>2
  <2>2. /\ Without(b, f, f + 2) \in Seq(K)
        /\ Len(Without(b, f, f + 2)) = Len(b) - ((f + 2) - f + 1)
    <3> HIDE DEF f
    <3> QED  BY <2>1, WithoutIs
  <2>3. StripFirstNVT(b) = Without(b, f, f + 2)
    BY <1>2 DEF StripFirstNVT
  <2> HIDE DEF f
  <2> QED  BY <1>1, <2>1, <2>2, <2>3
<1>3. CASE ~(f # 0 /\ f + 2 <= Len(b))
  BY <1>3 DEF StripFirstNVT
<1> QED  BY <1>2, <1>3

\* Its loop, step by step.
LEMMA StripNVTLoop ==
  ASSUME NEW K, NEW b \in Seq(K)
  PROVE  LoopsTo(StripNVT(b), [s \in Seq(K) |-> StripFirstNVT(s)], b, Len(b))
<1> DEFINE S == Seq(K)
           x == b
           step == [s \in S |-> StripFirstNVT(s)]
           n == Len(b)
           Is(f) == f = [i \in 0 .. n |-> IF i = 0 THEN x ELSE StripFirstNVT(f[i - 1])]
<1>1. n \in Nat
  BY LenProperties
<1>2. x \in S
  OBVIOUS
<1>3. step \in [S -> S] /\ \A s \in S : step[s] = StripFirstNVT(s)
  BY StripFirstNVTIs
<1> HIDE DEF S, step, n, x
<1>4. PICK g \in [0 .. n -> S] : IsLoop(g, step, x, n)
  BY <1>1, <1>2, <1>3, LoopExists
<1>5. Is(g)
  <2>1. ASSUME NEW i \in 0 .. n
        PROVE  g[i] = IF i = 0 THEN x ELSE StripFirstNVT(g[i - 1])
    <3>1. i # 0 => i \in 1 .. n /\ i - 1 \in 0 .. n
      BY <1>1
    <3> QED  BY <1>3, <1>4, <3>1 DEF IsLoop
  <2> QED  BY <1>4, <2>1
<1> DEFINE f == CHOOSE h : Is(h)
<1>6. StripNVT(b) = f[n]
  BY DEF StripNVT, Repeated, n, x
<1>7. Is(f)
  <2> HIDE DEF Is
  <2> QED  BY <1>5
<1> HIDE DEF f
<1>8. f[0] = x /\ \A i \in 1 .. n : f[i] = StripFirstNVT(f[i - 1])
  <2>1. \A i \in 0 .. n : f[i] = IF i = 0 THEN x ELSE StripFirstNVT(f[i - 1])
    BY <1>7
  <2>2. 0 \in 0 .. n /\ \A i \in 1 .. n : i \in 0 .. n /\ i # 0
    BY <1>1
  <2> QED  BY <2>1, <2>2
<1>9. IsLoop(f, step, x, n)
  <2>1. \A i \in 1 .. n : f[i - 1] \in S => f[i] = step[f[i - 1]]
    BY <1>3, <1>8
  <2> QED  BY <1>1, <1>2, <1>3, <1>8, <2>1, LoopOf
<1> QED  BY <1>6, <1>9 DEF LoopsTo, step, n, x, S

\* A backspace takes the key before it, or the whole text.
LEMMA ProcessFirstBackspaceIs ==
  ASSUME NEW K, NEW b \in Seq(K)
  PROVE  ProcessFirstBackspace(b) \in Seq(K)
<1> DEFINE f == IF First(b, {"del"}) # 0 THEN First(b, {"del"}) ELSE First(b, {"bs"})
<1>1. f \in 0 .. Len(b) /\ Len(b) \in Nat
  BY FirstIs, LenProperties
<1>2. ProcessFirstBackspace(b)
        = IF f = 0 THEN b
          ELSE IF Len(b) > 1 /\ f > 1 THEN Without(b, f - 1, f) ELSE <<>>
  BY DEF ProcessFirstBackspace
<1> HIDE DEF f
<1>3. CASE f # 0 /\ Len(b) > 1 /\ f > 1
  <2>1. f - 1 \in 1 .. Len(b) /\ f \in f - 1 .. Len(b)
    BY <1>1, <1>3
  <2>2. Without(b, f - 1, f) \in Seq(K)
    BY <2>1, WithoutIs
  <2> QED  BY <1>2, <1>3, <2>2
<1>4. CASE ~(f # 0 /\ Len(b) > 1 /\ f > 1)
  BY <1>2, <1>4
<1> QED  BY <1>3, <1>4

\* Its loop, step by step.
LEMMA ProcessBackspaceLoop ==
  ASSUME NEW K, NEW b \in Seq(K)
  PROVE  LoopsTo(ProcessBackspace(b), [s \in Seq(K) |-> ProcessFirstBackspace(s)], b, Len(b))
<1> DEFINE S == Seq(K)
           x == b
           step == [s \in S |-> ProcessFirstBackspace(s)]
           n == Len(b)
           Is(f) == f = [i \in 0 .. n |-> IF i = 0 THEN x ELSE ProcessFirstBackspace(f[i - 1])]
<1>1. n \in Nat
  BY LenProperties
<1>2. x \in S
  OBVIOUS
<1>3. step \in [S -> S] /\ \A s \in S : step[s] = ProcessFirstBackspace(s)
  BY ProcessFirstBackspaceIs
<1> HIDE DEF S, step, n, x
<1>4. PICK g \in [0 .. n -> S] : IsLoop(g, step, x, n)
  BY <1>1, <1>2, <1>3, LoopExists
<1>5. Is(g)
  <2>1. ASSUME NEW i \in 0 .. n
        PROVE  g[i] = IF i = 0 THEN x ELSE ProcessFirstBackspace(g[i - 1])
    <3>1. i # 0 => i \in 1 .. n /\ i - 1 \in 0 .. n
      BY <1>1
    <3> QED  BY <1>3, <1>4, <3>1 DEF IsLoop
  <2> QED  BY <1>4, <2>1
<1> DEFINE f == CHOOSE h : Is(h)
<1>6. ProcessBackspace(b) = f[n]
  BY DEF ProcessBackspace, Repeated, n, x
<1>7. Is(f)
  <2> HIDE DEF Is
  <2> QED  BY <1>5
<1> HIDE DEF f
<1>8. f[0] = x /\ \A i \in 1 .. n : f[i] = ProcessFirstBackspace(f[i - 1])
  <2>1. \A i \in 0 .. n : f[i] = IF i = 0 THEN x ELSE ProcessFirstBackspace(f[i - 1])
    BY <1>7
  <2>2. 0 \in 0 .. n /\ \A i \in 1 .. n : i \in 0 .. n /\ i # 0
    BY <1>1
  <2> QED  BY <2>1, <2>2
<1>9. IsLoop(f, step, x, n)
  <2>1. \A i \in 1 .. n : f[i - 1] \in S => f[i] = step[f[i - 1]]
    BY <1>3, <1>8
  <2> QED  BY <1>1, <1>2, <1>3, <1>8, <2>1, LoopOf
<1> QED  BY <1>6, <1>9 DEF LoopsTo, step, n, x, S

\* What processTab() and getCompleteLines() work on.
Tabs(K) == [buf : Seq(K), sends : Nat]
Cuts(K) == [lines : Seq(Seq(K)), rest : Seq(K)]

\* The number of sends of sendLine().
LEMMA LineSendsIs == \A b : LineSends(b) \in Nat /\ PromptSends(b) \in Nat
  BY DEF LineSends, PromptSends

\* The only command a text may be completed to is one of the commands.
LEMMA MatchIs ==
  ASSUME NEW K, Commands \in Seq(Seq(K)), NEW line, Cardinality(Matches(line)) = 1
  PROVE  Match(line) \in Seq(K) /\ \E i \in DOMAIN Commands : Match(line) = Commands[i]
<1>1. Matches(line) \subseteq DOMAIN Commands /\ DOMAIN Commands = 1 .. Len(Commands)
  BY LenProperties DEF Matches
<1>2. Matches(line) # {}
  <2>1. Cardinality({}) = 0
    BY FS_EmptySet
  <2> QED  BY <2>1
<1>3. PICK i \in DOMAIN Commands : Match(line) = Commands[i]
  BY <1>1, <1>2 DEF Match
<1>4. Commands[i] \in Seq(K)
  BY <1>1, ElementOfSeq
<1> QED  BY <1>3, <1>4

\* A tab goes, and completes the command before it if there is only one.
LEMMA ProcessFirstTabIs ==
  ASSUME NEW K, Commands \in Seq(Seq(K)), NEW r \in Tabs(K)
  PROVE  ProcessFirstTab(r) \in Tabs(K)
<1> DEFINE b == r.buf
           f == First(b, {"tab"})
           rest == Without(b, f, f)
           line == SubSeq(rest, 1, f - 1)
           found == IF Hooked THEN Cardinality(Matches(line)) ELSE 0
<1>1. b \in Seq(K) /\ r.sends \in Nat /\ r = [buf |-> b, sends |-> r.sends]
  BY DEF Tabs
<1>2. f \in 0 .. Len(b) /\ Len(b) \in Nat
  <2> HIDE DEF b
  <2> QED  BY <1>1, FirstIs, LenProperties
<1>3. CASE f = 0
  BY <1>3 DEF ProcessFirstTab
<1>4. CASE f # 0
  <2>1. rest \in Seq(K) /\ Len(rest) = Len(b) - 1
    <3>1. f \in 1 .. Len(b) /\ f \in f .. Len(b)
      <4> HIDE DEF f, b
      <4> QED  BY <1>2, <1>4
    <3>2. rest \in Seq(K) /\ Len(rest) = Len(b) - (f - f + 1)
      <4> HIDE DEF f, b
      <4> QED  BY <1>1, <3>1, WithoutIs
    <3> HIDE DEF rest, f, b
    <3> QED  BY <1>2, <3>2
  <2>2. SubSeq(rest, f, Len(rest)) \in Seq(K)
    <3>1. \A i \in f .. Len(rest) : rest[i] \in K
      <4> HIDE DEF rest, f, b
      <4> QED  BY <1>2, <1>4, <2>1, ElementOfSeq
    <3> HIDE DEF rest, f, b
    <3> QED  BY <1>2, <2>1, <3>1, SubSeqProperties
  <2>3. ProcessFirstTab(r)
          = IF found = 1
            THEN [r EXCEPT !.buf = Match(line) \o SubSeq(rest, f, Len(rest))]
            ELSE [buf   |-> rest,
                  sends |-> r.sends + (IF found > 1 THEN LineSends(rest) ELSE 0)]
    BY <1>4 DEF ProcessFirstTab
  <2>4. CASE found = 1
    <3>1. Match(line) \in Seq(K)
      <4> HIDE DEF line
      <4> QED  BY <2>4, MatchIs
    <3>2. Match(line) \o SubSeq(rest, f, Len(rest)) \in Seq(K)
      <4> HIDE DEF rest, f, line
      <4> QED  BY <2>2, <3>1, ConcatProperties
    <3> HIDE DEF rest, f, line, found
    <3> QED  BY <1>1, <2>3, <2>4, <3>2 DEF Tabs
  <2>5. CASE found # 1
    <3>1. LineSends(rest) \in Nat
      BY LineSendsIs
    <3> HIDE DEF rest, f, line, found
    <3> QED  BY <1>1, <2>1, <2>3, <2>5, <3>1 DEF Tabs
  <2> QED  BY <2>4, <2>5
<1> QED  BY <1>3, <1>4

\* Its loop, step by step.
LEMMA ProcessTabLoop ==
  ASSUME NEW K, Commands \in Seq(Seq(K)), NEW b \in Seq(K)
  PROVE  LoopsTo(ProcessTab(b), [s \in Tabs(K) |-> ProcessFirstTab(s)], [buf |-> b, sends |-> 0], Len(b))
<1> DEFINE S == Tabs(K)
           x == [buf |-> b, sends |-> 0]
           step == [s \in S |-> ProcessFirstTab(s)]
           n == Len(b)
           Is(f) == f = [i \in 0 .. n |-> IF i = 0 THEN x ELSE ProcessFirstTab(f[i - 1])]
<1>1. n \in Nat
  BY LenProperties
<1>2. x \in S
  BY DEF Tabs
<1>3. step \in [S -> S] /\ \A s \in S : step[s] = ProcessFirstTab(s)
  BY ProcessFirstTabIs
<1> HIDE DEF S, step, n, x
<1>4. PICK g \in [0 .. n -> S] : IsLoop(g, step, x, n)
  BY <1>1, <1>2, <1>3, LoopExists
<1>5. Is(g)
  <2>1. ASSUME NEW i \in 0 .. n
        PROVE  g[i] = IF i = 0 THEN x ELSE ProcessFirstTab(g[i - 1])
    <3>1. i # 0 => i \in 1 .. n /\ i - 1 \in 0 .. n
      BY <1>1
    <3> QED  BY <1>3, <1>4, <3>1 DEF IsLoop
  <2> QED  BY <1>4, <2>1
<1> DEFINE f == CHOOSE h : Is(h)
<1>6. ProcessTab(b) = f[n]
  BY DEF ProcessTab, Repeated, n, x
<1>7. Is(f)
  <2> HIDE DEF Is
  <2> QED  BY <1>5
<1> HIDE DEF f
<1>8. f[0] = x /\ \A i \in 1 .. n : f[i] = ProcessFirstTab(f[i - 1])
  <2>1. \A i \in 0 .. n : f[i] = IF i = 0 THEN x ELSE ProcessFirstTab(f[i - 1])
    BY <1>7
  <2>2. 0 \in 0 .. n /\ \A i \in 1 .. n : i \in 0 .. n /\ i # 0
    BY <1>1
  <2> QED  BY <2>1, <2>2
<1>9. IsLoop(f, step, x, n)
  <2>1. \A i \in 1 .. n : f[i - 1] \in S => f[i] = step[f[i - 1]]
    BY <1>3, <1>8
  <2> QED  BY <1>1, <1>2, <1>3, <1>8, <2>1, LoopOf
<1> QED  BY <1>6, <1>9 DEF LoopsTo, step, n, x, S

\* Two keys after each other that end a line.
LineEnds(b) == {i \in 1 .. Len(b) - 1 : b[i] = "cr" /\ b[i + 1] = "lf"}

\* The first line, if there is one, goes from the text to the lines.
LEMMA TakeFirstLineIs ==
  ASSUME NEW K, NEW r \in Cuts(K)
  PROVE  /\ TakeFirstLine(r) \in Cuts(K)
         /\ LineEnds(r.rest) = {} => TakeFirstLine(r) = r
         /\ LineEnds(r.rest) # {} =>
              \E f \in LineEnds(r.rest) :
                /\ \A i \in LineEnds(r.rest) : f <= i
                /\ TakeFirstLine(r) =
                     [lines |-> Append(r.lines, SubSeq(r.rest, 1, f - 1)),
                      rest  |-> SubSeq(r.rest, f + 2, Len(r.rest))]
                /\ SubSeq(r.rest, 1, f - 1) \in Seq(K)
                /\ SubSeq(r.rest, f + 2, Len(r.rest)) \in Seq(K)
                /\ Len(SubSeq(r.rest, f + 2, Len(r.rest))) < Len(r.rest)
<1> DEFINE b == r.rest
           ends == LineEnds(b)
           f == Min(ends)
<1>1. b \in Seq(K) /\ r.lines \in Seq(Seq(K)) /\ Len(b) \in Nat
  BY LenProperties DEF Cuts
<1>2. TakeFirstLine(r) =
        IF ends = {} THEN r
        ELSE [lines |-> Append(r.lines, SubSeq(b, 1, f - 1)),
              rest  |-> SubSeq(b, f + 2, Len(b))]
  BY DEF TakeFirstLine, LineEnds
<1>3. CASE ends = {}
  BY <1>2, <1>3
<1>4. CASE ends # {}
  <2>1. ends \in SUBSET Nat
    BY DEF LineEnds
  <2>2. f \in ends /\ \A i \in ends : f <= i
    <3> HIDE DEF ends
    <3> QED  BY <1>4, <2>1, FirstPlace
  <2>3. f \in 1 .. Len(b) - 1
    <3> HIDE DEF f
    <3> QED  BY <2>2 DEF LineEnds
  <2> DEFINE u == SubSeq(b, 1, f - 1)
             v == SubSeq(b, f + 2, Len(b))
  <2> HIDE DEF f, ends, b
  <2>4. \A i \in 1 .. Len(b) : b[i] \in K
    BY <1>1, ElementOfSeq
  <2>5. u \in Seq(K)
    <3>1. \A i \in 1 .. f - 1 : b[i] \in K
      BY <1>1, <2>3, <2>4
    <3> QED  BY <1>1, <2>3, <3>1, SubSeqProperties
  <2>6. v \in Seq(K) /\ Len(v) < Len(b)
    <3>1. \A i \in f + 2 .. Len(b) : b[i] \in K
      BY <1>1, <2>3, <2>4
    <3>2. /\ v \in Seq(K)
          /\ Len(v) = IF f + 2 <= Len(b) THEN Len(b) - (f + 2) + 1 ELSE 0
      <4> HIDE DEF v
      <4> QED  BY <1>1, <2>3, <3>1, SubSeqProperties DEF v
    <3> HIDE DEF v
    <3> QED  BY <1>1, <2>3, <3>2
  <2>7. Append(r.lines, u) \in Seq(Seq(K))
    <3> HIDE DEF u
    <3> QED  BY <1>1, <2>5, AppendProperties
  <2>8. TakeFirstLine(r) = [lines |-> Append(r.lines, u), rest |-> v]
    BY <1>2, <1>4
  <2> HIDE DEF u, v
  <2>9. TakeFirstLine(r) \in Cuts(K)
    BY <2>6, <2>7, <2>8 DEF Cuts
  <2> QED  BY <1>4, <2>2, <2>5, <2>6, <2>8, <2>9 DEF u, v, b, ends
<1> QED  BY <1>3, <1>4

\* The loop of getCompleteLines(), step by step.
LEMMA GetCompleteLinesLoop ==
  ASSUME NEW K, NEW b \in Seq(K)
  PROVE  LoopsTo(GetCompleteLines(b), [s \in Cuts(K) |-> TakeFirstLine(s)], [lines |-> <<>>, rest |-> b], Len(b))
<1> DEFINE S == Cuts(K)
           x == [lines |-> <<>>, rest |-> b]
           step == [s \in S |-> TakeFirstLine(s)]
           n == Len(b)
           Is(f) == f = [i \in 0 .. n |-> IF i = 0 THEN x ELSE TakeFirstLine(f[i - 1])]
<1>1. n \in Nat
  BY LenProperties
<1>2. x \in S
  BY DEF Cuts
<1>3. step \in [S -> S] /\ \A s \in S : step[s] = TakeFirstLine(s)
  BY TakeFirstLineIs
<1> HIDE DEF S, step, n, x
<1>4. PICK g \in [0 .. n -> S] : IsLoop(g, step, x, n)
  BY <1>1, <1>2, <1>3, LoopExists
<1>5. Is(g)
  <2>1. ASSUME NEW i \in 0 .. n
        PROVE  g[i] = IF i = 0 THEN x ELSE TakeFirstLine(g[i - 1])
    <3>1. i # 0 => i \in 1 .. n /\ i - 1 \in 0 .. n
      BY <1>1
    <3> QED  BY <1>3, <1>4, <3>1 DEF IsLoop
  <2> QED  BY <1>4, <2>1
<1> DEFINE f == CHOOSE h : Is(h)
<1>6. GetCompleteLines(b) = f[n]
  BY DEF GetCompleteLines, Repeated, n, x
<1>7. Is(f)
  <2> HIDE DEF Is
  <2> QED  BY <1>5
<1> HIDE DEF f
<1>8. f[0] = x /\ \A i \in 1 .. n : f[i] = TakeFirstLine(f[i - 1])
  <2>1. \A i \in 0 .. n : f[i] = IF i = 0 THEN x ELSE TakeFirstLine(f[i - 1])
    BY <1>7
  <2>2. 0 \in 0 .. n /\ \A i \in 1 .. n : i \in 0 .. n /\ i # 0
    BY <1>1
  <2> QED  BY <2>1, <2>2
<1>9. IsLoop(f, step, x, n)
  <2>1. \A i \in 1 .. n : f[i - 1] \in S => f[i] = step[f[i - 1]]
    BY <1>3, <1>8
  <2> QED  BY <1>1, <1>2, <1>3, <1>8, <2>1, LoopOf
<1> QED  BY <1>6, <1>9 DEF LoopsTo, step, n, x, S

\* An arrow is cut out.
LEMMA StripFirstArrowIs ==
  ASSUME NEW K, NEW b \in Seq(K)
  PROVE  StripFirstArrow(b) \in Seq(K)
<1> DEFINE f == First(b, Arrows)
<1>1. f \in 0 .. Len(b) /\ Len(b) \in Nat
  BY FirstIs, LenProperties
<1>2. StripFirstArrow(b) = IF f # 0 THEN Without(b, f, f) ELSE b
  BY DEF StripFirstArrow
<1> HIDE DEF f
<1>3. f # 0 => Without(b, f, f) \in Seq(K)
  BY <1>1, WithoutIs
<1> QED  BY <1>2, <1>3

\* Its loop, step by step.
LEMMA StripEscapeLoop ==
  ASSUME NEW K, NEW b \in Seq(K)
  PROVE  LoopsTo(StripEscapeCharacters(b), [s \in Seq(K) |-> StripFirstArrow(s)], b, Len(b))
<1> DEFINE S == Seq(K)
           x == b
           step == [s \in S |-> StripFirstArrow(s)]
           n == Len(b)
           Is(f) == f = [i \in 0 .. n |-> IF i = 0 THEN x ELSE StripFirstArrow(f[i - 1])]
<1>1. n \in Nat
  BY LenProperties
<1>2. x \in S
  OBVIOUS
<1>3. step \in [S -> S] /\ \A s \in S : step[s] = StripFirstArrow(s)
  BY StripFirstArrowIs
<1> HIDE DEF S, step, n, x
<1>4. PICK g \in [0 .. n -> S] : IsLoop(g, step, x, n)
  BY <1>1, <1>2, <1>3, LoopExists
<1>5. Is(g)
  <2>1. ASSUME NEW i \in 0 .. n
        PROVE  g[i] = IF i = 0 THEN x ELSE StripFirstArrow(g[i - 1])
    <3>1. i # 0 => i \in 1 .. n /\ i - 1 \in 0 .. n
      BY <1>1
    <3> QED  BY <1>3, <1>4, <3>1 DEF IsLoop
  <2> QED  BY <1>4, <2>1
<1> DEFINE f == CHOOSE h : Is(h)
<1>6. StripEscapeCharacters(b) = f[n]
  BY DEF StripEscapeCharacters, Repeated, n, x
<1>7. Is(f)
  <2> HIDE DEF Is
  <2> QED  BY <1>5
<1> HIDE DEF f
<1>8. f[0] = x /\ \A i \in 1 .. n : f[i] = StripFirstArrow(f[i - 1])
  <2>1. \A i \in 0 .. n : f[i] = IF i = 0 THEN x ELSE StripFirstArrow(f[i - 1])
    BY <1>7
  <2>2. 0 \in 0 .. n /\ \A i \in 1 .. n : i \in 0 .. n /\ i # 0
    BY <1>1
  <2> QED  BY <2>1, <2>2
<1>9. IsLoop(f, step, x, n)
  <2>1. \A i \in 1 .. n : f[i - 1] \in S => f[i] = step[f[i - 1]]
    BY <1>3, <1>8
  <2> QED  BY <1>1, <1>2, <1>3, <1>8, <2>1, LoopOf
<1> QED  BY <1>6, <1>9 DEF LoopsTo, step, n, x, S

-----------------------------------------------------------------------------
(* The folds of the model, element by element.                             *)

\* A history and its cursor, as a pair.
Histories(K) == [list : Seq(Seq(K)), cursor : Nat]

\* One more line in the history leaves a history, with its cursor at the end.
LEMMA AddToHistoryIs ==
  ASSUME NEW K, NEW h \in Histories(K), NEW line \in Seq(K)
  PROVE  /\ AddToHistory(h, line) \in Histories(K)
         /\ Longer(h, line) \in Seq(Seq(K))
         /\ AddToHistory(h, line).list = Popped(Longer(h, line))
         /\ AddToHistory(h, line).cursor = Len(Popped(Longer(h, line))) + 1
<1>1. h.list \in Seq(Seq(K))
  BY DEF Histories
<1>2. Longer(h, line) \in Seq(Seq(K))
  BY <1>1, AppendProperties DEF Longer
<1> DEFINE list == Popped(Longer(h, line))
<1>3. list \in Seq(Seq(K))
  <2>1. Len(Longer(h, line)) > HistoryLimit => Longer(h, line) # <<>>
    BY LimitsAssumption, EmptySeq
  <2> QED  BY <1>2, <2>1, HeadTailProperties DEF Popped
<1>4. Len(list) \in Nat
  BY <1>3, LenProperties
<1>5. AddToHistory(h, line) = [list |-> list, cursor |-> Len(list) + 1]
  BY DEF AddToHistory
<1> HIDE DEF list
<1> QED  BY <1>2, <1>3, <1>4, <1>5 DEF Histories, list

\* The history after some lines.
LEMMA HistoryFold ==
  ASSUME NEW K, NEW h \in Histories(K), NEW lines \in Seq(Seq(K))
  PROVE  FoldsTo(FoldLeft(AddToHistory, h, lines), Histories(K),
                 [a \in Histories(K) |-> [e \in Seq(K) |-> AddToHistory(a, e)]],
                 h, lines)
<1> DEFINE A == Histories(K)
           E == Seq(K)
           op == [a \in A |-> [e \in E |-> AddToHistory(a, e)]]
           n == Len(lines)
           D == SUBSET (1 .. n)
           Is(it) == it = [T \in D |-> IF T = {} THEN h
                             ELSE AddToHistory(it[T \ {Max(T)}], lines[Max(T)])]
<1>1. n \in Nat /\ DOMAIN lines = 1 .. n /\ \A i \in 1 .. n : lines[i] \in E
  BY ElementOfSeq, LenProperties
<1>2. /\ op \in [A -> [E -> A]]
      /\ \A a \in A, e \in E : op[a][e] = AddToHistory(a, e)
  BY AddToHistoryIs
<1>3. h \in A /\ lines \in Seq(E)
  OBVIOUS
<1> HIDE DEF A, E, op, n
<1>4. \A T \in D : T # {} => /\ Max(T) \in 1 .. n /\ T \ {Max(T)} \in D
                               /\ lines[Max(T)] \in E
  BY <1>1, LargestNumber
<1>5. PICK it \in [D -> A] : \A T \in D : IsSetFold(it, op, h, lines, T)
  BY <1>2, <1>3, SetFoldExists DEF n
<1>6. Is(it)
  <2>1. ASSUME NEW T \in D
        PROVE  it[T] = IF T = {} THEN h
                       ELSE AddToHistory(it[T \ {Max(T)}], lines[Max(T)])
    <3>1. T # {} => it[T \ {Max(T)}] \in A
      <4> HIDE DEF D
      <4> QED  BY <1>4, <1>5
    <3> HIDE DEF D
    <3> QED  BY <1>2, <1>4, <1>5, <3>1 DEF IsSetFold
  <2> HIDE DEF D
  <2> QED  BY <1>5, <2>1
<1> DEFINE made == CHOOSE it_1 : Is(it_1)
<1>7. FoldLeft(AddToHistory, h, lines) = made[1 .. n]
  BY <1>1 DEF FoldLeft, MapThenFoldSet
<1>8. Is(made)
  <2> HIDE DEF Is
  <2> QED  BY <1>6
<1> HIDE DEF made
<1>9. \A T \in D : made[T] = IF T = {} THEN h
                          ELSE AddToHistory(made[T \ {Max(T)}], lines[Max(T)])
  <2> HIDE DEF D
  <2> QED  BY <1>8
<1>10. made[{}] = h
  BY <1>9
<1>11. ASSUME NEW T \in D, T # {}, made[T \ {Max(T)}] \in A
       PROVE  IsSetFold(made, op, h, lines, T)
  <2> DEFINE a == made[T \ {Max(T)}]
             e == lines[Max(T)]
  <2>1. e \in E /\ a \in A
    BY <1>4, <1>11
  <2>2. made[T] = AddToHistory(a, e)
    <3> HIDE DEF D
    <3> QED  BY <1>9, <1>11
  <2> HIDE DEF a, e
  <2>3. op[a][e] = AddToHistory(a, e)
    BY <1>2, <2>1
  <2>4. made[T] = op[a][e]
    BY <2>2, <2>3
  <2> HIDE DEF D
  <2> QED  BY <1>11, <2>4 DEF IsSetFold, a, e
<1>12. ComputesFold(made, A, E, op, h, lines)
  BY <1>2, <1>3, <1>10, <1>11 DEF ComputesFold, n
<1>13. FoldsTo(made[1 .. Len(lines)], A, op, h, lines)
  <2> HIDE DEF D, Is
  <2> QED  BY <1>12, SetFoldIsFold
<1> QED  BY <1>7, <1>13 DEF op, A, E, n

\* A sum.
LEMMA SumFold ==
  ASSUME NEW s \in Seq(Nat)
  PROVE  FoldsTo(Sum(s), Nat,
                 [a \in Nat |-> [e \in Nat |-> (a + e)]],
                 0, s)
<1> DEFINE A == Nat
           E == Nat
           op == [a \in A |-> [e \in E |-> (a + e)]]
           n == Len(s)
           D == SUBSET (1 .. n)
           Is(it) == it = [T \in D |-> IF T = {} THEN 0
                             ELSE (it[T \ {Max(T)}] + s[Max(T)])]
<1>1. n \in Nat /\ DOMAIN s = 1 .. n /\ \A i \in 1 .. n : s[i] \in E
  BY ElementOfSeq, LenProperties
<1>2. /\ op \in [A -> [E -> A]]
      /\ \A a \in A, e \in E : op[a][e] = (a + e)
  OBVIOUS
<1>3. 0 \in A /\ s \in Seq(E)
  OBVIOUS
<1> HIDE DEF A, E, op, n
<1>4. \A T \in D : T # {} => /\ Max(T) \in 1 .. n /\ T \ {Max(T)} \in D
                               /\ s[Max(T)] \in E
  BY <1>1, LargestNumber
<1>5. PICK it \in [D -> A] : \A T \in D : IsSetFold(it, op, 0, s, T)
  BY <1>2, <1>3, SetFoldExists DEF n
<1>6. Is(it)
  <2>1. ASSUME NEW T \in D
        PROVE  it[T] = IF T = {} THEN 0
                       ELSE (it[T \ {Max(T)}] + s[Max(T)])
    <3>1. T # {} => it[T \ {Max(T)}] \in A
      <4> HIDE DEF D
      <4> QED  BY <1>4, <1>5
    <3> HIDE DEF D
    <3> QED  BY <1>2, <1>4, <1>5, <3>1 DEF IsSetFold
  <2> HIDE DEF D
  <2> QED  BY <1>5, <2>1
<1> DEFINE made == CHOOSE it_1 : Is(it_1)
<1>7. Sum(s) = made[1 .. n]
  BY <1>1 DEF Sum, FoldLeft, MapThenFoldSet
<1>8. Is(made)
  <2> HIDE DEF Is
  <2> QED  BY <1>6
<1> HIDE DEF made
<1>9. \A T \in D : made[T] = IF T = {} THEN 0
                          ELSE (made[T \ {Max(T)}] + s[Max(T)])
  <2> HIDE DEF D
  <2> QED  BY <1>8
<1>10. made[{}] = 0
  BY <1>9
<1>11. ASSUME NEW T \in D, T # {}, made[T \ {Max(T)}] \in A
       PROVE  IsSetFold(made, op, 0, s, T)
  <2> DEFINE a == made[T \ {Max(T)}]
             e == s[Max(T)]
  <2>1. e \in E /\ a \in A
    BY <1>4, <1>11
  <2>2. made[T] = (a + e)
    <3> HIDE DEF D
    <3> QED  BY <1>9, <1>11
  <2> HIDE DEF a, e
  <2>3. op[a][e] = (a + e)
    BY <1>2, <2>1
  <2>4. made[T] = op[a][e]
    BY <2>2, <2>3
  <2> HIDE DEF D
  <2> QED  BY <1>11, <2>4 DEF IsSetFold, a, e
<1>12. ComputesFold(made, A, E, op, 0, s)
  BY <1>2, <1>3, <1>10, <1>11 DEF ComputesFold, n
<1>13. FoldsTo(made[1 .. Len(s)], A, op, 0, s)
  <2> HIDE DEF D, Is
  <2> QED  BY <1>12, SetFoldIsFold
<1> QED  BY <1>7, <1>13 DEF op, A, E, n

\* What of a sequence is neither empty nor a repetition, after those in list.
DistinctFrom(list, s) ==
  FoldLeft(LAMBDA h, l : IF l = <<>> \/ (h # <<>> /\ Last(h) = l) THEN h
                         ELSE Append(h, l), list, s)

\* The lines that are neither empty nor repeated.
LEMMA DistinctFold ==
  ASSUME NEW L, NEW list \in Seq(L), NEW s \in Seq(L)
  PROVE  FoldsTo(DistinctFrom(list, s), Seq(L),
                 [a \in Seq(L) |-> [e \in L |-> (IF e = <<>> \/ (a # <<>> /\ Last(a) = e) THEN a ELSE Append(a, e))]],
                 list, s)
<1> DEFINE A == Seq(L)
           E == L
           op == [a \in A |-> [e \in E |-> (IF e = <<>> \/ (a # <<>> /\ Last(a) = e) THEN a ELSE Append(a, e))]]
           n == Len(s)
           D == SUBSET (1 .. n)
           Is(it) == it = [T \in D |-> IF T = {} THEN list
                             ELSE (IF s[Max(T)] = <<>> \/ (it[T \ {Max(T)}] # <<>> /\ Last(it[T \ {Max(T)}]) = s[Max(T)]) THEN it[T \ {Max(T)}] ELSE Append(it[T \ {Max(T)}], s[Max(T)]))]
<1>1. n \in Nat /\ DOMAIN s = 1 .. n /\ \A i \in 1 .. n : s[i] \in E
  BY ElementOfSeq, LenProperties
<1>2. /\ op \in [A -> [E -> A]]
      /\ \A a \in A, e \in E : op[a][e] = (IF e = <<>> \/ (a # <<>> /\ Last(a) = e) THEN a ELSE Append(a, e))
  BY AppendProperties
<1>3. list \in A /\ s \in Seq(E)
  OBVIOUS
<1> HIDE DEF A, E, op, n
<1>4. \A T \in D : T # {} => /\ Max(T) \in 1 .. n /\ T \ {Max(T)} \in D
                               /\ s[Max(T)] \in E
  BY <1>1, LargestNumber
<1>5. PICK it \in [D -> A] : \A T \in D : IsSetFold(it, op, list, s, T)
  BY <1>2, <1>3, SetFoldExists DEF n
<1>6. Is(it)
  <2>1. ASSUME NEW T \in D
        PROVE  it[T] = IF T = {} THEN list
                       ELSE (IF s[Max(T)] = <<>> \/ (it[T \ {Max(T)}] # <<>> /\ Last(it[T \ {Max(T)}]) = s[Max(T)]) THEN it[T \ {Max(T)}] ELSE Append(it[T \ {Max(T)}], s[Max(T)]))
    <3>1. T # {} => it[T \ {Max(T)}] \in A
      <4> HIDE DEF D
      <4> QED  BY <1>4, <1>5
    <3> HIDE DEF D
    <3> QED  BY <1>2, <1>4, <1>5, <3>1 DEF IsSetFold
  <2> HIDE DEF D
  <2> QED  BY <1>5, <2>1
<1> DEFINE made == CHOOSE it_1 : Is(it_1)
<1>7. DistinctFrom(list, s) = made[1 .. n]
  BY <1>1 DEF DistinctFrom, FoldLeft, MapThenFoldSet
<1>8. Is(made)
  <2> HIDE DEF Is
  <2> QED  BY <1>6
<1> HIDE DEF made
<1>9. \A T \in D : made[T] = IF T = {} THEN list
                          ELSE (IF s[Max(T)] = <<>> \/ (made[T \ {Max(T)}] # <<>> /\ Last(made[T \ {Max(T)}]) = s[Max(T)]) THEN made[T \ {Max(T)}] ELSE Append(made[T \ {Max(T)}], s[Max(T)]))
  <2> HIDE DEF D
  <2> QED  BY <1>8
<1>10. made[{}] = list
  BY <1>9
<1>11. ASSUME NEW T \in D, T # {}, made[T \ {Max(T)}] \in A
       PROVE  IsSetFold(made, op, list, s, T)
  <2> DEFINE a == made[T \ {Max(T)}]
             e == s[Max(T)]
  <2>1. e \in E /\ a \in A
    BY <1>4, <1>11
  <2>2. made[T] = (IF e = <<>> \/ (a # <<>> /\ Last(a) = e) THEN a ELSE Append(a, e))
    <3> HIDE DEF D
    <3> QED  BY <1>9, <1>11
  <2> HIDE DEF a, e
  <2>3. op[a][e] = (IF e = <<>> \/ (a # <<>> /\ Last(a) = e) THEN a ELSE Append(a, e))
    BY <1>2, <2>1
  <2>4. made[T] = op[a][e]
    BY <2>2, <2>3
  <2> HIDE DEF D
  <2> QED  BY <1>11, <2>4 DEF IsSetFold, a, e
<1>12. ComputesFold(made, A, E, op, list, s)
  BY <1>2, <1>3, <1>10, <1>11 DEF ComputesFold, n
<1>13. FoldsTo(made[1 .. Len(s)], A, op, list, s)
  <2> HIDE DEF D, Is
  <2> QED  BY <1>12, SetFoldIsFold
<1> QED  BY <1>7, <1>13 DEF op, A, E, n

\* The states of the line of which a key has a meaning.
Meanings(K) == [line : Seq(K), lines : Seq(Seq(K)), skip : Nat]

\* What one key means, in any state of the line.
LEMMA TypeKeyIs ==
  ASSUME NEW K, "lf" \in K, Commands \in Seq(Seq(K)), NEW e \in Meanings(K), NEW k \in K
  PROVE  TypeKey(e, k) \in Meanings(K)
<1> DEFINE key == IF k = "nul" THEN "lf" ELSE k
           line == e.line
<1>1. key \in K /\ line \in Seq(K) /\ e.lines \in Seq(Seq(K)) /\ e.skip \in Nat
  BY DEF Meanings
<1>2. line # <<>> => Front(line) \in Seq(K)
  <2>1. line # <<>> => \A i \in 1 .. Len(line) - 1 : line[i] \in K
    BY <1>1, ElementOfSeq, LenProperties
  <2>2. Len(line) \in Nat
    BY <1>1, LenProperties
  <2> HIDE DEF line
  <2> QED  BY <2>1, <2>2, SubSeqProperties DEF Front
<1>3. Cardinality(Matches(line)) = 1 => Match(line) \in Seq(K)
  BY MatchIs
<1>4. Append(line, key) \in Seq(K)
  BY <1>1, AppendProperties
<1>5. line # <<>> => Append(e.lines, Front(line)) \in Seq(Seq(K))
  BY <1>1, <1>2, AppendProperties
<1>6. <<>> \in Seq(K)
  OBVIOUS
<1>7. e.skip > 0 => e.skip - 1 \in Nat
  BY <1>1
<1>8. TypeKey(e, k)
        = IF e.skip > 0 THEN [e EXCEPT !.skip = @ - 1]
          ELSE IF key = "iac" THEN [e EXCEPT !.skip = 2]
          ELSE IF Interactive /\ key \in {"bs", "del"}
          THEN [e EXCEPT !.line = IF line = <<>> THEN <<>> ELSE Front(line)]
          ELSE IF Interactive /\ key = "tab"
          THEN [e EXCEPT !.line =
                  IF Cardinality(Matches(line)) = 1 THEN Match(line) ELSE line]
          ELSE IF key = "lf" /\ line # <<>> /\ Last(line) = "cr"
          THEN [e EXCEPT !.lines = Append(@, Front(line)), !.line = <<>>]
          ELSE [e EXCEPT !.line = Append(@, key)]
  BY DEF TypeKey
<1>9. e = [line |-> line, lines |-> e.lines, skip |-> e.skip]
  BY DEF Meanings
<1> HIDE DEF key
<1> DEFINE front == Front(line)
           match == Match(line)
           one == Cardinality(Matches(line)) = 1
           longer == Append(line, key)
           last == Last(line)
           more == Append(e.lines, front)
<1> HIDE DEF front, match, one, longer, last, more, line
<1>10. TypeKey(e, k)
        = IF e.skip > 0 THEN [line |-> line, lines |-> e.lines, skip |-> e.skip - 1]
          ELSE IF key = "iac" THEN [line |-> line, lines |-> e.lines, skip |-> 2]
          ELSE IF Interactive /\ key \in {"bs", "del"}
          THEN [line |-> IF line = <<>> THEN <<>> ELSE front, lines |-> e.lines,
                skip |-> e.skip]
          ELSE IF Interactive /\ key = "tab"
          THEN [line |-> IF one THEN match ELSE line, lines |-> e.lines, skip |-> e.skip]
          ELSE IF key = "lf" /\ line # <<>> /\ last = "cr"
          THEN [line |-> <<>>, lines |-> more, skip |-> e.skip]
          ELSE [line |-> longer, lines |-> e.lines, skip |-> e.skip]
  BY <1>8, <1>9 DEF front, match, one, longer, last, more, line
<1>11. /\ line \in Seq(K) /\ e.lines \in Seq(Seq(K)) /\ e.skip \in Nat
       /\ longer \in Seq(K) /\ <<>> \in Seq(K) /\ 2 \in Nat
       /\ e.skip > 0 => e.skip - 1 \in Nat
       /\ line # <<>> => front \in Seq(K) /\ more \in Seq(Seq(K))
       /\ one => match \in Seq(K)
  BY <1>1, <1>2, <1>3, <1>4, <1>5, <1>6, <1>7 DEF front, match, one, longer, last, more
<1> QED  BY <1>10, <1>11 DEF Meanings

\* What some keys mean after e.
TypedFrom(e, s) == FoldLeft(TypeKey, e, s)

\* The meaning of keys, one after the other.
LEMMA TypedFold ==
  ASSUME NEW K, "lf" \in K, Commands \in Seq(Seq(K)), NEW e_0 \in Meanings(K), NEW s \in Seq(K)
  PROVE  FoldsTo(TypedFrom(e_0, s), Meanings(K),
                 [a \in Meanings(K) |-> [e \in K |-> TypeKey(a, e)]],
                 e_0, s)
<1> DEFINE A == Meanings(K)
           E == K
           op == [a \in A |-> [e \in E |-> TypeKey(a, e)]]
           n == Len(s)
           D == SUBSET (1 .. n)
           Is(it) == it = [T \in D |-> IF T = {} THEN e_0
                             ELSE TypeKey(it[T \ {Max(T)}], s[Max(T)])]
<1>1. n \in Nat /\ DOMAIN s = 1 .. n /\ \A i \in 1 .. n : s[i] \in E
  BY ElementOfSeq, LenProperties
<1>2. /\ op \in [A -> [E -> A]]
      /\ \A a \in A, e \in E : op[a][e] = TypeKey(a, e)
  BY TypeKeyIs
<1>3. e_0 \in A /\ s \in Seq(E)
  OBVIOUS
<1> HIDE DEF A, E, op, n
<1>4. \A T \in D : T # {} => /\ Max(T) \in 1 .. n /\ T \ {Max(T)} \in D
                               /\ s[Max(T)] \in E
  BY <1>1, LargestNumber
<1>5. PICK it \in [D -> A] : \A T \in D : IsSetFold(it, op, e_0, s, T)
  BY <1>2, <1>3, SetFoldExists DEF n
<1>6. Is(it)
  <2>1. ASSUME NEW T \in D
        PROVE  it[T] = IF T = {} THEN e_0
                       ELSE TypeKey(it[T \ {Max(T)}], s[Max(T)])
    <3>1. T # {} => it[T \ {Max(T)}] \in A
      <4> HIDE DEF D
      <4> QED  BY <1>4, <1>5
    <3> HIDE DEF D
    <3> QED  BY <1>2, <1>4, <1>5, <3>1 DEF IsSetFold
  <2> HIDE DEF D
  <2> QED  BY <1>5, <2>1
<1> DEFINE made == CHOOSE it_1 : Is(it_1)
<1>7. TypedFrom(e_0, s) = made[1 .. n]
  BY <1>1 DEF TypedFrom, FoldLeft, MapThenFoldSet
<1>8. Is(made)
  <2> HIDE DEF Is
  <2> QED  BY <1>6
<1> HIDE DEF made
<1>9. \A T \in D : made[T] = IF T = {} THEN e_0
                          ELSE TypeKey(made[T \ {Max(T)}], s[Max(T)])
  <2> HIDE DEF D
  <2> QED  BY <1>8
<1>10. made[{}] = e_0
  BY <1>9
<1>11. ASSUME NEW T \in D, T # {}, made[T \ {Max(T)}] \in A
       PROVE  IsSetFold(made, op, e_0, s, T)
  <2> DEFINE a == made[T \ {Max(T)}]
             e == s[Max(T)]
  <2>1. e \in E /\ a \in A
    BY <1>4, <1>11
  <2>2. made[T] = TypeKey(a, e)
    <3> HIDE DEF D
    <3> QED  BY <1>9, <1>11
  <2> HIDE DEF a, e
  <2>3. op[a][e] = TypeKey(a, e)
    BY <1>2, <2>1
  <2>4. made[T] = op[a][e]
    BY <2>2, <2>3
  <2> HIDE DEF D
  <2> QED  BY <1>11, <2>4 DEF IsSetFold, a, e
<1>12. ComputesFold(made, A, E, op, e_0, s)
  BY <1>2, <1>3, <1>10, <1>11 DEF ComputesFold, n
<1>13. FoldsTo(made[1 .. Len(s)], A, op, e_0, s)
  <2> HIDE DEF D, Is
  <2> QED  BY <1>12, SetFoldIsFold
<1> QED  BY <1>7, <1>13 DEF op, A, E, n

-----------------------------------------------------------------------------
(* The steps of update(), by name.                                         *)

Raw(taken) == StripNVT(buffer \o SwapNulls(taken))
Walk(taken, ok) == ProcessCommandHistory(Raw(taken), ok)
Plain(taken, ok) == StripEscapeCharacters(Walk(taken, ok).buf)
Edited(taken, ok) == ProcessBackspace(Plain(taken, ok))
Completed(taken, ok) == ProcessTab(Edited(taken, ok))
CutOf(taken, ok) ==
  GetCompleteLines(IF Interactive THEN Completed(taken, ok).buf ELSE Raw(taken))
NewLines(taken, ok) == IF Hooked THEN CutOf(taken, ok).lines ELSE <<>>
StartOfHistory(taken, ok) ==
  [list |-> history, cursor |-> IF Interactive THEN Walk(taken, ok).cursor ELSE cursor]
NewHistory(taken, ok) ==
  FoldLeft(AddToHistory, StartOfHistory(taken, ok), NewLines(taken, ok))
Good(lines) == Cardinality({i \in DOMAIN lines : Succeeds(lines[i])})
Sends(taken, ok) ==
  (IF taken[1] = "iac" THEN 0 ELSE 1)
    + (IF Interactive THEN Walk(taken, ok).sends + Completed(taken, ok).sends ELSE 0)
    + Sum([i \in DOMAIN NewLines(taken, ok) |-> Replies(NewLines(taken, ok)[i])])
        * LineSends(CutOf(taken, ok).rest)
    + (IF /\ Interactive
          /\ \/ Walk(taken, ok).reprint
             \/ Edited(taken, ok) # Plain(taken, ok)
             \/ First(Edited(taken, ok), {"tab"}) # 0
       THEN 2 + PromptSends(CutOf(taken, ok).rest) ELSE 0)
Ups(taken, ok) == IF ok THEN Sends(taken, ok) ELSE 0

\* What update() leaves behind.
LEMMA UpdateIs ==
  ASSUME NEW taken, NEW ok, Update(taken, ok)
  PROVE  /\ phase # "new" /\ ~timedOut /\ phase' = "live" /\ setting' = setting
         /\ received' = received \o taken
         /\ buffer' = CutOf(taken, ok).rest
         /\ history' = NewHistory(taken, ok).list
         /\ cursor' = NewHistory(taken, ok).cursor
         /\ executed' = executed \o NewLines(taken, ok)
         /\ timedOut' = (Quit \in Range(NewLines(taken, ok)))
         /\ sent' = sent + Ups(taken, ok)
         /\ stats' = [up |-> 0 + Ups(taken, ok), down |-> 0 + Len(taken),
                      succ |-> 0 + Good(NewLines(taken, ok)),
                      fail |-> 0 + Len(NewLines(taken, ok)) - Good(NewLines(taken, ok))]
         /\ totals' = [f \in DOMAIN totals |-> totals[f] + stats'[f]]
  BY ZenonT(60)
     DEF Update, Raw, Walk, Plain, Edited, Completed, CutOf, NewLines, StartOfHistory,
         NewHistory, Good, Sends, Ups, Consume, StartingStats, NoStats

\* The characters of a text: those that arrive, new lines and those of the commands.
Chars == Keys \cup {"lf"} \cup UNION {Range(c) : c \in Range(Commands)}

\* The commands are texts.
LEMMA CommandsAre == "lf" \in Chars /\ Commands \in Seq(Seq(Chars)) /\ Texts = Seq(Chars)
<1>1. \A i \in 1 .. Len(Commands) : Commands[i] \in Seq(Chars)
  <2> TAKE i \in 1 .. Len(Commands)
  <2>1. Commands[i] \in Seq(STRING \ Controls) /\ DOMAIN Commands = 1 .. Len(Commands)
    BY CommandsAssumption, ElementOfSeq, LenProperties
  <2> DEFINE c == Commands[i]
  <2>2. c \in [1 .. Len(c) -> STRING \ Controls] /\ Len(c) \in Nat
    BY <2>1, LenProperties
  <2>3. Range(c) \subseteq Chars
    BY <2>1 DEF Chars, Range
  <2>4. \A j \in 1 .. Len(c) : c[j] \in Chars
    BY <2>2, <2>3 DEF Range
  <2> HIDE DEF c
  <2>5. c \in Seq(Chars)
    BY <2>2, <2>4
  <2> QED  BY <2>5 DEF c
<1>2. Commands \in [1 .. Len(Commands) -> Seq(STRING \ Controls)] /\ Len(Commands) \in Nat
  BY CommandsAssumption, LenProperties
<1>3. Commands \in Seq(Seq(Chars))
  BY <1>1, <1>2
<1> QED  BY <1>3 DEF Chars, Texts

\* A segment consists of keys.
LEMMA SegmentIs ==
  ASSUME setting \in DOMAIN Settings, NEW taken \in Settings[setting].segments
  PROVE  /\ taken \in Seq(Keys) /\ taken \in Seq(Chars) /\ taken # <<>>
         /\ Len(taken) \in Nat \ {0} /\ taken[1] \in Keys
<1>1. SettingType(Settings[setting])
  BY LimitsAssumption DEF Range
<1>2. taken \in Seq(STRING) /\ taken # <<>>
  BY <1>1 DEF SettingType
<1>3. taken \in [1 .. Len(taken) -> STRING] /\ Len(taken) \in Nat \ {0}
  BY <1>2, LenProperties, EmptySeq
<1>4. \A i \in 1 .. Len(taken) : taken[i] \in Keys
  BY <1>3 DEF Keys, Range
<1>5. \A i \in 1 .. Len(taken) : taken[i] \in Chars
  BY <1>4 DEF Chars
<1> QED  BY <1>2, <1>3, <1>4, <1>5

\* Swapping NULs leaves a text.
LEMMA SwapNullsIs ==
  ASSUME NEW K, "lf" \in K, NEW s \in Seq(K)
  PROVE  /\ SwapNulls(s) \in Seq(K) /\ Len(SwapNulls(s)) = Len(s)
         /\ \A i \in 1 .. Len(s) : SwapNulls(s)[i] = IF s[i] = "nul" THEN "lf" ELSE s[i]
<1>1. DOMAIN s = 1 .. Len(s) /\ Len(s) \in Nat /\ \A i \in 1 .. Len(s) : s[i] \in K
  BY LenProperties, ElementOfSeq
<1> DEFINE t == [i \in 1 .. Len(s) |-> IF s[i] = "nul" THEN "lf" ELSE s[i]]
<1>2. SwapNulls(s) = t
  BY <1>1 DEF SwapNulls
<1>3. \A i \in 1 .. Len(s) : (IF s[i] = "nul" THEN "lf" ELSE s[i]) \in K
  BY <1>1
<1>4. t \in [1 .. Len(s) -> K]
  BY <1>3
<1>5. t \in Seq(K)
  BY <1>1, <1>4
<1>6. Len(t) = Len(s)
  BY <1>1
<1> QED  BY <1>2, <1>5, <1>6

-----------------------------------------------------------------------------
(* What the stages keep: texts of any set K of characters with which        *)
(* commands and new lines are texts.                                       *)

\* Each loop and fold leaves texts.
LEMMA LoopTypes ==
  ASSUME NEW K, Commands \in Seq(Seq(K)), NEW b \in Seq(K)
  PROVE  /\ StripNVT(b) \in Seq(K) /\ StripEscapeCharacters(b) \in Seq(K)
         /\ ProcessBackspace(b) \in Seq(K) /\ ProcessTab(b) \in Tabs(K)
         /\ GetCompleteLines(b) \in Cuts(K)
<1>1. Len(b) \in Nat
  BY LenProperties
<1>2. StripNVT(b) \in Seq(K)
  <2> DEFINE step == [s \in Seq(K) |-> StripFirstNVT(s)]
  <2>1. LoopsTo(StripNVT(b), step, b, Len(b))
    BY StripNVTLoop
  <2>2. \A s \in Seq(K) : step[s] \in Seq(K)
    BY StripFirstNVTIs
  <2> HIDE DEF step
  <2> QED  BY <1>1, <2>1, <2>2, LoopKeeps
<1>3. ProcessBackspace(b) \in Seq(K)
  <2> DEFINE step == [s \in Seq(K) |-> ProcessFirstBackspace(s)]
  <2>1. LoopsTo(ProcessBackspace(b), step, b, Len(b))
    BY ProcessBackspaceLoop
  <2>2. \A s \in Seq(K) : step[s] \in Seq(K)
    BY ProcessFirstBackspaceIs
  <2> HIDE DEF step
  <2> QED  BY <1>1, <2>1, <2>2, LoopKeeps
<1>4. ProcessTab(b) \in Tabs(K)
  <2> DEFINE step == [r \in Tabs(K) |-> ProcessFirstTab(r)]
             x == [buf |-> b, sends |-> 0]
  <2>1. LoopsTo(ProcessTab(b), [s \in Tabs(K) |-> ProcessFirstTab(s)], x, Len(b))
    BY ProcessTabLoop
  <2>2. \A s \in Tabs(K) : step[s] \in Tabs(K)
    BY ProcessFirstTabIs
  <2>3. x \in Tabs(K)
    BY DEF Tabs
  <2>4. LoopsTo(ProcessTab(b), step, x, Len(b))
    BY <2>1
  <2> HIDE DEF step, x
  <2> QED  BY <1>1, <2>2, <2>3, <2>4, LoopKeeps
<1>5. GetCompleteLines(b) \in Cuts(K)
  <2> DEFINE step == [r \in Cuts(K) |-> TakeFirstLine(r)]
             x == [lines |-> <<>>, rest |-> b]
  <2>1. LoopsTo(GetCompleteLines(b), [s \in Cuts(K) |-> TakeFirstLine(s)], x, Len(b))
    BY GetCompleteLinesLoop
  <2>2. \A s \in Cuts(K) : step[s] \in Cuts(K)
    BY TakeFirstLineIs
  <2>3. x \in Cuts(K)
    BY DEF Cuts
  <2>4. LoopsTo(GetCompleteLines(b), step, x, Len(b))
    BY <2>1
  <2> HIDE DEF step, x
  <2> QED  BY <1>1, <2>2, <2>3, <2>4, LoopKeeps
<1>6. StripEscapeCharacters(b) \in Seq(K)
  <2> DEFINE step == [s \in Seq(K) |-> StripFirstArrow(s)]
  <2>1. LoopsTo(StripEscapeCharacters(b), step, b, Len(b))
    BY StripEscapeLoop
  <2>2. \A s \in Seq(K) : step[s] \in Seq(K)
    BY StripFirstArrowIs
  <2> HIDE DEF step
  <2> QED  BY <1>1, <2>1, <2>2, LoopKeeps
<1> QED  BY <1>2, <1>3, <1>4, <1>5, <1>6

\* A recalled entry exists, and the cursor stays in the list or at its end.
LEMMA WalkIs ==
  ASSUME NEW K, history \in Seq(Seq(K)), cursor \in 1 .. Len(history) + 1,
         NEW b \in Seq(K), NEW ok
  PROVE  LET w == ProcessCommandHistory(b, ok)
         IN  /\ w.buf \in Seq(K) /\ w.cursor \in 1 .. Len(history) + 1
             /\ w.sends \in Nat
             /\ \/ w.buf = b /\ w.cursor = cursor
                \/ history # <<>> /\ w.cursor \in 1 .. Len(history)
                     /\ w.buf = history[w.cursor]
<1> DEFINE w == ProcessCommandHistory(b, ok)
<1>1. Len(history) \in Nat /\ \A i \in 1 .. Len(history) : history[i] \in Seq(K)
  BY LenProperties, ElementOfSeq
<1>2. history # <<>> => Len(history) # 0
  BY EmptySeq
<1>3. NextOf(cursor) \in 1 .. Len(history) + 1 \/ (history = <<>>)
  BY <1>1, <1>2 DEF NextOf
<1>4. ASSUME NEW c \in 1 .. Len(history), history # <<>>, w = Recalled(c, ok)
      PROVE  /\ w.buf \in Seq(K) /\ w.cursor \in 1 .. Len(history) + 1
             /\ w.sends \in Nat
             /\ history # <<>> /\ w.cursor \in 1 .. Len(history)
                  /\ w.buf = history[w.cursor]
  <2>1. w = [buf |-> history[c], cursor |-> c, reprint |-> ok, sends |-> 1]
    BY <1>4 DEF Recalled
  <2>2. w.buf = history[c] /\ w.cursor = c /\ w.sends = 1
    BY <2>1
  <2> HIDE DEF w
  <2> QED  BY <1>1, <1>4, <2>2
<1>5. CASE First(b, {"up"}) # 0 /\ history # <<>>
  <2> DEFINE c == IF cursor # 1 THEN cursor - 1 ELSE cursor
  <2>1. c \in 1 .. Len(history)
    BY <1>1, <1>2, <1>5
  <2>2. w = Recalled(c, ok)
    BY <1>5 DEF ProcessCommandHistory
  <2> HIDE DEF c, w
  <2> QED  BY <1>4, <1>5, <2>1, <2>2 DEF w
<1>6. CASE ~(First(b, {"up"}) # 0 /\ history # <<>>) /\ First(b, {"down"}) # 0 /\ history # <<>>
  <2> DEFINE c == IF NextOf(cursor) # Len(history) + 1 THEN NextOf(cursor) ELSE cursor
  <2>1. c \in 1 .. Len(history)
    BY <1>1, <1>2, <1>6 DEF NextOf
  <2>2. w = Recalled(c, ok)
    BY <1>6 DEF ProcessCommandHistory
  <2> HIDE DEF c, w
  <2> QED  BY <1>4, <1>6, <2>1, <2>2 DEF w
<1>7. CASE ~(First(b, {"up"}) # 0 /\ history # <<>>) /\ ~(First(b, {"down"}) # 0 /\ history # <<>>)
  <2>1. w = [buf |-> b, cursor |-> cursor,
             reprint |-> First(b, {"left", "right"}) # 0, sends |-> 0]
    BY <1>7 DEF ProcessCommandHistory
  <2>2. w.buf = b /\ w.cursor = cursor /\ w.sends = 0
    BY <2>1
  <2> HIDE DEF w
  <2> QED  BY <1>1, <2>2 DEF w
<1> QED  BY <1>5, <1>6, <1>7

\* The types of the stages, of the lines that were completed and of the history.
LEMMA StageTypes ==
  ASSUME NEW K, "lf" \in K, Commands \in Seq(Seq(K)), buffer \in Seq(K),
         history \in Seq(Seq(K)), cursor \in 1 .. Len(history) + 1,
         NEW taken \in Seq(K), NEW ok
  PROVE  /\ Raw(taken) \in Seq(K)
         /\ Walk(taken, ok).buf \in Seq(K)
         /\ Walk(taken, ok).cursor \in 1 .. Len(history) + 1
         /\ Walk(taken, ok).sends \in Nat
         /\ Plain(taken, ok) \in Seq(K) /\ Edited(taken, ok) \in Seq(K)
         /\ Completed(taken, ok) \in Tabs(K) /\ CutOf(taken, ok) \in Cuts(K)
         /\ NewLines(taken, ok) \in Seq(Seq(K))
         /\ StartOfHistory(taken, ok) \in Histories(K)
         /\ NewHistory(taken, ok) \in Histories(K)
<1>1. Raw(taken) \in Seq(K)
  <2>1. SwapNulls(taken) \in Seq(K)
    BY SwapNullsIs
  <2>2. buffer \o SwapNulls(taken) \in Seq(K)
    BY <2>1, ConcatProperties
  <2> QED  BY <2>2, LoopTypes DEF Raw
<1>2. /\ Walk(taken, ok).buf \in Seq(K)
      /\ Walk(taken, ok).cursor \in 1 .. Len(history) + 1
      /\ Walk(taken, ok).sends \in Nat
  BY <1>1, WalkIs DEF Walk
<1>3. Plain(taken, ok) \in Seq(K)
  BY <1>2, LoopTypes DEF Plain
<1>4. Edited(taken, ok) \in Seq(K)
  BY <1>3, LoopTypes DEF Edited
<1>5. Completed(taken, ok) \in Tabs(K)
  BY <1>4, LoopTypes DEF Completed
<1>6. CutOf(taken, ok) \in Cuts(K)
  <2>1. (IF Interactive THEN Completed(taken, ok).buf ELSE Raw(taken)) \in Seq(K)
    BY <1>1, <1>5 DEF Tabs
  <2> QED  BY <2>1, LoopTypes DEF CutOf
<1>7. NewLines(taken, ok) \in Seq(Seq(K))
  BY <1>6 DEF NewLines, Cuts
<1>8. StartOfHistory(taken, ok) \in Histories(K)
  <2>1. Len(history) \in Nat
    BY LenProperties
  <2> QED  BY <1>2, <2>1 DEF StartOfHistory, Histories
<1>9. NewHistory(taken, ok) \in Histories(K)
  <2> DEFINE op == [a \in Histories(K) |-> [e \in Seq(K) |-> AddToHistory(a, e)]]
  <2>1. FoldsTo(NewHistory(taken, ok), Histories(K), op, StartOfHistory(taken, ok), NewLines(taken, ok))
    BY <1>7, <1>8, HistoryFold DEF NewHistory
  <2>2. \A a \in Histories(K), e \in Seq(K) : op[a][e] \in Histories(K)
    BY AddToHistoryIs
  <2> HIDE DEF op
  <2> QED  BY <1>7, <1>8, <2>1, <2>2, FoldKeeps
<1> QED  BY <1>1, <1>2, <1>3, <1>4, <1>5, <1>6, <1>7, <1>8, <1>9

-----------------------------------------------------------------------------
(* The history: always the last of the distinct lines.                     *)

\* h is the end of d, and all of it while there is room.
Behind(h, d) ==
  /\ Len(h) <= HistoryLimit /\ Len(h) <= Len(d)
  /\ \A i \in 1 .. Len(h) : h[i] = d[Len(d) - Len(h) + i]
  /\ Len(h) < HistoryLimit => h = d

\* What it means to be a suffix.
LEMMA SuffixIs ==
  ASSUME NEW T, NEW h \in Seq(T), NEW d \in Seq(T)
  PROVE  IsSuffix(h, d) <=> /\ Len(h) <= Len(d)
                            /\ \A i \in 1 .. Len(h) : h[i] = d[Len(d) - Len(h) + i]
<1> DEFINE m == Len(h)
           n == Len(d)
           rh == Reverse(h)
           rd == Reverse(d)
<1>1. /\ m \in Nat /\ n \in Nat
      /\ \A i \in 1 .. m : h[i] \in T
      /\ \A i \in 1 .. n : d[i] \in T
  BY LenProperties, ElementOfSeq
<1>2. rh = [i \in 1 .. m |-> h[(m - i) + 1]] /\ rd = [i \in 1 .. n |-> d[(n - i) + 1]]
  BY DEF Reverse
<1> HIDE DEF m, n, rh, rd
<1>3. /\ Len(rh) = m /\ Len(rd) = n
      /\ \A i \in 1 .. m : rh[i] = h[(m - i) + 1] /\ rh[i] \in T
      /\ \A i \in 1 .. n : rd[i] = d[(n - i) + 1] /\ rd[i] \in T
  <2>1. \A i \in 1 .. m : (m - i) + 1 \in 1 .. m
    BY <1>1
  <2>2. \A i \in 1 .. n : (n - i) + 1 \in 1 .. n
    BY <1>1
  <2>3. Len(rh) = m /\ Len(rd) = n
    BY <1>1, <1>2
  <2> QED  BY <1>1, <1>2, <2>1, <2>2, <2>3
<1>4. IsSuffix(h, d) <=> m <= n /\ SubSeq(rh, 1, m) = SubSeq(rd, 1, m)
  BY <1>3 DEF IsSuffix, IsPrefix, rh, rd
<1>5. ASSUME m <= n
      PROVE  SubSeq(rh, 1, m) = SubSeq(rd, 1, m)
               <=> \A i \in 1 .. m : rh[i] = rd[i]
  <2>1. \A i \in 1 .. m : i \in 1 .. n
    BY <1>1, <1>5
  <2>2. \A i \in 1 .. m : rh[i] \in T /\ rd[i] \in T
    BY <1>3, <2>1
  <2> DEFINE u == SubSeq(rh, 1, m)
             v == SubSeq(rd, 1, m)
  <2>3. /\ u \in Seq(T) /\ Len(u) = IF 1 <= m THEN m - 1 + 1 ELSE 0
        /\ \A i \in 1 .. m - 1 + 1 : u[i] = rh[1 + i - 1]
    <3> HIDE DEF u
    <3> QED  BY <1>1, <2>2, SubSeqProperties DEF u
  <2>4. /\ v \in Seq(T) /\ Len(v) = IF 1 <= m THEN m - 1 + 1 ELSE 0
        /\ \A i \in 1 .. m - 1 + 1 : v[i] = rd[1 + i - 1]
    <3> HIDE DEF v
    <3> QED  BY <1>1, <2>2, SubSeqProperties DEF v
  <2> HIDE DEF u, v
  <2>5. m - 1 + 1 = m /\ \A i \in 1 .. m : 1 + i - 1 = i
    BY <1>1
  <2>6. Len(u) = m /\ Len(v) = m /\ \A i \in 1 .. m : u[i] = rh[i] /\ v[i] = rd[i]
    BY <1>1, <2>3, <2>4, <2>5
  <2>7. (\A i \in 1 .. m : u[i] = v[i]) => u = v
    BY <2>3, <2>4, <2>6, SeqEqual
  <2>8. u = v <=> \A i \in 1 .. m : rh[i] = rd[i]
    BY <2>6, <2>7
  <2> QED  BY <2>8 DEF u, v
<1>6. ASSUME m <= n
      PROVE  (\A i \in 1 .. m : rh[i] = rd[i])
               <=> \A i \in 1 .. m : h[i] = d[n - m + i]
  <2>1. \A i \in 1 .. m : i \in 1 .. n /\ (m - i) + 1 \in 1 .. m
    BY <1>1, <1>6
  <2>2. \A i \in 1 .. m : rh[i] = h[(m - i) + 1] /\ rd[i] = d[(n - i) + 1]
    BY <1>3, <2>1
  <2>3. ASSUME \A i \in 1 .. m : rh[i] = rd[i], NEW i \in 1 .. m
        PROVE  h[i] = d[n - m + i]
    <3>1. (m - i) + 1 \in 1 .. m /\ (m - ((m - i) + 1)) + 1 = i
          /\ (n - ((m - i) + 1)) + 1 = n - m + i
      BY <1>1, <1>6
    <3> QED  BY <2>2, <2>3, <3>1
  <2>4. ASSUME \A i \in 1 .. m : h[i] = d[n - m + i], NEW i \in 1 .. m
        PROVE  rh[i] = rd[i]
    <3>1. (m - i) + 1 \in 1 .. m /\ n - m + ((m - i) + 1) = (n - i) + 1
      BY <1>1, <1>6
    <3> QED  BY <2>2, <2>4, <3>1
  <2> QED  BY <2>3, <2>4
<1> QED  BY <1>1, <1>4, <1>5, <1>6 DEF m, n

\* One more line, in the history and in the distinct lines.
DistinctStep(d, line) ==
  IF line = <<>> \/ (d # <<>> /\ Last(d) = line) THEN d ELSE Append(d, line)

\* The history stays behind.
LEMMA OneMoreLine ==
  ASSUME NEW K, NEW h \in Histories(K), NEW d \in Seq(Seq(K)), NEW line \in Seq(K),
         Behind(h.list, d)
  PROVE  Behind(AddToHistory(h, line).list, DistinctStep(d, line))
<1> DEFINE l == h.list
           m == Len(l)
           n == Len(d)
           T == Seq(K)
<1>1. /\ l \in Seq(T) /\ m \in Nat /\ n \in Nat /\ HistoryLimit \in Nat \ {0}
      /\ l # <<>> <=> m # 0
      /\ d # <<>> <=> n # 0
  <2>1. l \in Seq(T)
    BY DEF Histories
  <2>2. Len(<<>>) = 0
    OBVIOUS
  <2> HIDE DEF l
  <2> QED  BY <2>1, <2>2, LimitsAssumption, LenProperties, EmptySeq
<1>2. /\ m <= HistoryLimit /\ m <= n
      /\ \A i \in 1 .. m : l[i] = d[n - m + i]
      /\ m < HistoryLimit => l = d
  BY DEF Behind
<1>3. AddToHistory(h, line).list = Popped(Longer(h, line))
  BY AddToHistoryIs
<1>4. Longer(h, line) = DistinctStep(l, line)
  BY DEF Longer, DistinctStep
<1> HIDE DEF l, m, n, T
<1>5. l # <<>> /\ d # <<>> => Last(l) = Last(d)
  <2>1. ASSUME l # <<>> PROVE l[m] = d[n]
    <3>1. m \in 1 .. m /\ n - m + m = n
      BY <1>1, <2>1
    <3> QED  BY <1>2, <3>1
  <2> QED  BY <2>1 DEF Last, m, n
<1>6. l = <<>> => d = <<>>
  BY <1>1, <1>2
<1>7. CASE line = <<>> \/ (d # <<>> /\ Last(d) = line)
  <2>1. DistinctStep(d, line) = d /\ DistinctStep(l, line) = l
    BY <1>5, <1>6, <1>7 DEF DistinctStep
  <2>2. Popped(l) = l
    BY <1>1, <1>2 DEF Popped, m
  <2> QED  BY <1>3, <1>4, <2>1, <2>2 DEF l
<1>8. CASE ~(line = <<>> \/ (d # <<>> /\ Last(d) = line))
  <2> DEFINE u == Append(l, line)
             w == Append(d, line)
  <2>1. DistinctStep(d, line) = w /\ DistinctStep(l, line) = u
    <3>1. l # <<>> => d # <<>>
      BY <1>1, <1>2
    <3> QED  BY <1>5, <1>8, <3>1 DEF DistinctStep
  <2>2. /\ u \in Seq(T) /\ Len(u) = m + 1 /\ u[m + 1] = line
        /\ \A i \in 1 .. m : u[i] = l[i]
    BY <1>1, AppendProperties DEF m, T
  <2>3. /\ w \in Seq(T) /\ Len(w) = n + 1 /\ w[n + 1] = line
        /\ \A i \in 1 .. n : w[i] = d[i]
    BY AppendProperties DEF n, T
  <2>4. m < HistoryLimit => u = w
    BY <1>2
  <2> HIDE DEF u, w
  <2>5. \A i \in 1 .. m + 1 : u[i] = w[n - m + i]
    <3> TAKE i \in 1 .. m + 1
    <3>1. CASE i = m + 1
      <4>1. n - m + (m + 1) = n + 1
        BY <1>1
      <4> QED  BY <2>2, <2>3, <3>1, <4>1
    <3>2. CASE i # m + 1
      <4>1. i \in 1 .. m /\ n - m + i \in 1 .. n
        BY <1>1, <1>2, <3>2
      <4> QED  BY <1>2, <2>2, <2>3, <4>1
    <3> QED  BY <3>1, <3>2
  <2>6. CASE m < HistoryLimit
    <3>1. Popped(u) = u
      BY <1>1, <2>2, <2>6 DEF Popped
    <3>2. Behind(u, w)
      BY <1>1, <1>2, <2>2, <2>3, <2>4, <2>6 DEF Behind
    <3> QED  BY <1>3, <1>4, <2>1, <3>1, <3>2
  <2>7. CASE m = HistoryLimit
    <3>1. Popped(u) = Tail(u) /\ u # <<>>
      <4>1. Len(<<>>) = 0
        OBVIOUS
      <4> QED  BY <1>1, <2>2, <2>7, <4>1 DEF Popped
    <3> DEFINE v == Tail(u)
    <3>2. /\ v \in Seq(T) /\ Len(v) = m
          /\ \A i \in 1 .. m : v[i] = u[i + 1]
      <4>1. /\ v \in Seq(T) /\ Len(v) = Len(u) - 1
            /\ \A i \in 1 .. Len(v) : v[i] = u[i + 1]
        BY <2>2, <3>1, HeadTailProperties
      <4> HIDE DEF v
      <4> QED  BY <1>1, <2>2, <4>1
    <3> HIDE DEF v
    <3>3. \A i \in 1 .. m : v[i] = w[(n + 1) - m + i]
      <4> TAKE i \in 1 .. m
      <4>1. i + 1 \in 1 .. m + 1 /\ n - m + (i + 1) = (n + 1) - m + i
        BY <1>1
      <4> QED  BY <2>5, <3>2, <4>1
    <3>4. Behind(v, w)
      BY <1>1, <1>2, <2>3, <2>7, <3>2, <3>3 DEF Behind
    <3> QED  BY <1>3, <1>4, <2>1, <3>1, <3>4 DEF v
  <2> QED  BY <1>1, <1>2, <2>6, <2>7
<1> QED  BY <1>7, <1>8

\* Some lines more.
LEMMA MoreLines ==
  ASSUME NEW K, NEW h \in Histories(K), NEW d \in Seq(Seq(K)), NEW lines \in Seq(Seq(K)),
         Behind(h.list, d)
  PROVE  /\ Behind(FoldLeft(AddToHistory, h, lines).list, DistinctFrom(d, lines))
         /\ DistinctFrom(d, lines) \in Seq(Seq(K))
<1> DEFINE A == Histories(K)
           T == Seq(K)
           opA == [a \in A |-> [e \in T |-> AddToHistory(a, e)]]
           opD == [a \in Seq(T) |-> [e \in T |-> (IF e = <<>> \/ (a # <<>> /\ Last(a) = e) THEN a ELSE Append(a, e))]]
           n == Len(lines)
<1>1. FoldsTo(FoldLeft(AddToHistory, h, lines), A, opA, h, lines)
  BY HistoryFold
<1>2. FoldsTo(DistinctFrom(d, lines), Seq(T), opD, d, lines)
  BY DistinctFold
<1>3. \A a \in A, e \in T : opA[a][e] = AddToHistory(a, e)
  OBVIOUS
<1>4. \A a \in Seq(T), e \in T : opD[a][e] = DistinctStep(a, e)
  BY DEF DistinctStep
<1>5. n \in Nat /\ \A i \in 1 .. n : lines[i] \in T
  BY LenProperties, ElementOfSeq
<1> HIDE DEF opA, opD, A, T
<1>6. PICK f : /\ IsFold(f, opA, h, lines) /\ FoldLeft(AddToHistory, h, lines) = f[n]
               /\ \A i \in 0 .. n : f[i] \in A
  BY <1>1 DEF FoldsTo
<1>7. PICK g : /\ IsFold(g, opD, d, lines) /\ DistinctFrom(d, lines) = g[n]
               /\ \A i \in 0 .. n : g[i] \in Seq(T)
  BY <1>2 DEF FoldsTo
<1> DEFINE Follows(i) == i <= n => Behind(f[i].list, g[i])
           Ok == {i \in Nat : Follows(i)}
<1>8. 0 \in Ok
  <2>1. f[0] = h /\ g[0] = d
    BY <1>6, <1>7 DEF IsFold
  <2> QED  BY <2>1
<1>9. ASSUME NEW i \in Nat, i \in Ok PROVE i + 1 \in Ok
  <2>1. ASSUME i + 1 <= n PROVE Behind(f[i + 1].list, g[i + 1])
    <3>1. i + 1 \in 1 .. n /\ (i + 1) - 1 = i /\ i \in 0 .. n /\ i <= n
      BY <1>5, <2>1
    <3>2. f[i] \in A /\ g[i] \in Seq(T) /\ lines[i + 1] \in T /\ Behind(f[i].list, g[i])
      BY <1>5, <1>6, <1>7, <1>9, <3>1
    <3>3. f[i + 1] = opA[f[i]][lines[i + 1]] /\ g[i + 1] = opD[g[i]][lines[i + 1]]
      BY <1>6, <1>7, <3>1 DEF IsFold, n
    <3>4. f[i + 1] = AddToHistory(f[i], lines[i + 1]) /\ g[i + 1] = DistinctStep(g[i], lines[i + 1])
      BY <1>3, <1>4, <3>2, <3>3
    <3> QED  BY <3>2, <3>4, OneMoreLine DEF A, T
  <2> QED  BY <2>1
<1>10. Nat \subseteq Ok
  <2> HIDE DEF Ok
  <2> QED  BY <1>8, <1>9, AllNaturals
<1>11. Behind(f[n].list, g[n]) /\ g[n] \in Seq(T)
  BY <1>5, <1>7, <1>10
<1> QED  BY <1>6, <1>7, <1>11 DEF T

\* The distinct lines of those executed, and of some more.
LEMMA DistinctOf ==
  ASSUME NEW T, executed \in Seq(T), NEW lines \in Seq(T)
  PROVE  /\ Distinct \in Seq(T)
         /\ DistinctFrom(Distinct, lines) = DistinctFrom(<<>>, executed \o lines)
<1> DEFINE op == [a \in Seq(T) |-> [e \in T |-> (IF e = <<>> \/ (a # <<>> /\ Last(a) = e) THEN a ELSE Append(a, e))]]
<1>1. Distinct = DistinctFrom(<<>>, executed)
  BY DEF Distinct, DistinctFrom
<1>2. <<>> \in Seq(T) /\ executed \o lines \in Seq(T)
  BY ConcatProperties
<1>3. FoldsTo(DistinctFrom(<<>>, executed), Seq(T), op, <<>>, executed)
  BY <1>2, DistinctFold
<1>4. \A a \in Seq(T), e \in T : op[a][e] \in Seq(T)
  BY AppendProperties
<1>5. Distinct \in Seq(T)
  <2> HIDE DEF op
  <2> QED  BY <1>1, <1>2, <1>3, <1>4, FoldKeeps
<1>6. FoldsTo(DistinctFrom(Distinct, lines), Seq(T), op, Distinct, lines)
  BY <1>5, DistinctFold
<1>7. FoldsTo(DistinctFrom(<<>>, executed \o lines), Seq(T), op, <<>>, executed \o lines)
  BY <1>2, DistinctFold
<1>8. DistinctFrom(Distinct, lines) = DistinctFrom(<<>>, executed \o lines)
  <2>1. FoldsTo(Distinct, Seq(T), op, <<>>, executed)
    BY <1>1, <1>3
  <2> HIDE DEF op
  <2> QED  BY <1>6, <1>7, <2>1, FoldsConcat
<1> QED  BY <1>5, <1>8

\* What the session needs of its history and of its cursor.
HistoryInv == Behind(history, Distinct) /\ cursor \in 1 .. Len(history) + 1

\* update() keeps that.
LEMMA UpdateKeepsHistory ==
  ASSUME TypeOK, HistoryInv, setting' = setting,
         NEW taken \in Settings[setting].segments, NEW ok, Update(taken, ok)
  PROVE  /\ HistoryInv' /\ history' \in Seq(Texts) /\ executed' \in Seq(Texts)
         /\ buffer' \in Texts /\ received' \in Seq(Keys)
<1> DEFINE K == Chars
           T == Seq(Chars)
           lines == NewLines(taken, ok)
           start == StartOfHistory(taken, ok)
           end == NewHistory(taken, ok)
<1>1. /\ "lf" \in K /\ Commands \in Seq(Seq(K)) /\ Texts = T
      /\ buffer \in Seq(K) /\ history \in Seq(T) /\ executed \in Seq(T)
      /\ cursor \in 1 .. Len(history) + 1 /\ taken \in Seq(K)
      /\ received \in Seq(Keys) /\ taken \in Seq(Keys)
  BY CommandsAre, SegmentIs DEF TypeOK
<1>2. /\ lines \in Seq(T) /\ start \in Histories(K) /\ end \in Histories(K)
      /\ CutOf(taken, ok) \in Cuts(K) /\ Walk(taken, ok).cursor \in 1 .. Len(history) + 1
  BY <1>1, StageTypes
<1>3. start.list = history /\ start.cursor \in 1 .. Len(start.list) + 1
  BY <1>1, <1>2 DEF StartOfHistory
<1>4. /\ history' = end.list /\ cursor' = end.cursor /\ executed' = executed \o lines
      /\ buffer' = CutOf(taken, ok).rest /\ received' = received \o taken
  BY UpdateIs
<1>5. end = FoldLeft(AddToHistory, start, lines)
  BY DEF NewHistory
<1> HIDE DEF K, T, lines, start, end
<1>6. /\ Distinct \in Seq(T)
      /\ DistinctFrom(Distinct, lines) = DistinctFrom(<<>>, executed \o lines)
  BY <1>1, <1>2, DistinctOf
<1>7. Behind(end.list, DistinctFrom(Distinct, lines))
  <2>1. Behind(start.list, Distinct)
    BY <1>3 DEF HistoryInv
  <2>2. Distinct \in Seq(Seq(K)) /\ lines \in Seq(Seq(K))
    BY <1>2, <1>6 DEF T, K
  <2> DEFINE d == Distinct
  <2> HIDE DEF d
  <2>3. Behind(FoldLeft(AddToHistory, start, lines).list, DistinctFrom(d, lines))
    BY <1>2, <2>1, <2>2, MoreLines DEF d
  <2> QED  BY <1>5, <2>3 DEF d
<1>8. Distinct' = DistinctFrom(<<>>, executed')
  BY DEF Distinct, DistinctFrom, FoldLeft, MapThenFoldSet
<1>9. Behind(history', Distinct')
  BY <1>4, <1>6, <1>7, <1>8
<1>10. end.cursor \in 1 .. Len(end.list) + 1
  <2> DEFINE op == [a \in Histories(K) |-> [e \in T |-> AddToHistory(a, e)]]
             Pointing == {h \in Histories(K) : h.cursor \in 1 .. Len(h.list) + 1}
  <2>1. FoldsTo(end, Histories(K), op, start, lines)
    <3>1. FoldsTo(FoldLeft(AddToHistory, start, lines), Histories(K),
                  [a \in Histories(K) |-> [e \in Seq(K) |-> AddToHistory(a, e)]], start, lines)
      <4>1. start \in Histories(K) /\ lines \in Seq(Seq(K))
        BY <1>2 DEF T, K
      <4> QED  BY <4>1, HistoryFold
    <3> QED  BY <1>5, <3>1 DEF T, K
  <2>2. ASSUME NEW a \in Pointing, NEW e \in T PROVE op[a][e] \in Pointing
    <3> DEFINE b == AddToHistory(a, e)
    <3>1. /\ b \in Histories(K) /\ b.list = Popped(Longer(a, e))
          /\ b.cursor = Len(Popped(Longer(a, e))) + 1
      <4>1. a \in Histories(K) /\ e \in Seq(K)
        BY <2>2 DEF T, K
      <4> QED  BY <4>1, AddToHistoryIs
    <3>2. op[a][e] = b
      BY <2>2
    <3>3. b.list \in Seq(Seq(K)) /\ Len(b.list) \in Nat
      BY <3>1, LenProperties DEF Histories
    <3> HIDE DEF b, op
    <3>4. b.cursor \in 1 .. Len(b.list) + 1
      BY <3>1, <3>3
    <3> QED  BY <3>1, <3>2, <3>4
  <2>3. start \in Pointing
    BY <1>2, <1>3
  <2> HIDE DEF op, Pointing
  <2>4. end \in Pointing
    BY <1>2, <2>1, <2>2, <2>3, FoldKeeps
  <2> QED  BY <2>4 DEF Pointing
<1>11. executed \o lines \in Seq(T) /\ received \o taken \in Seq(Keys)
  BY <1>1, <1>2, ConcatProperties
<1>12. Texts' = Texts /\ Keys' = Keys
  BY DEF Texts, Keys
<1> QED  BY <1>1, <1>2, <1>4, <1>9, <1>10, <1>11, <1>12 DEF HistoryInv, Histories, Cuts, K, T

-----------------------------------------------------------------------------
(* The counters.                                                           *)

\* The lines TelnetMessageCallback succeeds with.
Fine == Known \cup {Help, Quit, <<>>}

\* How many lines succeed, and fail.
LEMMA GoodIs ==
  ASSUME NEW T, NEW lines \in Seq(T)
  PROVE  /\ Good(lines) = Cardinality(Occurrences(lines, Fine))
         /\ Good(lines) \in Nat /\ Len(lines) - Good(lines) \in Nat
         /\ Cardinality({i \in DOMAIN lines : ~Succeeds(lines[i])})
              = Cardinality(Occurrences(lines, T \ Fine))
         /\ Cardinality(Occurrences(lines, T \ Fine)) = Len(lines) - Good(lines)
<1>1. {i \in DOMAIN lines : Succeeds(lines[i])} = Occurrences(lines, Fine)
  BY DEF Succeeds, Fine, Occurrences
<1>2. {i \in DOMAIN lines : ~Succeeds(lines[i])} = Occurrences(lines, T \ Fine)
  <2>1. \A i \in DOMAIN lines : lines[i] \in T
    BY LenProperties, ElementOfSeq
  <2> QED  BY <2>1 DEF Succeeds, Fine, Occurrences
<1>3. /\ Cardinality(Occurrences(lines, Fine)) \in Nat
      /\ Cardinality(Occurrences(lines, T \ Fine)) \in Nat
  BY OccurrencesTypes
<1>4. Cardinality(Occurrences(lines, Fine)) + Cardinality(Occurrences(lines, T \ Fine)) = Len(lines)
  BY OccurrencesSplit
<1>5. Len(lines) \in Nat
  BY LenProperties
<1>6. Good(lines) = Cardinality(Occurrences(lines, Fine))
  BY <1>1 DEF Good
<1> DEFINE g == Good(lines)
           o == Cardinality(Occurrences(lines, T \ Fine))
<1>7. g \in Nat /\ o \in Nat /\ g + o = Len(lines)
  BY <1>3, <1>4, <1>6
<1> HIDE DEF g, o
<1>8. Len(lines) - g = o
  BY <1>5, <1>7
<1> QED  BY <1>2, <1>5, <1>6, <1>7, <1>8 DEF g, o

\* The number of sends is a number.
LEMMA UpsIs ==
  ASSUME NEW K, "lf" \in K, Commands \in Seq(Seq(K)), buffer \in Seq(K),
         history \in Seq(Seq(K)), cursor \in 1 .. Len(history) + 1,
         NEW taken \in Seq(K), NEW ok
  PROVE  Ups(taken, ok) \in Nat
<1> DEFINE lines == NewLines(taken, ok)
           n == Len(lines)
           replies == [i \in 1 .. n |-> Replies(lines[i])]
<1>1. /\ lines \in Seq(Seq(K)) /\ Walk(taken, ok).sends \in Nat
      /\ Completed(taken, ok).sends \in Nat
  BY StageTypes DEF Tabs
<1>2. n \in Nat /\ DOMAIN lines = 1 .. n /\ Len(Commands) \in Nat
  BY <1>1, LenProperties
<1> HIDE DEF lines, n
<1>3. replies \in Seq(Nat)
  <2>1. \A i \in 1 .. n : Replies(lines[i]) \in Nat
    BY <1>2 DEF Replies
  <2> QED  BY <1>2, <2>1
<1>4. Sum(replies) \in Nat
  <2> DEFINE op == [a \in Nat |-> [e \in Nat |-> (a + e)]]
  <2>1. FoldsTo(Sum(replies), Nat, op, 0, replies)
    <3> HIDE DEF replies
    <3> QED  BY <1>3, SumFold
  <2>2. \A a \in Nat, e \in Nat : op[a][e] \in Nat
    OBVIOUS
  <2>3. 0 \in Nat
    OBVIOUS
  <2> HIDE DEF op, replies
  <2> QED  BY <1>3, <2>1, <2>2, <2>3, FoldKeeps
<1> DEFINE sum == Sum(replies)
           each == LineSends(CutOf(taken, ok).rest)
           prompt == PromptSends(CutOf(taken, ok).rest)
<1>5. each \in Nat /\ prompt \in Nat
  BY LineSendsIs
<1>6. Sends(taken, ok) =
        (IF taken[1] = "iac" THEN 0 ELSE 1)
          + (IF Interactive THEN Walk(taken, ok).sends + Completed(taken, ok).sends ELSE 0)
          + sum * each
          + (IF /\ Interactive
                /\ \/ Walk(taken, ok).reprint
                   \/ Edited(taken, ok) # Plain(taken, ok)
                   \/ First(Edited(taken, ok), {"tab"}) # 0
             THEN 2 + prompt ELSE 0)
  BY <1>2 DEF Sends, lines
<1>7. sum \in Nat
  BY <1>4
<1> HIDE DEF sum, each, prompt
<1>8. sum * each \in Nat
  BY <1>5, <1>7
<1>9. Sends(taken, ok) \in Nat
  <2> DEFINE product == sum * each
             again == /\ Interactive
                      /\ \/ Walk(taken, ok).reprint
                         \/ Edited(taken, ok) # Plain(taken, ok)
                         \/ First(Edited(taken, ok), {"tab"}) # 0
  <2> HIDE DEF product, again
  <2>1. Sends(taken, ok) =
        (IF taken[1] = "iac" THEN 0 ELSE 1)
          + (IF Interactive THEN Walk(taken, ok).sends + Completed(taken, ok).sends ELSE 0)
          + product + (IF again THEN 2 + prompt ELSE 0)
    BY <1>6 DEF product, again
  <2>2. product \in Nat
    BY <1>8 DEF product
  <2> DEFINE echo == IF taken[1] = "iac" THEN 0 ELSE 1
             keys == IF Interactive THEN Walk(taken, ok).sends + Completed(taken, ok).sends ELSE 0
             reprints == IF again THEN 2 + prompt ELSE 0
  <2>3. echo \in Nat /\ keys \in Nat /\ reprints \in Nat
    BY <1>1, <1>5
  <2>4. Sends(taken, ok) = echo + keys + product + reprints
    BY <2>1
  <2> HIDE DEF echo, keys, reprints
  <2> QED  BY <2>2, <2>3, <2>4
<1> QED  BY <1>9 DEF Ups

\* The lines that fail, of those executed and of some more.
LEMMA FailuresAdd ==
  ASSUME NEW T, NEW s \in Seq(T), NEW t \in Seq(T)
  PROVE  /\ Len(s \o t) = Len(s) + Len(t)
         /\ Cardinality({i \in DOMAIN (s \o t) : ~Succeeds((s \o t)[i])})
              = Cardinality({i \in DOMAIN s : ~Succeeds(s[i])}) + (Len(t) - Good(t))
<1>1. s \o t \in Seq(T) /\ Len(s \o t) = Len(s) + Len(t)
  BY ConcatProperties
<1>2. Cardinality(Occurrences(s \o t, T \ Fine))
        = Cardinality(Occurrences(s, T \ Fine)) + Cardinality(Occurrences(t, T \ Fine))
  BY OccurrencesConcat
<1>3. Cardinality({i \in DOMAIN (s \o t) : ~Succeeds((s \o t)[i])})
        = Cardinality(Occurrences(s \o t, T \ Fine))
  BY <1>1, GoodIs
<1>4. Cardinality({i \in DOMAIN s : ~Succeeds(s[i])}) = Cardinality(Occurrences(s, T \ Fine))
  BY GoodIs
<1>5. Cardinality(Occurrences(t, T \ Fine)) = Len(t) - Good(t)
  BY GoodIs
<1> QED  BY <1>1, <1>2, <1>3, <1>4, <1>5

\* Nothing is accounted for before initialise(), and its banner never is.
Accounts ==
  /\ TotalsAddUp
  /\ phase = "new" => sent = 0 /\ totals.up = 0
  /\ phase = "accepted" => sent = Banner /\ totals.up = 0

\* The banner is a number of sends.
LEMMA BannerIs == Banner \in Nat
<1>1. Len(Commands) \in Nat
  BY CommandsAssumption, LenProperties
<1>2. LineSends(<<>>) \in Nat
  BY LineSendsIs
<1> DEFINE n == 4 + Len(Commands)
           p == LineSends(<<>>)
<1>3. n \in Nat /\ p \in Nat
  BY <1>1, <1>2
<1>4. Banner = 3 + (IF Hooked THEN n * p ELSE 0)
  BY DEF Banner
<1> HIDE DEF n, p
<1>5. n * p \in Nat
  BY <1>3
<1> QED  BY <1>4, <1>5

\* What is true in every state: types, the history and the counters.
LineInv == TypeOK /\ HistoryInv /\ Accounts

\* Counters added to counters.
LEMMA CountersAdd ==
  ASSUME NEW F, NEW s \in [F -> Nat], NEW t \in [F -> Nat]
  PROVE  [f \in DOMAIN s |-> s[f] + t[f]] \in [F -> Nat]
  OBVIOUS

\* The session begins in such a state.
LEMMA LineInvInit == Init => LineInv
<1> SUFFICES ASSUME Init PROVE LineInv
  OBVIOUS
<1>1. /\ setting \in DOMAIN Settings /\ phase = "new" /\ timedOut = FALSE
      /\ buffer = <<>> /\ history = <<>> /\ cursor = 1
      /\ stats = NoStats /\ totals = NoStats
      /\ received = <<>> /\ executed = <<>> /\ sent = 0
  BY DEF Init
<1>2. TypeOK
  <2>1. NoStats \in [{"up", "down", "succ", "fail"} -> Nat]
    BY DEF NoStats
  <2>2. /\ <<>> \in Seq(Keys) /\ <<>> \in Texts /\ <<>> \in Seq(Texts)
        /\ 1 \in 1 .. Len(<<>>) + 1
    BY DEF Texts
  <2> QED  BY <1>1, <2>1, <2>2 DEF TypeOK
<1>3. Distinct = <<>>
  <2>1. FoldsTo(DistinctFrom(<<>>, <<>>), Seq(Texts),
                [a \in Seq(Texts) |-> [e \in Texts |-> (IF e = <<>> \/ (a # <<>> /\ Last(a) = e) THEN a ELSE Append(a, e))]],
                <<>>, <<>>)
    <3>1. <<>> \in Seq(Texts)
      OBVIOUS
    <3> QED  BY <3>1, DistinctFold
  <2>2. Len(<<>>) = 0
    OBVIOUS
  <2>3. DistinctFrom(<<>>, <<>>) = <<>>
    BY <2>1, <2>2, FoldsNone
  <2> QED  BY <1>1, <2>3 DEF Distinct, DistinctFrom
<1>4. HistoryInv
  BY <1>1, <1>3, LimitsAssumption DEF HistoryInv, Behind
<1>5. {i \in DOMAIN executed : ~Succeeds(executed[i])} = {} /\ Cardinality({}) = 0
  BY <1>1, FS_EmptySet
<1>6. Accounts
  BY <1>1, <1>5 DEF Accounts, TotalsAddUp, NoStats
<1> QED  BY <1>2, <1>4, <1>6 DEF LineInv

\* initialise() keeps it.
LEMMA LineInvInitialise == LineInv /\ Initialise => LineInv'
<1> SUFFICES ASSUME LineInv, Initialise PROVE LineInv'
  OBVIOUS
<1>1. /\ phase = "new" /\ phase' = "accepted" /\ sent' = sent + Banner
      /\ stats' = [stats EXCEPT !.up = @ + Banner]
      /\ setting' = setting /\ buffer' = buffer /\ history' = history /\ cursor' = cursor
      /\ totals' = totals /\ timedOut' = timedOut /\ received' = received
      /\ executed' = executed
  BY DEF Initialise
<1>2. Banner \in Nat /\ Banner' = Banner
  BY <1>1, BannerIs DEF Banner, Hooked, LineSends, Interactive, PromptSends
<1>3. Keys' = Keys /\ Texts' = Texts
  BY <1>1 DEF Keys, Texts
<1>4. TypeOK'
  <2>1. stats' \in [{"up", "down", "succ", "fail"} -> Nat]
    <3>1. stats \in [{"up", "down", "succ", "fail"} -> Nat]
      BY DEF LineInv, TypeOK
    <3>2. stats.up + Banner \in Nat
      BY <1>2, <3>1
    <3> QED  BY <1>1, <3>1, <3>2
  <2>2. phase' \in {"new", "accepted", "live"} /\ sent' \in Nat
    BY <1>1, <1>2 DEF LineInv, TypeOK
  <2>3. totals' \in [{"up", "down", "succ", "fail"} -> Nat]
    BY <1>1 DEF LineInv, TypeOK
  <2> QED  BY <1>1, <1>3, <2>1, <2>2, <2>3 DEF LineInv, TypeOK
<1>5. Distinct' = Distinct
  BY <1>1 DEF Distinct, FoldLeft, MapThenFoldSet
<1>6. HistoryInv'
  BY <1>1, <1>5 DEF LineInv, HistoryInv
<1>7. Accounts'
  BY <1>1, <1>2 DEF LineInv, Accounts, TotalsAddUp
<1> QED  BY <1>4, <1>6, <1>7 DEF LineInv

\* update() without bytes keeps it.
LEMMA LineInvUpdateIdle == LineInv /\ UpdateIdle => LineInv'
<1> SUFFICES ASSUME LineInv, UpdateIdle PROVE LineInv'
  OBVIOUS
<1>1. /\ phase # "new" /\ phase' = "live" /\ stats' = NoStats
      /\ totals' = [f \in DOMAIN totals |-> totals[f] + NoStats[f]]
      /\ setting' = setting /\ buffer' = buffer /\ history' = history /\ cursor' = cursor
      /\ timedOut' = timedOut /\ received' = received
      /\ executed' = executed /\ sent' = sent
  BY DEF UpdateIdle, Consume, StartingStats
<1>2. Banner' = Banner
  BY <1>1 DEF Banner, Hooked, LineSends, Interactive, PromptSends
<1>3. Keys' = Keys /\ Texts' = Texts
  BY <1>1 DEF Keys, Texts
<1>4. totals' = totals
  <2>1. totals \in [{"up", "down", "succ", "fail"} -> Nat]
    BY DEF LineInv, TypeOK
  <2>2. \A f \in {"up", "down", "succ", "fail"} : NoStats[f] = 0
    BY DEF NoStats
  <2> QED  BY <1>1, <2>1, <2>2
<1>5. TypeOK'
  BY <1>1, <1>3, <1>4 DEF LineInv, TypeOK, NoStats
<1>6. Distinct' = Distinct
  BY <1>1 DEF Distinct, FoldLeft, MapThenFoldSet
<1>7. HistoryInv'
  BY <1>1, <1>6 DEF LineInv, HistoryInv
<1>8. Accounts'
  <2>1. phase \in {"accepted", "live"} /\ sent \in Nat /\ Banner \in Nat
    BY <1>1, BannerIs DEF LineInv, TypeOK
  <2>2. TotalsAddUp'
    BY <1>1, <1>2, <1>4, <2>1 DEF LineInv, Accounts, TotalsAddUp
  <2> QED  BY <1>1, <2>2 DEF Accounts
<1> QED  BY <1>5, <1>7, <1>8 DEF LineInv

\* update() with bytes keeps it.
LEMMA LineInvUpdate ==
  ASSUME LineInv, NEW taken \in Settings[setting].segments, NEW ok, Update(taken, ok)
  PROVE  LineInv'
<1> DEFINE lines == NewLines(taken, ok)
           good == Good(lines)
           up == Ups(taken, ok)
<1>1. /\ phase # "new" /\ phase' = "live" /\ setting' = setting
      /\ executed' = executed \o lines
      /\ timedOut' = (Quit \in Range(lines)) /\ sent' = sent + up
      /\ stats' = [up |-> 0 + up, down |-> 0 + Len(taken), succ |-> 0 + good,
                   fail |-> 0 + Len(lines) - good]
      /\ totals' = [f \in DOMAIN totals |-> totals[f] + stats'[f]]
  BY UpdateIs
<1>2. /\ HistoryInv' /\ history' \in Seq(Texts) /\ executed' \in Seq(Texts)
      /\ buffer' \in Texts /\ received' \in Seq(Keys)
  BY <1>1, UpdateKeepsHistory DEF LineInv
<1>3. /\ Texts = Seq(Chars) /\ buffer \in Seq(Chars) /\ history \in Seq(Seq(Chars))
      /\ executed \in Seq(Texts) /\ cursor \in 1 .. Len(history) + 1
      /\ "lf" \in Chars /\ Commands \in Seq(Seq(Chars))
      /\ taken \in Seq(Chars) /\ Len(taken) \in Nat
  BY CommandsAre, SegmentIs DEF LineInv, TypeOK
<1>4. lines \in Seq(Texts)
  BY <1>3, StageTypes
<1>5. up \in Nat
  BY <1>3, UpsIs
<1>6. good \in Nat /\ Len(lines) - good \in Nat /\ Len(lines) \in Nat
  BY <1>4, GoodIs, LenProperties
<1>7. Banner' = Banner /\ Banner \in Nat
  BY <1>1, BannerIs DEF Banner, Hooked, LineSends, Interactive, PromptSends
<1>8. Keys' = Keys /\ Texts' = Texts
  BY <1>1 DEF Keys, Texts
<1>9. /\ Len(executed') = Len(executed) + Len(lines)
      /\ Cardinality({i \in DOMAIN executed' : ~Succeeds(executed'[i])})
           = Cardinality({i \in DOMAIN executed : ~Succeeds(executed[i])})
               + (Len(lines) - good)
  BY <1>1, <1>3, <1>4, FailuresAdd
<1> HIDE DEF lines, good, up
<1>10. stats' \in [{"up", "down", "succ", "fail"} -> Nat]
  <2>1. 0 + Len(lines) - good \in Nat /\ 0 + up \in Nat /\ 0 + Len(taken) \in Nat /\ 0 + good \in Nat
    BY <1>3, <1>5, <1>6
  <2> QED  BY <1>1, <2>1
<1>11. totals \in [{"up", "down", "succ", "fail"} -> Nat]
  BY DEF LineInv, TypeOK
<1>12. totals' \in [{"up", "down", "succ", "fail"} -> Nat]
  <2>1. totals' = [f \in DOMAIN totals |-> totals[f] + stats'[f]]
    BY <1>1
  <2> DEFINE F == {"up", "down", "succ", "fail"}
             s == stats'
  <2>2. s \in [F -> Nat] /\ totals \in [F -> Nat]
    BY <1>10, <1>11
  <2> HIDE DEF F, s
  <2>3. [f \in DOMAIN totals |-> totals[f] + s[f]] \in [F -> Nat]
    BY <2>2, CountersAdd
  <2> QED  BY <2>1, <2>3 DEF F, s
<1>13. sent' \in Nat /\ timedOut' \in BOOLEAN
  BY <1>1, <1>5 DEF LineInv, TypeOK
<1>14. TypeOK'
  BY <1>1, <1>2, <1>8, <1>10, <1>12, <1>13 DEF LineInv, TypeOK, HistoryInv
<1>15. /\ totals'.succ = totals.succ + (0 + good)
       /\ totals'.fail = totals.fail + (0 + Len(lines) - good)
       /\ totals'.up = totals.up + (0 + up)
  BY <1>1, <1>11
<1>16. totals.succ \in Nat /\ totals.fail \in Nat /\ totals.up \in Nat /\ sent \in Nat
       /\ Len(executed) \in Nat
  BY <1>3, <1>11, LenProperties DEF LineInv, TypeOK
<1>17. TotalsAddUp'
  <2>1. totals'.succ + totals'.fail = Len(executed')
    <3>1. totals.succ + totals.fail = Len(executed)
      BY DEF LineInv, Accounts, TotalsAddUp
    <3> DEFINE n == Len(lines)
               s == totals.succ
               f == totals.fail
    <3>2. n \in Nat /\ good \in Nat /\ s \in Nat /\ f \in Nat
      BY <1>6, <1>16
    <3>3. totals'.succ = s + (0 + good) /\ totals'.fail = f + (0 + n - good)
      BY <1>15
    <3>4. Len(executed') = (s + f) + n
      BY <1>9, <3>1
    <3> HIDE DEF n, s, f
    <3>5. (s + (0 + good)) + (f + (0 + n - good)) = (s + f) + n
      BY <3>2
    <3> QED  BY <3>3, <3>4, <3>5
  <2>2. totals'.fail = Cardinality({i \in DOMAIN executed' : ~Succeeds(executed'[i])})
    <3>1. totals.fail = Cardinality({i \in DOMAIN executed : ~Succeeds(executed[i])})
      BY DEF LineInv, Accounts, TotalsAddUp
    <3>2. 0 + Len(lines) - good = Len(lines) - good
      BY <1>6
    <3>3. totals'.fail = totals.fail + (Len(lines) - good)
      BY <1>15, <3>2
    <3> HIDE DEF Succeeds
    <3> QED  BY <1>9, <3>1, <3>3
  <2>3. totals'.up = sent' - Banner'
    <3>1. totals.up = sent - Banner
      BY <1>1, <1>7, <1>16 DEF LineInv, Accounts, TotalsAddUp, TypeOK
    <3> QED  BY <1>1, <1>5, <1>7, <1>15, <1>16, <3>1
  <2> QED  BY <2>1, <2>2, <2>3 DEF TotalsAddUp
<1> QED  BY <1>1, <1>2, <1>14, <1>17 DEF LineInv, Accounts

\* The invariant holds in every state: by its lemmas, one for each action.
THEOREM LineInvariant == Spec => []LineInv
<1>1. Init => LineInv
  BY LineInvInit
<1>2. LineInv /\ [Next]_vars => LineInv'
  <2> SUFFICES ASSUME LineInv, [Next]_vars PROVE LineInv'
    OBVIOUS
  <2>1. CASE Initialise
    BY <2>1, LineInvInitialise
  <2>2. CASE UpdateIdle
    BY <2>2, LineInvUpdateIdle
  <2>3. ASSUME NEW taken \in Settings[setting].segments, NEW ok \in Settings[setting].sends,
               Update(taken, ok)
        PROVE  LineInv'
    BY <2>3, LineInvUpdate
  <2>4. CASE UNCHANGED vars
    <3>1. Distinct' = Distinct /\ Banner' = Banner /\ Keys' = Keys /\ Texts' = Texts
      BY <2>4 DEF vars, Distinct, FoldLeft, MapThenFoldSet, Banner, Hooked, LineSends,
                  Interactive, PromptSends, Keys, Texts
    <3> QED  BY <2>4, <3>1 DEF vars, LineInv, TypeOK, HistoryInv, Accounts, TotalsAddUp
  <2> QED  BY <2>1, <2>2, <2>3, <2>4 DEF Next
<1> QED  BY <1>1, <1>2, PTL DEF Spec

\* The variables of a session have their types, and m_historyCursor points into
\* m_history or to its end.
THEOREM TypeCorrect == Spec => []TypeOK
<1>1. LineInv => TypeOK
  BY DEF LineInv
<1> QED  BY <1>1, LineInvariant, PTL

\* addToHistory(): m_history is always the last HistoryLimit of the lines executed,
\* without empty ones and immediate repetitions.
THEOREM HistoryStaysRecent == Spec => []HistoryIsRecent
<1>1. LineInv => HistoryIsRecent
  <2> SUFFICES ASSUME LineInv PROVE HistoryIsRecent
    OBVIOUS
  <2>1. history \in Seq(Texts) /\ executed \in Seq(Texts) /\ Behind(history, Distinct)
    BY DEF LineInv, TypeOK, HistoryInv
  <2>2. Distinct \in Seq(Texts)
    <3>1. <<>> \in Seq(Texts)
      OBVIOUS
    <3> QED  BY <2>1, <3>1, DistinctOf
  <2>3. IsSuffix(history, Distinct)
    BY <2>1, <2>2, SuffixIs DEF Behind
  <2> QED  BY <2>1, <2>3 DEF LineInv, HistoryIsRecent, Behind
<1> QED  BY <1>1, LineInvariant, PTL

\* TelnetStats::consumeStats(): every line is counted once, and everything that was
\* sent but the banner.
THEOREM TotalsAlwaysAddUp == Spec => []TotalsAddUp
<1>1. LineInv => TotalsAddUp
  BY DEF LineInv, Accounts
<1> QED  BY <1>1, LineInvariant, PTL

-----------------------------------------------------------------------------
(* What the keys mean: the lines the user typed.                           *)

\* What was typed: a line after some lines, with n keys to skip.
Line(l, lines, n) == [line |-> l, lines |-> lines, skip |-> n]
Start(lines) == Line(<<>>, lines, 0)

\* They are meanings.
LEMMA StartIs ==
  ASSUME NEW K, NEW lines \in Seq(Seq(K))
  PROVE  Start(lines) \in Meanings(K) /\ Start(lines).skip = 0
<1>1. <<>> \in Seq(K) /\ 0 \in Nat
  OBVIOUS
<1> QED  BY <1>1 DEF Start, Line, Meanings

\* What is in them.
LEMMA LineIs ==
  ASSUME NEW K, NEW l \in Seq(K), NEW lines \in Seq(Seq(K)), NEW n \in Nat
  PROVE  /\ Line(l, lines, n) \in Meanings(K) /\ Line(l, lines, n).line = l
         /\ Line(l, lines, n).lines = lines /\ Line(l, lines, n).skip = n
  BY DEF Line, Meanings

\* Every meaning is one.
LEMMA LinesAll ==
  ASSUME NEW K, NEW e \in Meanings(K)
  PROVE  /\ e = Line(e.line, e.lines, e.skip)
         /\ e.line \in Seq(K) /\ e.lines \in Seq(Seq(K)) /\ e.skip \in Nat
  BY DEF Line, Meanings

\* What TypeKey does with each kind of key, field by field.
LEMMA KeyMeans ==
  ASSUME NEW l, NEW lines, NEW n, NEW k, k # "nul"
  PROVE  TypeKey(Line(l, lines, n), k)
           = IF n > 0 THEN Line(l, lines, n - 1)
             ELSE IF k = "iac" THEN Line(l, lines, 2)
             ELSE IF Interactive /\ k \in {"bs", "del"}
             THEN Line(IF l = <<>> THEN <<>> ELSE Front(l), lines, n)
             ELSE IF Interactive /\ k = "tab"
             THEN Line(IF Cardinality(Matches(l)) = 1 THEN Match(l) ELSE l, lines, n)
             ELSE IF k = "lf" /\ l # <<>> /\ Last(l) = "cr"
             THEN Line(<<>>, Append(lines, Front(l)), n)
             ELSE Line(Append(l, k), lines, n)
<1> DEFINE e == Line(l, lines, n)
<1>1. /\ e.line = l /\ e.lines = lines /\ e.skip = n
      /\ e = [line |-> e.line, lines |-> e.lines, skip |-> e.skip]
  BY DEF Line
<1>2. TypeKey(e, k)
        = IF e.skip > 0 THEN [e EXCEPT !.skip = @ - 1]
          ELSE IF k = "iac" THEN [e EXCEPT !.skip = 2]
          ELSE IF Interactive /\ k \in {"bs", "del"}
          THEN [e EXCEPT !.line = IF e.line = <<>> THEN <<>> ELSE Front(e.line)]
          ELSE IF Interactive /\ k = "tab"
          THEN [e EXCEPT !.line =
                  IF Cardinality(Matches(e.line)) = 1 THEN Match(e.line) ELSE e.line]
          ELSE IF k = "lf" /\ e.line # <<>> /\ Last(e.line) = "cr"
          THEN [e EXCEPT !.lines = Append(@, Front(e.line)), !.line = <<>>]
          ELSE [e EXCEPT !.line = Append(@, k)]
  BY DEF TypeKey
<1> DEFINE front == Front(l)
           match == Match(l)
           one == Cardinality(Matches(l)) = 1
           longer == Append(l, k)
           last == Last(l)
           more == Append(lines, front)
<1> HIDE DEF front, match, one, longer, last, more, e
<1>3. TypeKey(e, k)
        = IF n > 0 THEN [line |-> l, lines |-> lines, skip |-> n - 1]
          ELSE IF k = "iac" THEN [line |-> l, lines |-> lines, skip |-> 2]
          ELSE IF Interactive /\ k \in {"bs", "del"}
          THEN [line |-> IF l = <<>> THEN <<>> ELSE front, lines |-> lines, skip |-> n]
          ELSE IF Interactive /\ k = "tab"
          THEN [line |-> IF one THEN match ELSE l, lines |-> lines, skip |-> n]
          ELSE IF k = "lf" /\ l # <<>> /\ last = "cr"
          THEN [line |-> <<>>, lines |-> more, skip |-> n]
          ELSE [line |-> longer, lines |-> lines, skip |-> n]
  BY <1>1, <1>2 DEF front, match, one, longer, last, more
<1> QED  BY <1>3 DEF Line, front, match, one, longer, last, more, e

\* A negotiation begins.
LEMMA KeyBegins ==
  ASSUME NEW l, NEW lines, NEW k, k = "iac"
  PROVE  TypeKey(Line(l, lines, 0), k) = Line(l, lines, 2)
  BY KeyMeans

\* A backspace takes a key back.
LEMMA KeyErases ==
  ASSUME NEW l, NEW lines, NEW k, Interactive, k \in {"bs", "del"}
  PROVE  TypeKey(Line(l, lines, 0), k) = Line(IF l = <<>> THEN <<>> ELSE Front(l), lines, 0)
  BY KeyMeans

\* A tab completes the line.
LEMMA KeyCompletes ==
  ASSUME NEW l, NEW lines, NEW k, Interactive, k = "tab"
  PROVE  TypeKey(Line(l, lines, 0), k) = Line(IF Cardinality(Matches(l)) = 1 THEN Match(l) ELSE l, lines, 0)
  BY KeyMeans

\* An LF after a CR ends the line.
LEMMA KeyEnds ==
  ASSUME NEW l, NEW lines, NEW k, k = "lf", l # <<>>, Last(l) = "cr"
  PROVE  TypeKey(Line(l, lines, 0), k) = Line(<<>>, Append(lines, Front(l)), 0)
  BY KeyMeans

\* Another key is one more on it.
LEMMA KeyTypes ==
  ASSUME NEW l, NEW lines, NEW k, k \notin {"iac", "nul"},
         ~Interactive \/ k \notin {"bs", "del", "tab"},
         ~(k = "lf" /\ l # <<>> /\ Last(l) = "cr")
  PROVE  TypeKey(Line(l, lines, 0), k) = Line(Append(l, k), lines, 0)
  BY KeyMeans

\* Keys, one after the other.
LEMMA TypedJoins ==
  ASSUME NEW K, "lf" \in K, Commands \in Seq(Seq(K)), NEW e \in Meanings(K),
         NEW s \in Seq(K), NEW t \in Seq(K)
  PROVE  /\ TypedFrom(e, s) \in Meanings(K)
         /\ TypedFrom(e, s \o t) = TypedFrom(TypedFrom(e, s), t)
<1> DEFINE A == Meanings(K)
           op == [a \in A |-> [k \in K |-> TypeKey(a, k)]]
           y == TypedFrom(e, s)
<1>1. FoldsTo(y, A, op, e, s)
  BY TypedFold
<1>2. \A a \in A, k \in K : op[a][k] \in A
  BY TypeKeyIs
<1>3. y \in A
  <2> HIDE DEF op, A, y
  <2> QED  BY <1>1, <1>2, FoldKeeps DEF A
<1>4. FoldsTo(TypedFrom(y, t), A, op, y, t)
  <2> HIDE DEF y
  <2> QED  BY <1>3, TypedFold
<1>5. s \o t \in Seq(K)
  BY ConcatProperties
<1>6. FoldsTo(TypedFrom(e, s \o t), A, op, e, s \o t)
  BY <1>5, TypedFold
<1>7. TypedFrom(e, s \o t) = TypedFrom(y, t)
  <2> HIDE DEF op, A, y
  <2> QED  BY <1>1, <1>4, <1>6, FoldsConcat
<1> QED  BY <1>3, <1>7

\* One key, two and three.
LEMMA TypedFew ==
  ASSUME NEW K, "lf" \in K, Commands \in Seq(Seq(K)), NEW e \in Meanings(K),
         NEW s \in Seq(K)
  PROVE  /\ Len(s) = 0 => TypedFrom(e, s) = e
         /\ Len(s) = 1 => TypedFrom(e, s) = TypeKey(e, s[1])
         /\ Len(s) = 2 => TypedFrom(e, s) = TypeKey(TypeKey(e, s[1]), s[2])
         /\ Len(s) = 3 => TypedFrom(e, s) = TypeKey(TypeKey(TypeKey(e, s[1]), s[2]), s[3])
<1> DEFINE A == Meanings(K)
           op == [a \in A |-> [k \in K |-> TypeKey(a, k)]]
           y == TypedFrom(e, s)
<1>1. FoldsTo(y, A, op, e, s)
  BY TypedFold
<1>2. \A a \in A, k \in K : op[a][k] = TypeKey(a, k) /\ TypeKey(a, k) \in A
  BY TypeKeyIs
<1>3. \A i \in 1 .. Len(s) : s[i] \in K
  BY ElementOfSeq
<1> HIDE DEF op, A, y
<1>4. /\ Len(s) = 0 => y = e
      /\ Len(s) = 1 => y = op[e][s[1]]
      /\ Len(s) = 2 => y = op[op[e][s[1]]][s[2]]
      /\ Len(s) = 3 => y = op[op[op[e][s[1]]][s[2]]][s[3]]
  <2>1. Len(s) = 0 => y = e
    BY <1>1, FoldsNone
  <2>2. Len(s) = 1 => y = op[e][s[1]]
    BY <1>1, FoldsOne
  <2>3. Len(s) = 2 => y = op[op[e][s[1]]][s[2]]
    BY <1>1, FoldsTwo
  <2>4. Len(s) = 3 => y = op[op[op[e][s[1]]][s[2]]][s[3]]
    BY <1>1, FoldsThree
  <2> QED  BY <2>1, <2>2, <2>3, <2>4
<1>5. e \in A
  BY DEF A
<1>6. /\ Len(s) = 1 => y = TypeKey(e, s[1])
      /\ Len(s) = 2 => y = TypeKey(TypeKey(e, s[1]), s[2])
      /\ Len(s) = 3 => y = TypeKey(TypeKey(TypeKey(e, s[1]), s[2]), s[3])
  <2>1. Len(s) = 1 => s[1] \in K
    BY <1>3
  <2>2. Len(s) = 2 => s[1] \in K /\ s[2] \in K
    BY <1>3
  <2>3. Len(s) = 3 => s[1] \in K /\ s[2] \in K /\ s[3] \in K
    BY <1>3
  <2> QED  BY <1>2, <1>4, <1>5, <2>1, <2>2, <2>3
<1> QED  BY <1>4, <1>6 DEF y

\* NULs swapped, the keys mean the same.
LEMMA SwapNullsMeans ==
  ASSUME NEW K, "lf" \in K, Commands \in Seq(Seq(K)), NEW e \in Meanings(K), NEW s \in Seq(K)
  PROVE  /\ SwapNulls(s) \in Seq(K \ {"nul"}) /\ SwapNulls(s) \in Seq(K)
         /\ TypedFrom(e, SwapNulls(s)) = TypedFrom(e, s)
<1> DEFINE A == Meanings(K)
           op == [a \in A |-> [k \in K |-> TypeKey(a, k)]]
           t == SwapNulls(s)
           n == Len(s)
<1>1. t \in Seq(K) /\ Len(t) = n /\ \A i \in 1 .. n : t[i] = IF s[i] = "nul" THEN "lf" ELSE s[i]
  BY SwapNullsIs
<1>2. n \in Nat /\ \A i \in 1 .. n : s[i] \in K
  BY LenProperties, ElementOfSeq
<1>3. t \in Seq(K \ {"nul"})
  <2> HIDE DEF t, n
  <2>1. t \in [1 .. n -> K]
    BY <1>1, LenProperties
  <2>2. \A i \in 1 .. n : t[i] \in K \ {"nul"}
    BY <1>1, <1>2
  <2>3. t \in [1 .. n -> K \ {"nul"}]
    BY <2>1, <2>2
  <2> QED  BY <1>2, <2>3, SeqDef
<1>4. FoldsTo(TypedFrom(e, s), A, op, e, s)
  BY TypedFold
<1>5. FoldsTo(TypedFrom(e, t), A, op, e, t)
  <2> HIDE DEF t
  <2> QED  BY <1>1, TypedFold
<1>6. \A a \in A : TypeKey(a, "nul") = TypeKey(a, "lf")
  BY DEF TypeKey
<1>7. \A a \in A, k \in K : op[a][k] = TypeKey(a, k)
  OBVIOUS
<1> HIDE DEF t, n, op, A
<1>8. ASSUME NEW a \in A, NEW i \in 1 .. n PROVE op[a][t[i]] = op[a][s[i]]
  <2>1. s[i] \in K /\ t[i] \in K /\ t[i] = IF s[i] = "nul" THEN "lf" ELSE s[i]
    BY <1>1, <1>2
  <2>2. op[a][t[i]] = TypeKey(a, t[i]) /\ op[a][s[i]] = TypeKey(a, s[i])
    BY <1>7, <2>1
  <2> QED  BY <1>6, <2>1, <2>2
<1>9. TypedFrom(e, t) = TypedFrom(e, s)
  <2>1. Len(s) = n /\ Len(t) = n
    BY <1>1 DEF n
  <2> DEFINE y == TypedFrom(e, s)
             z == TypedFrom(e, t)
  <2> HIDE DEF y, z
  <2>2. z = y
    <3>1. FoldsTo(y, A, op, e, s) /\ FoldsTo(z, A, op, e, t)
      BY <1>4, <1>5 DEF y, z
    <3>2. \A a \in A : \A i \in 1 .. n : op[a][t[i]] = op[a][s[i]]
      BY <1>8
    <3>3. SameEffects(A, op, s, t, n)
      BY <3>2 DEF SameEffects
    <3> QED  BY <1>2, <2>1, <3>1, <3>3, FoldsSame
  <2> QED  BY <2>2 DEF y, z
<1> QED  BY <1>1, <1>3, <1>9 DEF t

\* Keys that stand for themselves, without a line among them, are the text typed.
Ordinary(u) ==
  /\ \A i \in 1 .. Len(u) : u[i] \notin {"iac", "nul"}
  /\ Interactive => \A i \in 1 .. Len(u) : u[i] \notin {"bs", "del", "tab"}
  /\ LineEnds(u) = {}

\* Typing ordinary keys appends them to the line, and does nothing else.
LEMMA TypedOrdinary ==
  ASSUME NEW K, "lf" \in K, Commands \in Seq(Seq(K)), NEW lines \in Seq(Seq(K)),
         NEW u \in Seq(K), Ordinary(u)
  PROVE  TypedFrom(Start(lines), u) = Line(u, lines, 0)
<1> DEFINE A == Meanings(K)
           op == [a \in A |-> [k \in K |-> TypeKey(a, k)]]
           n == Len(u)
           So(i) == Line(SubSeq(u, 1, i), lines, 0)
<1>1. n \in Nat /\ \A i \in 1 .. n : u[i] \in K
  BY LenProperties, ElementOfSeq
<1>2. Start(lines) \in A
  BY LineIs, EmptySeq DEF Start
<1>3. FoldsTo(TypedFrom(Start(lines), u), A, op, Start(lines), u)
  <2> DEFINE x == Start(lines)
  <2> HIDE DEF x
  <2>1. FoldsTo(TypedFrom(x, u), A, op, x, u)
    BY <1>2, TypedFold DEF x
  <2> QED  BY <2>1 DEF x
<1>4. \A a \in A, k \in K : op[a][k] = TypeKey(a, k)
  OBVIOUS
<1> HIDE DEF A, op, n
<1>5. PICK f : /\ IsFold(f, op, Start(lines), u) /\ TypedFrom(Start(lines), u) = f[n]
               /\ \A i \in 0 .. n : f[i] \in A
  BY <1>3 DEF FoldsTo, n
<1> DEFINE Good1 == {i \in Nat : i <= n => f[i] = So(i)}
<1>6. 0 \in Good1
  <2>1. SubSeq(u, 1, 0) = <<>>
    BY SubSeqEmpty
  <2> QED  BY <1>5, <2>1 DEF IsFold, Start
<1>7. ASSUME NEW i \in Nat, i \in Good1 PROVE i + 1 \in Good1
  <2>1. ASSUME i + 1 <= n PROVE f[i + 1] = So(i + 1)
    <3> DEFINE k == u[i + 1]
               l == SubSeq(u, 1, i)
    <3>1. i + 1 \in 1 .. n /\ (i + 1) - 1 = i /\ i <= n /\ i \in 0 .. n
      BY <1>1, <2>1
    <3>2. k \in K /\ f[i] \in A /\ f[i] = So(i)
      BY <1>1, <1>5, <1>7, <3>1
    <3>3. f[i + 1] = TypeKey(f[i], k)
      BY <1>4, <1>5, <3>1, <3>2 DEF IsFold, n
    <3>4. l \in Seq(K) /\ Len(l) = i /\ (i # 0 => l[i] = u[i])
      <4>1. \A h \in 1 .. i : u[h] \in K
        BY <1>1, <3>1
      <4>2. /\ l \in Seq(K) /\ Len(l) = IF 1 <= i THEN i - 1 + 1 ELSE 0
            /\ \A h \in 1 .. i - 1 + 1 : l[h] = u[1 + h - 1]
        <5> HIDE DEF l
        <5> QED  BY <4>1, SubSeqProperties DEF l
      <4>3. i # 0 => i \in 1 .. i - 1 + 1 /\ 1 + i - 1 = i
        OBVIOUS
      <4> HIDE DEF l
      <4> QED  BY <4>2, <4>3
    <3>5. ~(k = "lf" /\ l # <<>> /\ Last(l) = "cr")
      <4>1. l # <<>> => i # 0
        BY <3>4, EmptySeq
      <4>2. Last(l) = l[i]
        BY <3>4 DEF Last
      <4>3. i # 0 => i \in 1 .. n - 1
        BY <1>1, <3>1
      <4>4. i # 0 => ~(u[i] = "cr" /\ u[i + 1] = "lf")
        BY <4>3 DEF Ordinary, LineEnds, n
      <4> QED  BY <3>4, <4>1, <4>2, <4>4
    <3>6. k \notin {"iac", "nul"} /\ (~Interactive \/ k \notin {"bs", "del", "tab"})
      BY <3>1 DEF Ordinary, n
    <3>7. Append(l, k) = SubSeq(u, 1, i + 1)
      <4>1. SubSeq(u, 1, i + 1) = SubSeq(u, 1, (i + 1) - 1) \o <<u[i + 1]>>
        <5>1. 1 \in 1 .. n /\ i + 1 \in 1 .. n
          BY <1>1, <3>1
        <5> QED  BY <5>1, SubSeqRecursiveSecond DEF n
      <4>2. Append(l, k) = l \o <<k>>
        <5> HIDE DEF l, k
        <5> QED  BY <3>2, <3>4, AppendIsConcat
      <4> QED  BY <3>1, <4>1, <4>2
    <3> HIDE DEF k, l
    <3>9. TypeKey(So(i), k) = Line(Append(l, k), lines, 0)
      <4>1. So(i) = Line(l, lines, 0)
        BY DEF l
      <4>2. TypeKey(Line(l, lines, 0), k)
              = Line(Append(l, k), lines, 0)
        BY <3>5, <3>6, KeyTypes
      <4> QED  BY <4>1, <4>2
    <3> QED  BY <3>2, <3>3, <3>7, <3>9
  <2> QED  BY <2>1
<1>8. Nat \subseteq Good1
  <2> HIDE DEF Good1
  <2> QED  BY <1>6, <1>7, AllNaturals
<1>9. SubSeq(u, 1, n) = u
  BY SubSeqFull DEF n
<1>10. f[n] = So(n)
  BY <1>1, <1>8
<1> QED  BY <1>5, <1>9, <1>10

\* Keys without an IAC are not followed by keys to skip.
LEMMA NothingSkipped ==
  ASSUME NEW K, "lf" \in K, Commands \in Seq(Seq(K)), NEW e \in Meanings(K), e.skip = 0,
         NEW u \in Seq(K), \A i \in 1 .. Len(u) : u[i] # "iac"
  PROVE  TypedFrom(e, u).skip = 0 /\ TypedFrom(e, u) \in Meanings(K)
<1> DEFINE A == Meanings(K)
           L == K \ {"iac"}
           T == {a \in A : a.skip = 0}
           op == [a \in A |-> [k \in K |-> TypeKey(a, k)]]
           y == TypedFrom(e, u)
<1>1. FoldsTo(y, A, op, e, u)
  BY TypedFold
<1>2. u \in Seq(L)
  <2>1. Len(u) \in Nat /\ u \in [1 .. Len(u) -> K]
    BY LenProperties
  <2>2. \A i \in 1 .. Len(u) : u[i] \in K \ {"iac"}
    BY <2>1
  <2>3. u \in [1 .. Len(u) -> L]
    BY <2>1, <2>2
  <2> HIDE DEF L
  <2> QED  BY <2>1, <2>3, SeqDef
<1>3. ASSUME NEW a \in T, NEW k \in L PROVE op[a][k] \in T
  <2>1. op[a][k] = TypeKey(a, k) /\ TypeKey(a, k) \in A
    BY TypeKeyIs
  <2> DEFINE key == IF k = "nul" THEN "lf" ELSE k
  <2>2. TypeKey(a, k) = TypeKey(a, key) /\ key # "nul" /\ key # "iac"
    BY DEF TypeKey
  <2> HIDE DEF key
  <2>3. a = Line(a.line, a.lines, 0)
    BY LinesAll
  <2>4. TypeKey(Line(a.line, a.lines, 0), key).skip = 0
    <3>1. \A l, ls : Line(l, ls, 0).skip = 0
      BY DEF Line
    <3>2. \E l, ls : TypeKey(Line(a.line, a.lines, 0), key) = Line(l, ls, 0)
      <4>1. CASE Interactive /\ key \in {"bs", "del"}
        <5> DEFINE l == IF a.line = <<>> THEN <<>> ELSE Front(a.line)
        <5>1. TypeKey(Line(a.line, a.lines, 0), key) = Line(l, a.lines, 0)
          BY <4>1, KeyErases
        <5> HIDE DEF l
        <5> QED  BY <5>1
      <4>2. CASE Interactive /\ key = "tab"
        <5> DEFINE l == IF Cardinality(Matches(a.line)) = 1 THEN Match(a.line) ELSE a.line
        <5>1. TypeKey(Line(a.line, a.lines, 0), key) = Line(l, a.lines, 0)
          BY <4>2, KeyCompletes
        <5> HIDE DEF l
        <5> QED  BY <5>1
      <4>3. CASE /\ ~Interactive \/ key \notin {"bs", "del", "tab"}
                 /\ key = "lf" /\ a.line # <<>> /\ Last(a.line) = "cr"
        <5> DEFINE ls == Append(a.lines, Front(a.line))
        <5>1. TypeKey(Line(a.line, a.lines, 0), key) = Line(<<>>, ls, 0)
          BY <4>3, KeyEnds
        <5> HIDE DEF ls
        <5> QED  BY <5>1
      <4>4. CASE /\ ~Interactive \/ key \notin {"bs", "del", "tab"}
                 /\ ~(key = "lf" /\ a.line # <<>> /\ Last(a.line) = "cr")
        <5> DEFINE l == Append(a.line, key)
        <5>1. TypeKey(Line(a.line, a.lines, 0), key) = Line(l, a.lines, 0)
          BY <2>2, <4>4, KeyTypes
        <5> HIDE DEF l
        <5> QED  BY <5>1
      <4> QED  BY <4>1, <4>2, <4>3, <4>4
    <3> QED  BY <3>1, <3>2
  <2> QED  BY <2>1, <2>2, <2>3, <2>4
<1>4. e \in T
  OBVIOUS
<1>5. y \in T
  <2> HIDE DEF A, L, T, op, y
  <2> QED  BY <1>1, <1>2, <1>3, <1>4, FoldKeeps
<1> QED  BY <1>5

\* A negotiation means nothing, and what it leaves of the text means the same.
LEMMA NegotiationMeans ==
  ASSUME NEW K, "lf" \in K, "nul" \notin K, Commands \in Seq(Seq(K)),
         NEW e \in Meanings(K), e.skip = 0, NEW b \in Seq(K)
  PROVE  TypedFrom(e, StripFirstNVT(b)) = TypedFrom(e, b)
<1> DEFINE f == First(b, {"iac"})
<1>1. /\ f \in 0 .. Len(b) /\ Len(b) \in Nat
      /\ f # 0 => b[f] = "iac" /\ \A i \in 1 .. f - 1 : b[i] # "iac"
  BY FirstIs, LenProperties
<1>2. StripFirstNVT(b) = IF f # 0 /\ f + 2 <= Len(b) THEN Without(b, f, f + 2) ELSE b
  BY DEF StripFirstNVT
<1> HIDE DEF f
<1>3. CASE f # 0 /\ f + 2 <= Len(b)
  <2> DEFINE u == SubSeq(b, 1, f - 1)
             m == SubSeq(b, f, f + 2)
             v == SubSeq(b, f + 2 + 1, Len(b))
  <2>1. /\ u \in Seq(K) /\ Len(u) = f - 1 /\ \A h \in 1 .. f - 1 : u[h] = b[h]
        /\ m \in Seq(K) /\ Len(m) = f + 2 - f + 1
        /\ \A h \in 1 .. f + 2 - f + 1 : m[h] = b[f + h - 1]
        /\ v \in Seq(K) /\ b = u \o (m \o v)
    <3> DEFINE j == f + 2
    <3>1. f \in 1 .. Len(b) /\ j \in f .. Len(b)
      BY <1>1, <1>3
    <3> HIDE DEF u, m, v
    <3>2. u = SubSeq(b, 1, f - 1) /\ m = SubSeq(b, f, j) /\ v = SubSeq(b, j + 1, Len(b))
      BY DEF u, m, v
    <3> HIDE DEF j
    <3>4. Pieces(K, b, f, j, u, m, v)
      BY <3>1, <3>2, InThree
    <3>3. /\ u \in Seq(K) /\ Len(u) = f - 1 /\ \A h \in 1 .. f - 1 : u[h] = b[h]
          /\ m \in Seq(K) /\ Len(m) = j - f + 1
          /\ \A h \in 1 .. j - f + 1 : m[h] = b[f + h - 1]
          /\ v \in Seq(K) /\ b = u \o (m \o v)
      BY <3>4 DEF Pieces
    <3>5. j = f + 2
      BY DEF j
    <3>6. j - f + 1 = f + 2 - f + 1
      BY <1>1, <3>5
    <3> QED  BY <3>3, <3>6
  <2>2. Without(b, f, f + 2) = u \o v
    BY DEF Without
  <2> HIDE DEF u, m, v
  <2>3. Len(m) = 3 /\ m[1] = "iac"
    <3>1. f + 2 - f + 1 = 3 /\ 1 \in 1 .. 3 /\ f + 1 - 1 = f
      BY <1>1
    <3>2. Len(m) = 3 /\ m[1] = b[f + 1 - 1]
      BY <2>1, <3>1
    <3> QED  BY <1>1, <1>3, <3>1, <3>2
  <2> DEFINE x == TypedFrom(e, u)
  <2>4. x \in Meanings(K) /\ x.skip = 0
    <3>1. \A i \in 1 .. Len(u) : u[i] # "iac"
      BY <1>1, <1>3, <2>1
    <3> QED  BY <2>1, <3>1, NothingSkipped
  <2> HIDE DEF x
  <2>5. TypedFrom(x, m) = x
    <3>1. TypedFrom(x, m) = TypeKey(TypeKey(TypeKey(x, m[1]), m[2]), m[3])
      BY <2>1, <2>3, <2>4, TypedFew
    <3>2. m[2] # "nul" /\ m[3] # "nul"
      <4>1. m[2] \in K /\ m[3] \in K
        <5>1. 2 \in 1 .. 3 /\ 3 \in 1 .. 3
          OBVIOUS
        <5> QED  BY <2>1, <2>3, <5>1, ElementOfSeq
      <4> QED  BY <4>1
    <3>3. x = Line(x.line, x.lines, 0)
      BY <2>4, LinesAll
    <3>4. TypeKey(Line(x.line, x.lines, 0), m[1]) = Line(x.line, x.lines, 2)
      BY <2>3, KeyBegins
    <3>5. TypeKey(Line(x.line, x.lines, 2), m[2]) = Line(x.line, x.lines, 1)
      <4>1. 2 > 0 /\ 2 - 1 = 1
        OBVIOUS
      <4> QED  BY <3>2, <4>1, KeyMeans
    <3>6. TypeKey(Line(x.line, x.lines, 1), m[3]) = Line(x.line, x.lines, 0)
      <4>1. 1 > 0 /\ 1 - 1 = 0
        OBVIOUS
      <4> QED  BY <3>2, <4>1, KeyMeans
    <3> QED  BY <3>1, <3>3, <3>4, <3>5, <3>6
  <2>6. TypedFrom(e, u \o (m \o v)) = TypedFrom(x, m \o v)
    <3> DEFINE w == m \o v
    <3>1. w \in Seq(K)
      BY <2>1, ConcatProperties
    <3> HIDE DEF w
    <3>2. TypedFrom(e, u \o w) = TypedFrom(TypedFrom(e, u), w)
      BY <2>1, <3>1, TypedJoins
    <3> QED  BY <3>2 DEF w, x
  <2>7. TypedFrom(x, m \o v) = TypedFrom(TypedFrom(x, m), v)
    BY <2>1, <2>4, TypedJoins
  <2>8. TypedFrom(e, u \o v) = TypedFrom(x, v)
    BY <2>1, TypedJoins DEF x
  <2> QED  BY <1>2, <1>3, <2>1, <2>2, <2>5, <2>6, <2>7, <2>8
<1>4. CASE ~(f # 0 /\ f + 2 <= Len(b))
  BY <1>2, <1>4
<1> QED  BY <1>3, <1>4

\* A negotiation that is left is not complete.
Stripped(b) == \A i \in 1 .. Len(b) - 2 : b[i] # "iac"

\* stripNVT() leaves only such texts, and what they mean.
LEMMA StripNVTMeans ==
  ASSUME NEW K, "lf" \in K, "nul" \notin K, Commands \in Seq(Seq(K)),
         NEW e \in Meanings(K), e.skip = 0, NEW b \in Seq(K)
  PROVE  /\ StripNVT(b) \in Seq(K) /\ Stripped(StripNVT(b))
         /\ TypedFrom(e, StripNVT(b)) = TypedFrom(e, b)
<1> DEFINE step == [s \in Seq(K) |-> StripFirstNVT(s)]
           y == StripNVT(b)
           n == Len(b)
           m == [s \in Seq(K) |-> Len(s)]
           T == {s \in Seq(K) : TypedFrom(e, s) = TypedFrom(e, b)}
<1>1. LoopsTo(y, step, b, n)
  BY StripNVTLoop
<1>2. n \in Nat /\ m \in [Seq(K) -> Nat] /\ m[b] <= n
  BY LenProperties
<1>3. \A s \in Seq(K) : step[s] \in Seq(K)
  BY StripFirstNVTIs
<1>4. \A s \in Seq(K) : step[s] = s \/ m[step[s]] < m[s]
  BY StripFirstNVTIs
<1>5. step[y] = y
  <2> HIDE DEF step, y, n, m
  <2> QED  BY <1>1, <1>2, <1>3, <1>4, LoopFinishes
<1>6. \A s \in T : step[s] \in T
  BY <1>3, NegotiationMeans
<1>7. y \in T
  <2>1. b \in T
    OBVIOUS
  <2> HIDE DEF step, y, n, m, T
  <2> QED  BY <1>1, <1>2, <1>6, <2>1, LoopKeeps
<1>8. y \in Seq(K) /\ TypedFrom(e, y) = TypedFrom(e, b) /\ StripFirstNVT(y) = y
  BY <1>5, <1>7
<1> HIDE DEF y
<1>9. Stripped(y)
  <2> DEFINE f == First(y, {"iac"})
  <2>1. /\ f \in 0 .. Len(y) /\ Len(y) \in Nat
        /\ f = 0 => \A i \in 1 .. Len(y) : y[i] # "iac"
        /\ f # 0 => \A i \in 1 .. f - 1 : y[i] # "iac"
    BY <1>8, FirstIs, LenProperties
  <2>2. StripFirstNVT(y) = IF f # 0 /\ f + 2 <= Len(y) THEN Without(y, f, f + 2) ELSE y
    BY DEF StripFirstNVT
  <2> HIDE DEF f
  <2>3. ~(f # 0 /\ f + 2 <= Len(y))
    <3> SUFFICES ASSUME f # 0 /\ f + 2 <= Len(y) PROVE FALSE
      OBVIOUS
    <3>1. f \in 1 .. Len(y) /\ f + 2 \in f .. Len(y)
      BY <2>1
    <3>2. Len(Without(y, f, f + 2)) = Len(y) - (f + 2 - f + 1)
      BY <1>8, <3>1, WithoutIs, SMTT(30)
    <3>3. Without(y, f, f + 2) = y
      BY <1>8, <2>2
    <3> QED  BY <2>1, <3>2, <3>3
  <2> QED  BY <2>1, <2>3 DEF Stripped
<1> QED  BY <1>8, <1>9 DEF y

\* Taking a line out of a text without a complete negotiation changes no meaning.
LEMMA TakeFirstLineMeans ==
  ASSUME NEW K, "lf" \in K, "nul" \notin K, Commands \in Seq(Seq(K)), ~Interactive,
         NEW done \in Seq(Seq(K)), NEW r \in Cuts(K), Stripped(r.rest)
  PROVE  /\ Stripped(TakeFirstLine(r).rest)
         /\ TypedFrom(Start(done \o TakeFirstLine(r).lines), TakeFirstLine(r).rest)
              = TypedFrom(Start(done \o r.lines), r.rest)
<1> DEFINE b == r.rest
           l == r.lines
           n == Len(b)
<1>1. /\ b \in Seq(K) /\ l \in Seq(Seq(K)) /\ n \in Nat
      /\ \A i \in 1 .. n : b[i] \in K
  BY LenProperties, ElementOfSeq DEF Cuts
<1>2. CASE LineEnds(b) = {}
  <2>1. TakeFirstLine(r) = r
    BY <1>2, TakeFirstLineIs
  <2> QED  BY <2>1
<1>3. CASE LineEnds(b) # {}
  <2>1. PICK f \in LineEnds(b) :
          /\ \A i \in LineEnds(b) : f <= i
          /\ TakeFirstLine(r) =
               [lines |-> Append(l, SubSeq(b, 1, f - 1)), rest  |-> SubSeq(b, f + 2, n)]
    BY <1>3, TakeFirstLineIs
  <2> DEFINE j == f + 1
             u == SubSeq(b, 1, f - 1)
             m == SubSeq(b, f, j)
             v == SubSeq(b, j + 1, n)
  <2>2. /\ f \in 1 .. n - 1 /\ b[f] = "cr" /\ b[f + 1] = "lf"
        /\ f \in 1 .. n /\ j \in f .. n /\ j + 1 = f + 2 /\ j - f + 1 = 2
    BY <1>1 DEF LineEnds
  <2>3. TakeFirstLine(r).lines = Append(l, u) /\ TakeFirstLine(r).rest = v
    BY <2>1, <2>2
  <2> HIDE DEF b, l, n, u, m, v
  <2>4. Pieces(K, b, f, j, u, m, v)
    <3> HIDE DEF j
    <3> QED  BY <1>1, <2>2, InThree DEF u, m, v, n
  <2>5. /\ u \in Seq(K) /\ Len(u) = f - 1 /\ \A h \in 1 .. f - 1 : u[h] = b[h]
        /\ m \in Seq(K) /\ Len(m) = j - f + 1
        /\ \A h \in 1 .. j - f + 1 : m[h] = b[f + h - 1]
        /\ v \in Seq(K) /\ Len(v) = n - j
        /\ \A h \in 1 .. n - j : v[h] = b[j + h]
        /\ b = u \o (m \o v)
    <3> HIDE DEF j
    <3> QED  BY <2>4 DEF Pieces, n
  <2>6. Len(m) = 2 /\ m[1] = "cr" /\ m[2] = "lf"
    <3>1. 1 \in 1 .. 2 /\ 2 \in 1 .. 2 /\ f + 1 - 1 = f /\ f + 2 - 1 = f + 1
      BY <2>2
    <3>2. Len(m) = 2 /\ m[1] = b[f + 1 - 1] /\ m[2] = b[f + 2 - 1]
      <4> HIDE DEF j
      <4> QED  BY <2>2, <2>5, <3>1
    <3> QED  BY <2>2, <3>1, <3>2
  <2>7. Stripped(v)
    <3> SUFFICES ASSUME NEW h \in 1 .. Len(v) - 2 PROVE v[h] # "iac"
      BY DEF Stripped
    <3>1. h \in 1 .. n - j /\ j + h \in 1 .. n - 2
      BY <1>1, <2>2, <2>5
    <3>2. v[h] = b[j + h]
      <4> HIDE DEF j
      <4> QED  BY <2>5, <3>1
    <3>3. b[j + h] # "iac"
      <4> HIDE DEF j
      <4> QED  BY <3>1 DEF Stripped, b, n
    <3> QED  BY <3>2, <3>3
  <2> DEFINE L == done \o l
             x == Start(L)
             y == TypedFrom(x, u)
  <2>8. L \in Seq(Seq(K)) /\ x \in Meanings(K) /\ Append(L, u) \in Seq(Seq(K))
    <3>1. L \in Seq(Seq(K))
      BY <1>1, ConcatProperties
    <3> HIDE DEF L
    <3>2. Append(L, u) \in Seq(Seq(K))
      BY <2>5, <3>1, AppendProperties
    <3> QED  BY <3>1, <3>2, LineIs, EmptySeq DEF Start
  <2>9. done \o Append(l, u) = Append(L, u)
    <3> DEFINE T == Seq(K)
               w == <<u>>
    <3>1. u \in T /\ l \in Seq(T) /\ done \in Seq(T) /\ w \in Seq(T)
      BY <1>1, <2>5
    <3> HIDE DEF T
    <3>2. Append(l, u) = l \o w /\ Append(L, u) = L \o w
      <4>1. L \in Seq(T)
        BY <2>8 DEF T
      <4> HIDE DEF L
      <4> QED  BY <3>1, <4>1, AppendIsConcat
    <3> HIDE DEF w
    <3>3. (done \o l) \o w = done \o (l \o w)
      BY <3>1, ConcatAssociative
    <3> QED  BY <3>2, <3>3
  <2> HIDE DEF L, x, y
  <2>10. Ordinary(u)
    <3>1. \A h \in 1 .. Len(u) : u[h] \notin {"iac", "nul"}
      <4> TAKE h \in 1 .. Len(u)
      <4>1. h \in 1 .. f - 1 /\ h \in 1 .. n - 2 /\ h \in 1 .. n
        BY <1>1, <2>2, <2>5
      <4>2. u[h] = b[h] /\ b[h] # "iac" /\ b[h] \in K
        <5> HIDE DEF j
        <5> QED  BY <1>1, <2>5, <4>1 DEF Stripped, b, n
      <4> QED  BY <4>2
    <3>2. LineEnds(u) = {}
      <4> SUFFICES ASSUME NEW h \in LineEnds(u) PROVE FALSE
        OBVIOUS
      <4>1. /\ h \in 1 .. Len(u) - 1 /\ u[h] = "cr" /\ u[h + 1] = "lf"
        BY DEF LineEnds
      <4>2. h \in 1 .. f - 1 /\ h + 1 \in 1 .. f - 1 /\ h \in 1 .. n - 1 /\ ~(f <= h)
        BY <1>1, <2>2, <2>5, <4>1
      <4>3. b[h] = "cr" /\ b[h + 1] = "lf"
        <5> HIDE DEF j
        <5> QED  BY <2>5, <4>1, <4>2
      <4>4. h \in LineEnds(b)
        BY <4>2, <4>3 DEF LineEnds, n
      <4> QED  BY <2>1, <4>2, <4>4
    <3> QED  BY <3>1, <3>2 DEF Ordinary
  <2>11. y = Line(u, L, 0)
    BY <2>5, <2>8, <2>10, TypedOrdinary DEF x, y
  <2>12. TypedFrom(y, m) = Start(Append(L, u))
    <3>1. y \in Meanings(K)
      BY <2>5, <2>8, <2>11, LineIs
    <3>2. TypedFrom(y, m) = TypeKey(TypeKey(y, m[1]), m[2])
      <4> HIDE DEF j
      <4> QED  BY <2>5, <2>6, <3>1, TypedFew
    <3>3. TypeKey(Line(u, L, 0), "cr") = Line(Append(u, "cr"), L, 0)
      BY KeyTypes
    <3> DEFINE w == Append(u, "cr")
    <3>4. w # <<>> /\ Last(w) = "cr" /\ Front(w) = u
      <4>1. "cr" \in K /\ u \in Seq(K)
        BY <1>1, <2>2, <2>5
      <4> QED  BY <4>1, FrontOfAppend
    <3> HIDE DEF w
    <3>5. TypeKey(Line(w, L, 0), "lf") = Line(<<>>, Append(L, Front(w)), 0)
      BY <3>4, KeyEnds
    <3>6. TypeKey(y, m[1]) = Line(w, L, 0)
      BY <2>6, <2>11, <3>3 DEF w
    <3> QED  BY <2>6, <3>2, <3>4, <3>5, <3>6 DEF Start
  <2>13. TypedFrom(x, u \o (m \o v)) = TypedFrom(TypedFrom(y, m), v)
    <3> DEFINE w == m \o v
    <3>1. w \in Seq(K) /\ u \in Seq(K) /\ m \in Seq(K) /\ v \in Seq(K)
      BY <2>5, ConcatProperties
    <3>2. TypedFrom(y, m \o v) = TypedFrom(TypedFrom(y, m), v)
      <4>1. y \in Meanings(K)
        BY <2>5, <2>8, <2>11, LineIs
      <4> QED  BY <3>1, <4>1, TypedJoins
    <3> HIDE DEF w
    <3>3. TypedFrom(x, u \o w) = TypedFrom(TypedFrom(x, u), w)
      BY <2>8, <3>1, TypedJoins
    <3> QED  BY <3>2, <3>3 DEF w, y
  <2>14. TypedFrom(x, b) = TypedFrom(Start(Append(L, u)), v)
    <3>1. b = u \o (m \o v)
      BY <2>5
    <3> QED  BY <2>12, <2>13, <3>1
  <2> QED  BY <2>3, <2>7, <2>9, <2>14 DEF L, x, b, l
<1> QED  BY <1>2, <1>3

\* With the first line, some of the text goes.
LEMMA TakesSome ==
  ASSUME NEW K, NEW r \in Cuts(K), LineEnds(r.rest) # {}
  PROVE  Len(TakeFirstLine(r).rest) < Len(r.rest)
<1>1. PICK f \in LineEnds(r.rest) :
        /\ TakeFirstLine(r) =
             [lines |-> Append(r.lines, SubSeq(r.rest, 1, f - 1)),
              rest  |-> SubSeq(r.rest, f + 2, Len(r.rest))]
        /\ Len(SubSeq(r.rest, f + 2, Len(r.rest))) < Len(r.rest)
  BY TakeFirstLineIs
<1> DEFINE u == Append(r.lines, SubSeq(r.rest, 1, f - 1))
           v == SubSeq(r.rest, f + 2, Len(r.rest))
<1>2. TakeFirstLine(r) = [lines |-> u, rest |-> v] /\ Len(v) < Len(r.rest)
  BY <1>1
<1> HIDE DEF u, v
<1>3. TakeFirstLine(r).rest = v
  BY <1>2
<1> QED  BY <1>2, <1>3

\* getCompleteLines() cuts all the lines ...
LEMMA CutsAll ==
  ASSUME NEW K, NEW b \in Seq(K)
  PROVE  GetCompleteLines(b) \in Cuts(K) /\ LineEnds(GetCompleteLines(b).rest) = {}
<1> DEFINE step == [r \in Cuts(K) |-> TakeFirstLine(r)]
           x == [lines |-> <<>>, rest |-> b]
           y == GetCompleteLines(b)
           n == Len(b)
           m == [r \in Cuts(K) |-> Len(r.rest)]
           T == Cuts(K)
<1>1. LoopsTo(y, step, x, n)
  BY GetCompleteLinesLoop
<1>2. x \in T /\ x.rest = b
  BY DEF Cuts
<1>3. n \in Nat /\ m \in [T -> Nat] /\ m[x] <= n
  <2>1. \A r \in T : r.rest \in Seq(K) /\ Len(r.rest) \in Nat
    BY LenProperties DEF Cuts
  <2> QED  BY <1>2, <2>1, LenProperties
<1>4. \A r \in T : step[r] \in T
  BY TakeFirstLineIs
<1>5. ASSUME NEW r \in T PROVE step[r] = r \/ m[step[r]] < m[r]
  <2>1. step[r] = TakeFirstLine(r) /\ step[r] \in T
    BY <1>4
  <2>2. CASE LineEnds(r.rest) = {}
    BY <2>1, <2>2, TakeFirstLineIs
  <2>3. CASE LineEnds(r.rest) # {}
    <3>1. Len(TakeFirstLine(r).rest) < Len(r.rest)
      BY <2>3, TakesSome
    <3> QED  BY <2>1, <3>1
  <2> QED  BY <2>2, <2>3
<1>6. step[y] = y /\ y \in T
  <2> HIDE DEF step, x, y, n, m, T
  <2>1. step[y] = y
    BY <1>1, <1>2, <1>3, <1>4, <1>5, LoopFinishes
  <2>2. y \in T
    BY <1>1, <1>2, <1>3, <1>4, LoopKeeps
  <2> QED  BY <2>1, <2>2
<1>7. TakeFirstLine(y) = y
  <2> HIDE DEF y
  <2> QED  BY <1>6
<1> HIDE DEF y
<1>8. LineEnds(y.rest) = {}
  <2> SUFFICES ASSUME LineEnds(y.rest) # {} PROVE FALSE
    OBVIOUS
  <2>1. Len(TakeFirstLine(y).rest) < Len(y.rest)
    BY <1>6, TakesSome
  <2>2. Len(y.rest) < Len(y.rest) /\ Len(y.rest) \in Nat
    BY <1>6, <1>7, <2>1, LenProperties DEF Cuts
  <2> QED  BY <2>2
<1> QED  BY <1>6, <1>8 DEF y

\* ... and changes no meaning.
LEMMA GetCompleteLinesMeans ==
  ASSUME NEW K, "lf" \in K, "nul" \notin K, Commands \in Seq(Seq(K)), ~Interactive,
         NEW done \in Seq(Seq(K)), NEW b \in Seq(K), Stripped(b)
  PROVE  /\ Stripped(GetCompleteLines(b).rest)
         /\ TypedFrom(Start(done \o GetCompleteLines(b).lines), GetCompleteLines(b).rest)
              = TypedFrom(Start(done), b)
<1> DEFINE step == [r \in Cuts(K) |-> TakeFirstLine(r)]
           x == [lines |-> <<>>, rest |-> b]
           y == GetCompleteLines(b)
           n == Len(b)
           Same(r) == /\ Stripped(r.rest)
                      /\ TypedFrom(Start(done \o r.lines), r.rest) = TypedFrom(Start(done), b)
           T == {r \in Cuts(K) : Same(r)}
<1>1. LoopsTo(y, step, x, n)
  BY GetCompleteLinesLoop
<1>2. n \in Nat
  BY LenProperties
<1>3. x \in T
  <2>1. done \o <<>> = done
    BY ConcatEmptySeq
  <2>2. x.lines = <<>> /\ x.rest = b /\ x \in Cuts(K)
    BY DEF Cuts
  <2> HIDE DEF x
  <2> QED  BY <2>1, <2>2
<1>4. ASSUME NEW r \in T PROVE step[r] \in T
  <2>1. r \in Cuts(K) /\ Same(r)
    OBVIOUS
  <2>2. TakeFirstLine(r) \in Cuts(K) /\ step[r] = TakeFirstLine(r)
    BY <2>1, TakeFirstLineIs
  <2>3. Same(TakeFirstLine(r))
    BY <2>1, TakeFirstLineMeans
  <2> HIDE DEF step, Same
  <2> QED  BY <2>2, <2>3
<1>5. y \in T
  <2> HIDE DEF step, x, y, n, T
  <2> QED  BY <1>1, <1>2, <1>3, <1>4, LoopKeeps
<1> HIDE DEF y
<1>6. Same(y)
  BY <1>5
<1> QED  BY <1>6 DEF y

\* What is left has not ended a line, and is the line if no negotiation is left.
LEMMA LeftMeans ==
  ASSUME NEW K, "lf" \in K, "nul" \notin K, Commands \in Seq(Seq(K)), ~Interactive,
         NEW L \in Seq(Seq(K)), NEW b \in Seq(K), Stripped(b), LineEnds(b) = {}
  PROVE  /\ TypedFrom(Start(L), b).lines = L
         /\ First(b, {"iac"}) = 0 => TypedFrom(Start(L), b).line = b
<1> DEFINE f == First(b, {"iac"})
           n == Len(b)
<1>1. /\ f \in 0 .. n /\ n \in Nat
      /\ f = 0 => \A i \in 1 .. n : b[i] # "iac"
      /\ f # 0 => b[f] = "iac" /\ \A i \in 1 .. f - 1 : b[i] # "iac"
  BY FirstIs, LenProperties
<1>2. \A i \in 1 .. n : b[i] \in K /\ b[i] # "nul"
  BY ElementOfSeq
<1>3. Start(L) \in Meanings(K)
  BY LineIs, EmptySeq DEF Start
<1> HIDE DEF f, n
<1>4. CASE f = 0
  <2>1. Ordinary(b)
    BY <1>1, <1>2, <1>4 DEF Ordinary, n
  <2>2. TypedFrom(Start(L), b) = Line(b, L, 0)
    BY <2>1, TypedOrdinary
  <2> QED  BY <2>2 DEF Line
<1>5. CASE f # 0
  <2> DEFINE u == SubSeq(b, 1, f - 1)
             m == SubSeq(b, f, n)
             v == SubSeq(b, n + 1, n)
  <2>1. f \in 1 .. n /\ n \in f .. n /\ n \in 1 .. n
    BY <1>1, <1>5
  <2> HIDE DEF u, m, v
  <2>2. Pieces(K, b, f, n, u, m, v)
    BY <2>1, InThree DEF u, m, v, n
  <2>3. /\ u \in Seq(K) /\ Len(u) = f - 1 /\ \A h \in 1 .. f - 1 : u[h] = b[h]
        /\ m \in Seq(K) /\ Len(m) = n - f + 1
        /\ \A h \in 1 .. n - f + 1 : m[h] = b[f + h - 1]
        /\ v \in Seq(K) /\ Len(v) = n - n /\ b = u \o (m \o v)
    BY <2>2 DEF Pieces, n
  <2>4. v = <<>> /\ m \o v = m
    <3>1. Len(v) = 0
      BY <1>1, <2>3
    <3>2. v = <<>>
      BY <2>3, <3>1, EmptySeq
    <3> QED  BY <2>3, <3>2, ConcatEmptySeq
  <2>5. Ordinary(u)
    <3>1. \A h \in 1 .. Len(u) : u[h] \notin {"iac", "nul"}
      BY <1>1, <1>2, <1>5, <2>1, <2>3
    <3>2. LineEnds(u) = {}
      <4> SUFFICES ASSUME NEW h \in LineEnds(u) PROVE FALSE
        OBVIOUS
      <4>1. /\ h \in 1 .. Len(u) - 1 /\ u[h] = "cr" /\ u[h + 1] = "lf"
        BY DEF LineEnds
      <4>2. h \in 1 .. f - 1 /\ h + 1 \in 1 .. f - 1 /\ h \in 1 .. n - 1
        BY <1>1, <2>1, <2>3, <4>1
      <4>3. b[h] = "cr" /\ b[h + 1] = "lf"
        BY <2>3, <4>1, <4>2
      <4> QED  BY <4>2, <4>3 DEF LineEnds, n
    <3> QED  BY <3>1, <3>2 DEF Ordinary
  <2>6. TypedFrom(Start(L), u) = Line(u, L, 0) /\ Line(u, L, 0) \in Meanings(K)
    BY <2>3, <2>5, TypedOrdinary, LineIs
  <2>7. f > n - 2
    <3>1. f \in 1 .. n - 2 => b[f] # "iac"
      BY DEF Stripped, n
    <3> QED  BY <1>1, <1>5, <2>1, <3>1
  <2>8. Len(m) \in {1, 2} /\ m[1] = "iac"
    <3>1. Len(m) \in {1, 2}
      BY <1>1, <2>1, <2>3, <2>7
    <3>2. 1 \in 1 .. n - f + 1 /\ f + 1 - 1 = f
      BY <1>1, <2>1
    <3>3. m[1] = b[f + 1 - 1]
      BY <2>3, <3>2
    <3> QED  BY <1>1, <1>5, <3>1, <3>2, <3>3
  <2>9. TypeKey(Line(u, L, 0), m[1]) = Line(u, L, 2)
    BY <2>8, KeyBegins
  <2>10. TypedFrom(Line(u, L, 0), m).lines = L
    <3>1. CASE Len(m) = 1
      <4>1. TypedFrom(Line(u, L, 0), m) = Line(u, L, 2)
        BY <2>3, <2>6, <2>9, <3>1, TypedFew
      <4> QED  BY <4>1 DEF Line
    <3>2. CASE Len(m) = 2
      <4>1. TypedFrom(Line(u, L, 0), m) = TypeKey(Line(u, L, 2), m[2])
        BY <2>3, <2>6, <2>9, <3>2, TypedFew
      <4>2. m[2] # "nul"
        <5>1. 2 \in 1 .. Len(m)
          BY <3>2
        <5>2. m[2] \in K
          BY <2>3, <5>1, ElementOfSeq
        <5> QED  BY <5>2
      <4>3. 2 > 0 /\ 2 - 1 = 1
        OBVIOUS
      <4>4. TypeKey(Line(u, L, 2), m[2]) = Line(u, L, 1)
        BY <4>2, <4>3, KeyMeans
      <4> QED  BY <4>1, <4>4 DEF Line
    <3> QED  BY <2>8, <3>1, <3>2
  <2>11. TypedFrom(Start(L), u \o m) = TypedFrom(TypedFrom(Start(L), u), m)
    BY <1>3, <2>3, TypedJoins
  <2>12. TypedFrom(Start(L), b).lines = L
    BY <2>3, <2>4, <2>6, <2>10, <2>11
  <2> QED  BY <1>5, <2>12 DEF f
<1> QED  BY <1>4, <1>5

-----------------------------------------------------------------------------
(* The lines of a session without a prompt, where no key edits.            *)

\* What update() leaves behind: the keys mean the lines executed, and the rest.
Text == Chars \ {"nul"}
StreamInv ==
  ~Interactive /\ Hooked =>
    /\ buffer \in Seq(Text) /\ executed \in Seq(Seq(Text))
    /\ Stripped(buffer) /\ LineEnds(buffer) = {}
    /\ Typed = TypedFrom(Start(executed), buffer)

\* What is typed is a text for both alphabets.
LEMMA TextIs ==
  /\ "lf" \in Text /\ "nul" \notin Text /\ Commands \in Seq(Seq(Text))
  /\ "lf" \in Chars /\ Commands \in Seq(Seq(Chars))
<1>1. "lf" \in Chars /\ Commands \in Seq(Seq(Chars))
  BY CommandsAre
<1>2. /\ DOMAIN Commands = 1 .. Len(Commands) /\ Len(Commands) \in Nat
      /\ Commands \in [1 .. Len(Commands) -> Seq(Chars)]
  BY <1>1, LenProperties
<1>3. ASSUME NEW i \in 1 .. Len(Commands) PROVE Commands[i] \in Seq(Text)
  <2> DEFINE c == Commands[i]
  <2>1. c \in Seq(STRING \ Controls) /\ c \in Seq(Chars)
    BY <1>1, CommandsAssumption, ElementOfSeq
  <2> HIDE DEF c
  <2>2. /\ Len(c) \in Nat /\ c \in [1 .. Len(c) -> Chars]
        /\ \A j \in 1 .. Len(c) : c[j] \in STRING \ Controls
    BY <2>1, LenProperties, ElementOfSeq
  <2>3. \A j \in 1 .. Len(c) : c[j] \in Text
    BY <2>2 DEF Text, Controls
  <2>4. c \in [1 .. Len(c) -> Text]
    BY <2>2, <2>3
  <2>5. c \in Seq(Text)
    BY <2>2, <2>4, SeqDef
  <2> QED  BY <2>5 DEF c
<1>4. Commands \in [1 .. Len(Commands) -> Seq(Text)]
  BY <1>2, <1>3
<1>5. Commands \in Seq(Seq(Text))
  <2> DEFINE T == Seq(Text)
  <2> HIDE DEF T
  <2>1. Commands \in [1 .. Len(Commands) -> T]
    BY <1>4 DEF T
  <2>2. Commands \in Seq(T)
    BY <1>2, <2>1, SeqDef
  <2> QED  BY <2>2 DEF T
<1> QED  BY <1>1, <1>5 DEF Text

\* What was typed, before and after a step.
LEMMA TypedIs ==
  /\ Typed = TypedFrom(Start(<<>>), received)
  /\ setting' = setting => Typed' = TypedFrom(Start(<<>>), received')
<1>1. Typed = TypedFrom(Start(<<>>), received)
  BY DEF Typed, TypedFrom, Start, Line
<1>2. ASSUME setting' = setting PROVE Typed' = TypedFrom(Start(<<>>), received')
  BY <1>2 DEF Typed, TypedFrom, Start, Line, FoldLeft, MapThenFoldSet, TypeKey, Interactive
<1> QED  BY <1>1, <1>2

\* The session begins without anything typed.
LEMMA StreamInvInit == Init => StreamInv
<1> SUFFICES ASSUME Init PROVE StreamInv
  OBVIOUS
<1>1. buffer = <<>> /\ executed = <<>> /\ received = <<>>
  BY DEF Init
<1>2. LineEnds(<<>>) = {} /\ Stripped(<<>>)
  BY DEF LineEnds, Stripped
<1>3. <<>> \in Seq(Text) /\ <<>> \in Seq(Seq(Text))
  OBVIOUS
<1>4. Typed = TypedFrom(Start(executed), buffer)
  BY <1>1, TypedIs
<1> QED  BY <1>1, <1>2, <1>3, <1>4 DEF StreamInv

\* Nothing typed, nothing changes.
LEMMA StreamInvKept ==
  ASSUME StreamInv, setting' = setting, buffer' = buffer, executed' = executed,
         received' = received
  PROVE  StreamInv'
<1>1. Typed' = Typed
  BY TypedIs
<1>2. Text' = Text
  BY DEF Text, Chars, Keys
<1>3. TypedFrom(Start(executed), buffer)' = TypedFrom(Start(executed), buffer)
  BY DEF TypedFrom, FoldLeft, MapThenFoldSet, TypeKey, Interactive
<1>4. Interactive' = Interactive /\ Hooked' = Hooked
  BY DEF Interactive, Hooked
<1> QED  BY <1>1, <1>2, <1>3, <1>4 DEF StreamInv

\* What was typed with some more keys, which mean the lines and the rest of them.
LEMMA StreamGoesOn ==
  ASSUME TypeOK, StreamInv, ~Interactive, Hooked, setting' = setting,
         NEW taken \in Settings[setting].segments, NEW ok, Update(taken, ok)
  PROVE  /\ buffer' \in Seq(Text) /\ executed' \in Seq(Seq(Text))
         /\ Stripped(buffer') /\ LineEnds(buffer') = {}
         /\ Typed' = TypedFrom(Start(executed'), buffer')
<1> DEFINE K == Text
           raw == Raw(taken)
           swapped == SwapNulls(taken)
           cut == GetCompleteLines(raw)
           start == Start(<<>>)
           now == Start(executed)
<1>1. /\ "lf" \in K /\ "nul" \notin K /\ Commands \in Seq(Seq(K))
      /\ "lf" \in Chars /\ Commands \in Seq(Seq(Chars)) /\ K \subseteq Chars
  BY TextIs DEF Text
<1>2. /\ buffer \in Seq(K) /\ executed \in Seq(Seq(K)) /\ Typed = TypedFrom(now, buffer)
      /\ Typed = TypedFrom(start, received) /\ Typed' = TypedFrom(start, received')
  BY TypedIs DEF StreamInv
<1>3. taken \in Seq(Chars) /\ received \in Seq(Chars)
  <2>1. taken \in Seq(Chars) /\ received \in Seq(Keys)
    BY SegmentIs DEF TypeOK
  <2>2. Keys \subseteq Chars
    BY DEF Chars
  <2>3. /\ Len(received) \in Nat /\ received \in [1 .. Len(received) -> Keys]
    BY <2>1, LenProperties
  <2>4. received \in [1 .. Len(received) -> Chars]
    BY <2>2, <2>3
  <2> QED  BY <2>1, <2>3, <2>4, SeqDef
<1>4. /\ received' = received \o taken /\ buffer' = CutOf(taken, ok).rest
      /\ executed' = executed \o NewLines(taken, ok)
  BY UpdateIs
<1>5. CutOf(taken, ok) = cut /\ NewLines(taken, ok) = cut.lines
  BY DEF CutOf, NewLines
<1>6. swapped \in Seq(K) /\ swapped \in Seq(Chars) /\ \A e \in Meanings(Chars) : TypedFrom(e, swapped) = TypedFrom(e, taken)
  <2>1. swapped \in Seq(Chars \ {"nul"}) /\ swapped \in Seq(Chars)
    <3>1. start \in Meanings(Chars)
      <4>1. <<>> \in Seq(Seq(Chars))
        OBVIOUS
      <4> QED  BY <4>1, StartIs
    <3> HIDE DEF start
    <3> QED  BY <1>1, <1>3, <3>1, SwapNullsMeans
  <2>2. ASSUME NEW e \in Meanings(Chars) PROVE TypedFrom(e, swapped) = TypedFrom(e, taken)
    BY <1>1, <1>3, SwapNullsMeans
  <2> QED  BY <2>1, <2>2 DEF Text
<1>7. start \in Meanings(Chars) /\ now \in Meanings(K) /\ now.skip = 0
  <2>1. start \in Meanings(Chars)
    <3>1. <<>> \in Seq(Seq(Chars))
      OBVIOUS
    <3> QED  BY <3>1, StartIs
  <2>2. now \in Meanings(K) /\ now.skip = 0
    <3> HIDE DEF K
    <3> QED  BY <1>2, StartIs
  <2> QED  BY <2>1, <2>2
<1>8. buffer \in Seq(Chars)
  <2> HIDE DEF K
  <2>1. Len(buffer) \in Nat /\ buffer \in [1 .. Len(buffer) -> K]
    BY <1>2, LenProperties
  <2>2. buffer \in [1 .. Len(buffer) -> Chars]
    BY <1>1, <2>1
  <2> QED  BY <2>1, <2>2, SeqDef
<1> HIDE DEF K, raw, swapped, cut, start, now
<1>9. Typed' = TypedFrom(TypedFrom(start, received), taken)
  BY <1>1, <1>2, <1>3, <1>4, <1>7, TypedJoins
<1>10. Typed' = TypedFrom(Typed, swapped)
  <2>1. TypedFrom(start, received) \in Meanings(Chars)
    BY <1>1, <1>3, <1>7, TypedJoins
  <2> QED  BY <1>2, <1>6, <1>9, <2>1
<1>11. Typed' = TypedFrom(now, buffer \o swapped)
  <2>1. TypedFrom(now, buffer \o swapped) = TypedFrom(TypedFrom(now, buffer), swapped)
    <3>1. "lf" \in K /\ Commands \in Seq(Seq(K)) /\ now \in Meanings(K)
      BY <1>1, <1>7
    <3>2. buffer \in Seq(K) /\ swapped \in Seq(K)
      BY <1>2, <1>6
    <3> QED  BY <3>1, <3>2, TypedJoins
  <2> QED  BY <1>2, <1>10, <2>1
<1>12. /\ raw \in Seq(K) /\ Stripped(raw) /\ TypedFrom(now, raw) = TypedFrom(now, buffer \o swapped)
  <2> DEFINE b == buffer \o swapped
  <2>1. b \in Seq(K)
    BY <1>2, <1>6, ConcatProperties
  <2>2. raw = StripNVT(b)
    BY DEF raw, Raw, swapped
  <2> HIDE DEF b
  <2>3. /\ StripNVT(b) \in Seq(K) /\ Stripped(StripNVT(b))
        /\ TypedFrom(now, StripNVT(b)) = TypedFrom(now, b)
    BY <1>1, <1>7, <2>1, StripNVTMeans
  <2> QED  BY <2>2, <2>3 DEF b
<1>13. cut \in Cuts(K) /\ LineEnds(cut.rest) = {}
  BY <1>12, CutsAll DEF cut
<1>14. /\ Stripped(cut.rest)
       /\ TypedFrom(Start(executed \o cut.lines), cut.rest) = TypedFrom(now, raw)
  BY <1>1, <1>2, <1>12, GetCompleteLinesMeans DEF cut, now
<1>15. cut.rest \in Seq(K) /\ cut.lines \in Seq(Seq(K))
  BY <1>13 DEF Cuts
<1>16. executed \o cut.lines \in Seq(Seq(K))
  BY <1>2, <1>15, ConcatProperties
<1> QED  BY <1>4, <1>5, <1>11, <1>12, <1>13, <1>14, <1>15, <1>16 DEF K

\* update() with bytes keeps it.
LEMMA StreamInvUpdate ==
  ASSUME TypeOK, StreamInv, NEW taken \in Settings[setting].segments, NEW ok, Update(taken, ok)
  PROVE  StreamInv'
<1>1. setting' = setting
  BY UpdateIs
<1>2. Text' = Text /\ Interactive' = Interactive /\ Hooked' = Hooked
  BY <1>1 DEF Text, Chars, Keys, Interactive, Hooked
<1>3. CASE ~Interactive /\ Hooked
  <2>1. /\ buffer' \in Seq(Text) /\ executed' \in Seq(Seq(Text))
        /\ Stripped(buffer') /\ LineEnds(buffer') = {}
        /\ Typed' = TypedFrom(Start(executed'), buffer')
    BY <1>1, <1>3, StreamGoesOn
  <2>2. TypedFrom(Start(executed), buffer)' = TypedFrom(Start(executed'), buffer')
    BY <1>1 DEF TypedFrom, FoldLeft, MapThenFoldSet, TypeKey, Interactive
  <2> QED  BY <1>2, <2>1, <2>2 DEF StreamInv, Stripped, LineEnds
<1>4. CASE ~(~Interactive /\ Hooked)
  BY <1>2, <1>4 DEF StreamInv
<1> QED  BY <1>3, <1>4

\* update(), in a session without a prompt: however TCP cuts the stream into
\* recv() calls, negotiations and all, the keys received mean the lines executed
\* and the rest in m_buffer, which holds no line and no complete negotiation.
THEOREM StreamIsTyped == Spec => []StreamInv
<1>1. Init => StreamInv
  BY StreamInvInit
<1>2. LineInv /\ StreamInv /\ [Next]_vars => StreamInv'
  <2> SUFFICES ASSUME LineInv, StreamInv, [Next]_vars PROVE StreamInv'
    OBVIOUS
  <2>1. CASE Initialise
    BY <2>1, StreamInvKept DEF Initialise
  <2>2. CASE UpdateIdle
    BY <2>2, StreamInvKept DEF UpdateIdle
  <2>3. ASSUME NEW taken \in Settings[setting].segments, NEW ok \in Settings[setting].sends,
               Update(taken, ok)
        PROVE  StreamInv'
    BY <2>3, StreamInvUpdate DEF LineInv
  <2>4. CASE UNCHANGED vars
    BY <2>4, StreamInvKept DEF vars
  <2> QED  BY <2>1, <2>2, <2>3, <2>4 DEF Next
<1> QED  BY <1>1, <1>2, LineInvariant, PTL DEF Spec

\* What that is for a server without a prompt.
LEMMA StreamMeans == StreamInv /\ ~Interactive => TypedText
<1> SUFFICES ASSUME StreamInv, ~Interactive, Hooked
             PROVE  executed = Typed.lines /\ (~Unfinished => buffer = Typed.line)
  BY DEF TypedText
<1> DEFINE K == Text
<1>1. /\ "lf" \in K /\ "nul" \notin K /\ Commands \in Seq(Seq(K))
  BY TextIs
<1>2. /\ buffer \in Seq(K) /\ executed \in Seq(Seq(K))
      /\ Stripped(buffer) /\ LineEnds(buffer) = {}
      /\ Typed = TypedFrom(Start(executed), buffer)
  BY DEF StreamInv
<1> HIDE DEF K
<1>3. /\ TypedFrom(Start(executed), buffer).lines = executed
      /\ First(buffer, {"iac"}) = 0 => TypedFrom(Start(executed), buffer).line = buffer
  BY <1>1, <1>2, LeftMeans
<1> QED  BY <1>2, <1>3 DEF Unfinished

-----------------------------------------------------------------------------
(* Keys that stand for themselves: what the stages of update() leave alone. *)

Special == {"iac", "nul", "bs", "del", "tab"} \cup Arrows
NoSpecial(b) == \A i \in 1 .. Len(b) : b[i] \notin Special
Clean(b) == NoSpecial(b) /\ LineEnds(b) = {}

\* A key after a text without such keys is the first.
LEMMA FirstAtEnd ==
  ASSUME NEW K, NEW y \in Seq(K), NEW k \in K, NEW Ks,
         \A i \in 1 .. Len(y) : y[i] \notin Ks
  PROVE  First(Append(y, k), Ks) = IF k \in Ks THEN Len(y) + 1 ELSE 0
<1> DEFINE w == Append(y, k)
           n == Len(y)
           f == First(w, Ks)
<1>1. /\ w \in Seq(K) /\ Len(w) = n + 1 /\ w[n + 1] = k /\ n \in Nat
      /\ \A i \in 1 .. n : w[i] = y[i]
  BY AppendProperties, LenProperties
<1> HIDE DEF w
<1>2. /\ f \in 0 .. Len(w)
      /\ f = 0 <=> \A i \in 1 .. Len(w) : w[i] \notin Ks
      /\ f # 0 => w[f] \in Ks
  BY <1>1, FirstIs
<1> HIDE DEF f
<1>3. ASSUME k \in Ks PROVE f = n + 1
  <2>1. n + 1 \in 1 .. Len(w)
    BY <1>1
  <2>2. f # 0
    BY <1>1, <1>2, <1>3, <2>1
  <2>3. f \notin 1 .. n
    BY <1>1, <1>2, <2>2
  <2> QED  BY <1>1, <1>2, <2>2, <2>3
<1>4. ASSUME k \notin Ks PROVE f = 0
  <2>1. \A i \in 1 .. n + 1 : w[i] \notin Ks
    BY <1>1, <1>4
  <2> QED  BY <1>1, <1>2, <2>1
<1> QED  BY <1>3, <1>4 DEF f, w, n

\* A text without its last key.
LEMMA FrontIs ==
  ASSUME NEW K, NEW y \in Seq(K), y # <<>>
  PROVE  /\ Front(y) \in Seq(K) /\ Len(Front(y)) = Len(y) - 1 /\ Len(y) \in Nat \ {0}
         /\ \A i \in 1 .. Len(y) - 1 : Front(y)[i] = y[i]
         /\ Last(y) = y[Len(y)] /\ Last(y) \in K
         /\ y = Append(Front(y), Last(y))
<1> DEFINE n == Len(y)
           z == Front(y)
<1>1. n \in Nat \ {0} /\ \A i \in 1 .. n : y[i] \in K
  BY LenProperties, EmptySeq, ElementOfSeq
<1>2. /\ z \in Seq(K) /\ Len(z) = n - 1 /\ \A i \in 1 .. n - 1 : z[i] = y[i]
  <2>1. z = SubSeq(y, 1, n - 1)
    BY DEF Front
  <2>2. \A i \in 1 .. n - 1 : y[i] \in K
    BY <1>1
  <2> HIDE DEF z, n
  <2>3. /\ SubSeq(y, 1, n - 1) \in Seq(K)
        /\ Len(SubSeq(y, 1, n - 1)) = IF 1 <= n - 1 THEN (n - 1) - 1 + 1 ELSE 0
        /\ \A i \in 1 .. (n - 1) - 1 + 1 : SubSeq(y, 1, n - 1)[i] = y[1 + i - 1]
    BY <1>1, <2>2, SubSeqProperties
  <2>4. (IF 1 <= n - 1 THEN (n - 1) - 1 + 1 ELSE 0) = n - 1 /\ (n - 1) - 1 + 1 = n - 1
    BY <1>1
  <2>5. \A i \in 1 .. n - 1 : 1 + i - 1 = i
    OBVIOUS
  <2> QED  BY <2>1, <2>3, <2>4, <2>5
<1>3. Last(y) = y[n] /\ Last(y) \in K
  BY <1>1 DEF Last
<1> DEFINE l == Last(y)
           w == Append(z, l)
<1> HIDE DEF n, z, l
<1>4. /\ w \in Seq(K) /\ Len(w) = (n - 1) + 1 /\ w[(n - 1) + 1] = l
      /\ \A i \in 1 .. n - 1 : w[i] = z[i]
  BY <1>2, <1>3, AppendProperties DEF l
<1> HIDE DEF w
<1>5. Len(w) = n /\ \A i \in 1 .. n : w[i] = y[i]
  <2>1. (n - 1) + 1 = n
    BY <1>1
  <2>2. \A i \in 1 .. n : i = n \/ i \in 1 .. n - 1
    BY <1>1
  <2> QED  BY <1>2, <1>3, <1>4, <2>1, <2>2 DEF l
<1>6. w = y
  BY <1>4, <1>5, SeqEqual DEF n
<1> QED  BY <1>1, <1>2, <1>3, <1>6 DEF n, z, l, w

\* A text with one key more, without it, and without the one before it as well.
LEMMA WithoutLast ==
  ASSUME NEW K, NEW y \in Seq(K), NEW k \in K
  PROVE  /\ Without(Append(y, k), Len(y) + 1, Len(y) + 1) = y
         /\ y # <<>> => Without(Append(y, k), Len(y), Len(y) + 1) = Front(y)
<1> DEFINE n == Len(y)
           w == Append(y, k)
<1>1. /\ n \in Nat /\ w \in Seq(K) /\ Len(w) = n + 1
      /\ \A i \in 1 .. n : w[i] = y[i]
  BY AppendProperties, LenProperties
<1> HIDE DEF w, n
<1>2. Without(w, n + 1, n + 1) = y
  <2> DEFINE v == Without(w, n + 1, n + 1)
  <2>1. n + 1 \in 1 .. Len(w) /\ n + 1 \in n + 1 .. Len(w)
    BY <1>1
  <2>2. /\ v \in Seq(K) /\ Len(v) = Len(w) - ((n + 1) - (n + 1) + 1)
        /\ \A i \in 1 .. Len(w) - ((n + 1) - (n + 1) + 1) :
             v[i] = IF i < n + 1 THEN w[i] ELSE w[i + ((n + 1) - (n + 1) + 1)]
    BY <1>1, <2>1, WithoutIs
  <2>3. Len(w) - ((n + 1) - (n + 1) + 1) = n /\ \A i \in 1 .. n : i < n + 1
    <3>1. (n + 1) - (n + 1) + 1 = 1 /\ (n + 1) - 1 = n
      BY <1>1
    <3> QED  BY <1>1, <3>1
  <2> HIDE DEF v
  <2>4. Len(v) = n /\ \A i \in 1 .. n : v[i] = y[i]
    BY <1>1, <2>2, <2>3
  <2>5. v = y
    BY <2>2, <2>4, SeqEqual DEF n
  <2> QED  BY <2>5 DEF v
<1>3. ASSUME y # <<>> PROVE Without(w, n, n + 1) = Front(y)
  <2> DEFINE v == Without(w, n, n + 1)
             z == Front(y)
  <2>1. /\ z \in Seq(K) /\ Len(z) = n - 1 /\ n # 0
        /\ \A i \in 1 .. n - 1 : z[i] = y[i]
    BY <1>3, FrontIs DEF n
  <2>2. n \in 1 .. Len(w) /\ n + 1 \in n .. Len(w)
    BY <1>1, <2>1
  <2>3. /\ v \in Seq(K) /\ Len(v) = Len(w) - ((n + 1) - n + 1)
        /\ \A i \in 1 .. Len(w) - ((n + 1) - n + 1) :
             v[i] = IF i < n THEN w[i] ELSE w[i + ((n + 1) - n + 1)]
    BY <1>1, <2>2, WithoutIs
  <2>4. Len(w) - ((n + 1) - n + 1) = n - 1 /\ \A i \in 1 .. n - 1 : i < n /\ i \in 1 .. n
    BY <1>1
  <2> HIDE DEF v, z
  <2>5. Len(v) = n - 1 /\ \A i \in 1 .. n - 1 : v[i] = z[i]
    BY <1>1, <2>1, <2>3, <2>4
  <2>6. v = z
    BY <2>1, <2>3, <2>5, SeqEqual
  <2> QED  BY <2>6 DEF v, z
<1> QED  BY <1>2, <1>3 DEF w, n

\* A text is clean without its last key, ...
LEMMA CleanFront ==
  ASSUME NEW K, NEW y \in Seq(K), y # <<>>, Clean(y)
  PROVE  Clean(Front(y))
<1> DEFINE n == Len(y)
           z == Front(y)
<1>1. /\ Len(z) = n - 1 /\ n \in Nat \ {0} /\ \A i \in 1 .. n - 1 : z[i] = y[i]
  BY FrontIs
<1> HIDE DEF z
<1>2. \A i \in 1 .. n : y[i] \notin Special
  BY DEF Clean, NoSpecial
<1>3. \A i \in 1 .. Len(z) : z[i] \notin Special
  BY <1>1, <1>2
<1>4. LineEnds(z) = {}
  <2> SUFFICES ASSUME NEW h \in LineEnds(z) PROVE FALSE
    OBVIOUS
  <2>1. h \in 1 .. Len(z) - 1 /\ z[h] = "cr" /\ z[h + 1] = "lf"
    BY DEF LineEnds
  <2>2. h \in 1 .. n - 1 /\ h + 1 \in 1 .. n - 1
    BY <1>1, <2>1
  <2>3. y[h] = "cr" /\ y[h + 1] = "lf"
    BY <1>1, <2>1, <2>2
  <2>4. h \in LineEnds(y)
    BY <2>2, <2>3 DEF LineEnds
  <2> QED  BY <2>4 DEF Clean, NoSpecial
<1> QED  BY <1>3, <1>4 DEF Clean, NoSpecial, z

\* ... and with a key more that does not end a line.
LEMMA CleanAppend ==
  ASSUME NEW K, NEW y \in Seq(K), NEW k \in K, Clean(y), k \notin Special,
         ~(k = "lf" /\ y # <<>> /\ Last(y) = "cr")
  PROVE  Clean(Append(y, k)) /\ Append(y, k) \in Seq(K)
<1> DEFINE n == Len(y)
           w == Append(y, k)
<1>1. /\ w \in Seq(K) /\ Len(w) = n + 1 /\ w[n + 1] = k /\ n \in Nat
      /\ \A i \in 1 .. n : w[i] = y[i]
  BY AppendProperties, LenProperties
<1> HIDE DEF w
<1>2. \A i \in 1 .. n : y[i] \notin Special
  BY DEF Clean, NoSpecial
<1>3. \A i \in 1 .. Len(w) : w[i] \notin Special
  BY <1>1, <1>2
<1>4. LineEnds(w) = {}
  <2> SUFFICES ASSUME NEW h \in LineEnds(w) PROVE FALSE
    OBVIOUS
  <2>1. h \in 1 .. Len(w) - 1 /\ w[h] = "cr" /\ w[h + 1] = "lf"
    BY DEF LineEnds
  <2>2. CASE h = n
    <3>1. y # <<>> /\ Last(y) = y[n]
      BY <1>1, <2>1, <2>2 DEF Last
    <3>2. y[n] = "cr" /\ k = "lf"
      BY <1>1, <2>1, <2>2
    <3> QED  BY <3>1, <3>2
  <2>3. CASE h # n
    <3>1. h \in 1 .. n - 1 /\ h \in 1 .. n /\ h + 1 \in 1 .. n
      BY <1>1, <2>1, <2>3
    <3>2. h \in LineEnds(y)
      BY <1>1, <2>1, <3>1 DEF LineEnds
    <3> QED  BY <3>2 DEF Clean, NoSpecial
  <2> QED  BY <2>2, <2>3
<1> QED  BY <1>1, <1>3, <1>4 DEF Clean, NoSpecial, w

\* What has no special key has none a stage looks for.
LEMMA CleanHas ==
  ASSUME NEW K, NEW b \in Seq(K), NoSpecial(b), NEW Ks, Ks \subseteq Special
  PROVE  First(b, Ks) = 0 /\ \A i \in 1 .. Len(b) : b[i] \notin Ks
<1>1. \A i \in 1 .. Len(b) : b[i] \notin Ks
  BY DEF NoSpecial
<1> QED  BY <1>1, FirstIs

\* stripEscapeCharacters() takes an arrow from the end of a clean text.
LEMMA ArrowGoes ==
  ASSUME NEW K, NEW y \in Seq(K), Clean(y), NEW k \in K, k \in Arrows
  PROVE  StripEscapeCharacters(Append(y, k)) = y
<1> DEFINE w == Append(y, k)
           step == [s \in Seq(K) |-> StripFirstArrow(s)]
<1>1. /\ w \in Seq(K) /\ Len(w) = Len(y) + 1 /\ Len(y) \in Nat
  BY AppendProperties, LenProperties
<1>2. \A i \in 1 .. Len(y) : y[i] \notin Arrows
  BY DEF Clean, NoSpecial, Special
<1>3. First(w, Arrows) = Len(y) + 1
  BY <1>2, FirstAtEnd
<1>4. First(y, Arrows) = 0
  BY <1>2, FirstIs
<1>5. Without(w, Len(y) + 1, Len(y) + 1) = y
  BY WithoutLast
<1> HIDE DEF w
<1>6. StripFirstArrow(w) = y /\ StripFirstArrow(y) = y
  BY <1>1, <1>3, <1>4, <1>5 DEF StripFirstArrow
<1>7. step[w] = y /\ step[y] = y
  BY <1>1, <1>6
<1>8. LoopsTo(StripEscapeCharacters(w), step, w, Len(w))
  BY <1>1, StripEscapeLoop
<1> HIDE DEF step
<1>9. Len(w) \in Nat /\ Len(w) # 0
  BY <1>1
<1>10. StripEscapeCharacters(w) = step[w]
  BY <1>7, <1>8, <1>9, LoopRests
<1> QED  BY <1>7, <1>10 DEF w

\* processBackspace() takes a backspace from it, and the key before.
LEMMA BackspaceTakes ==
  ASSUME NEW K, NEW y \in Seq(K), Clean(y), NEW k \in K, k \in {"bs", "del"}
  PROVE  ProcessBackspace(Append(y, k)) = IF y = <<>> THEN <<>> ELSE Front(y)
<1> DEFINE w == Append(y, k)
           z == IF y = <<>> THEN <<>> ELSE Front(y)
           n == Len(y)
           step == [s \in Seq(K) |-> ProcessFirstBackspace(s)]
<1>1. /\ w \in Seq(K) /\ Len(w) = n + 1 /\ n \in Nat /\ (y = <<>> <=> n = 0)
  BY AppendProperties, LenProperties, EmptySeq
<1>2. /\ \A i \in 1 .. n : y[i] \notin {"del"}
      /\ \A i \in 1 .. n : y[i] \notin {"bs"}
  BY DEF Clean, NoSpecial, Special
<1>3. /\ First(w, {"del"}) = IF k \in {"del"} THEN n + 1 ELSE 0
      /\ First(w, {"bs"}) = IF k \in {"bs"} THEN n + 1 ELSE 0
  BY <1>2, FirstAtEnd
<1>4. z \in Seq(K) /\ Clean(z)
  <2>1. CASE y = <<>>
    BY <2>1
  <2>2. CASE y # <<>>
    BY <2>2, FrontIs, CleanFront
  <2> QED  BY <2>1, <2>2
<1>5. y # <<>> => Without(w, n, n + 1) = Front(y)
  BY WithoutLast
<1> HIDE DEF w, n
<1>6. ProcessFirstBackspace(w) = z
  <2> DEFINE f == IF First(w, {"del"}) # 0 THEN First(w, {"del"}) ELSE First(w, {"bs"})
  <2>1. f = n + 1
    BY <1>1, <1>3
  <2>2. ProcessFirstBackspace(w)
          = IF f = 0 THEN w
            ELSE IF Len(w) > 1 /\ f > 1 THEN Without(w, f - 1, f) ELSE <<>>
    BY DEF ProcessFirstBackspace
  <2> HIDE DEF f
  <2>3. CASE y = <<>>
    BY <1>1, <2>1, <2>2, <2>3
  <2>4. CASE y # <<>>
    <3>1. f # 0 /\ Len(w) > 1 /\ f > 1 /\ f - 1 = n
      BY <1>1, <2>1, <2>4
    <3> QED  BY <1>5, <2>1, <2>2, <2>4, <3>1
  <2> QED  BY <2>3, <2>4
<1> HIDE DEF z
<1>7. First(z, {"del"}) = 0 /\ First(z, {"bs"}) = 0
  BY <1>4, CleanHas DEF Special, Clean
<1>8. ProcessFirstBackspace(z) = z
  BY <1>7 DEF ProcessFirstBackspace
<1>9. step[w] = z /\ step[z] = z
  BY <1>1, <1>4, <1>6, <1>8
<1>10. LoopsTo(ProcessBackspace(w), step, w, Len(w))
  BY <1>1, ProcessBackspaceLoop
<1> HIDE DEF step
<1>11. Len(w) \in Nat /\ Len(w) # 0
  BY <1>1
<1>12. ProcessBackspace(w) = step[w]
  BY <1>9, <1>10, <1>11, LoopRests
<1> QED  BY <1>9, <1>12 DEF w, z

\* processTab() takes a tab from it, and completes the command.
LEMMA TabCompletes ==
  ASSUME NEW K, Commands \in Seq(Seq(K)), NEW y \in Seq(K), Clean(y), "tab" \in K, Hooked,
         Cardinality(Matches(y)) = 1 => Clean(Match(y))
  PROVE  ProcessTab(Append(y, "tab")).buf
           = IF Cardinality(Matches(y)) = 1 THEN Match(y) ELSE y
<1> DEFINE w == Append(y, "tab")
           n == Len(y)
           S == Tabs(K)
           x == [buf |-> w, sends |-> 0]
           step == [s \in S |-> ProcessFirstTab(s)]
           r == ProcessFirstTab(x)
           z == IF Cardinality(Matches(y)) = 1 THEN Match(y) ELSE y
<1>1. /\ w \in Seq(K) /\ Len(w) = n + 1 /\ n \in Nat
  BY AppendProperties, LenProperties
<1>2. First(w, {"tab"}) = n + 1
  <2>1. \A i \in 1 .. n : y[i] \notin {"tab"}
    BY DEF Clean, NoSpecial, Special
  <2> QED  BY <2>1, FirstAtEnd
<1>3. Without(w, n + 1, n + 1) = y
  BY WithoutLast
<1>4. SubSeq(y, 1, n + 1 - 1) = y /\ SubSeq(y, n + 1, n) = <<>>
  <2>1. n + 1 - 1 = n
    BY <1>1
  <2>2. SubSeq(y, 1, n) = y
    BY SubSeqFull
  <2>3. SubSeq(y, n + 1, n) = <<>>
    <3>1. n + 1 > n
      BY <1>1
    <3> QED  BY <1>1, <3>1, SubSeqEmpty
  <2> QED  BY <2>1, <2>2, <2>3
<1>5. x \in S /\ x.buf = w
  BY <1>1 DEF Tabs
<1>6. r.buf = z
  <2> DEFINE found == Cardinality(Matches(y))
             m == Match(y) \o <<>>
             u == [x EXCEPT !.buf = m]
             v == [buf |-> y, sends |-> x.sends + (IF found > 1 THEN LineSends(y) ELSE 0)]
  <2>1. r = IF found = 1 THEN u ELSE v
    <3> DEFINE f == First(x.buf, {"tab"})
               rest == Without(x.buf, f, f)
               head == SubSeq(rest, 1, f - 1)
               tail == SubSeq(rest, f, Len(rest))
    <3> HIDE DEF w, x
    <3>1. r = IF f = 0 THEN x
              ELSE IF (IF Hooked THEN Cardinality(Matches(head)) ELSE 0) = 1
              THEN [x EXCEPT !.buf = Match(head) \o tail]
              ELSE [buf   |-> rest,
                    sends |-> x.sends + (IF (IF Hooked THEN Cardinality(Matches(head)) ELSE 0) > 1
                                         THEN LineSends(rest) ELSE 0)]
      BY DEF ProcessFirstTab
    <3>2. f = n + 1 /\ f # 0
      BY <1>1, <1>2, <1>5
    <3>3. rest = y
      BY <1>3, <1>5, <3>2
    <3> HIDE DEF f, rest, n
    <3>4. head = y
      <4>1. f - 1 = n + 1 - 1
        BY <1>1, <3>2
      <4> QED  BY <1>4, <3>3, <4>1
    <3>5. tail = <<>>
      BY <1>4, <3>2, <3>3 DEF n
    <3> HIDE DEF head, tail
    <3> QED  BY <3>1, <3>2, <3>3, <3>4, <3>5
  <2>2. found = 1 => m = Match(y)
    <3> SUFFICES ASSUME found = 1 PROVE m = Match(y)
      OBVIOUS
    <3>1. Match(y) \in Seq(K)
      BY MatchIs
    <3> QED  BY <3>1, ConcatEmptySeq
  <2>3. u.buf = m /\ v.buf = y
    OBVIOUS
  <2> HIDE DEF found, m, u, v, r, x
  <2> QED  BY <2>1, <2>2, <2>3 DEF found
<1>7. r \in S
  BY <1>5, ProcessFirstTabIs
<1>8. ProcessFirstTab(r) = r
  <2>1. z \in Seq(K) /\ Clean(z)
    <3>1. Cardinality(Matches(y)) = 1 => Match(y) \in Seq(K)
      BY MatchIs
    <3> QED  BY <3>1
  <2> HIDE DEF r, z
  <2>2. First(z, {"tab"}) = 0
    BY <2>1, CleanHas DEF Special, Clean
  <2> QED  BY <1>6, <2>2 DEF ProcessFirstTab
<1>9. step[x] = r /\ step[r] = r
  BY <1>5, <1>7, <1>8
<1>10. LoopsTo(ProcessTab(w), step, x, Len(w))
  <2> HIDE DEF w
  <2> QED  BY <1>1, ProcessTabLoop
<1> HIDE DEF step, r, x
<1>11. Len(w) \in Nat /\ Len(w) # 0
  BY <1>1
<1>12. ProcessTab(w) = step[x]
  BY <1>9, <1>10, <1>11, LoopRests
<1> QED  BY <1>6, <1>9, <1>12

\* getCompleteLines() finds nothing in a clean text, ...
LEMMA CutStays ==
  ASSUME NEW K, NEW b \in Seq(K), Clean(b)
  PROVE  GetCompleteLines(b) = [lines |-> <<>>, rest |-> b]
<1> DEFINE S == Cuts(K)
           x == [lines |-> <<>>, rest |-> b]
           step == [r \in S |-> TakeFirstLine(r)]
<1>1. x \in S /\ x.rest = b /\ Len(b) \in Nat
  BY LenProperties DEF Cuts
<1>2. LoopsTo(GetCompleteLines(b), step, x, Len(b))
  BY GetCompleteLinesLoop
<1> HIDE DEF x
<1>3. TakeFirstLine(x) = x
  BY <1>1, TakeFirstLineIs DEF Clean
<1>4. step[x] = x
  BY <1>1, <1>3
<1> HIDE DEF step
<1>5. GetCompleteLines(b) = x
  BY <1>1, <1>2, <1>4, LoopStill
<1> QED  BY <1>5 DEF x

\* The beginning of a text.
LEMMA BeginningIs ==
  ASSUME NEW K, NEW b \in Seq(K), NEW m \in 0 .. Len(b)
  PROVE  /\ SubSeq(b, 1, m) \in Seq(K) /\ Len(SubSeq(b, 1, m)) = m
         /\ \A i \in 1 .. m : SubSeq(b, 1, m)[i] = b[i]
<1>1. Len(b) \in Nat /\ m \in Nat /\ \A i \in 1 .. m : b[i] \in K
  BY LenProperties, ElementOfSeq
<1>2. /\ SubSeq(b, 1, m) \in Seq(K)
      /\ Len(SubSeq(b, 1, m)) = IF 1 <= m THEN m - 1 + 1 ELSE 0
      /\ \A i \in 1 .. m - 1 + 1 : SubSeq(b, 1, m)[i] = b[1 + i - 1]
  BY <1>1, SubSeqProperties
<1>3. m - 1 + 1 = m /\ (IF 1 <= m THEN m - 1 + 1 ELSE 0) = m
  BY <1>1
<1>4. \A i \in 1 .. m : 1 + i - 1 = i
  OBVIOUS
<1> QED  BY <1>2, <1>3, <1>4

\* The only line of a text that ends in one.
LEMMA OneLineEnd ==
  ASSUME NEW K, NEW z \in Seq(K), "cr" \in K, "lf" \in K, Clean(Append(z, "cr")),
         NEW b, b = Append(Append(z, "cr"), "lf")
  PROVE  /\ b \in Seq(K) /\ Len(b) = Len(z) + 2 /\ LineEnds(b) = {Len(z) + 1}
         /\ SubSeq(b, 1, Len(z)) = z
<1> DEFINE m == Len(z)
           w == Append(z, "cr")
           v == SubSeq(b, 1, m)
<1>1. /\ w \in Seq(K) /\ Len(w) = m + 1 /\ w[m + 1] = "cr" /\ m \in Nat
      /\ \A i \in 1 .. m : w[i] = z[i] /\ z[i] \in K
  BY AppendProperties, LenProperties, ElementOfSeq
<1>2. b = Append(w, "lf") /\ LineEnds(w) = {}
  BY DEF Clean
<1> HIDE DEF w, m
<1>3. /\ b \in Seq(K) /\ Len(b) = (m + 1) + 1 /\ b[(m + 1) + 1] = "lf"
      /\ \A i \in 1 .. m + 1 : b[i] = w[i]
  BY <1>1, <1>2, AppendProperties
<1>4. Len(b) = m + 2 /\ b[m + 2] = "lf" /\ b[m + 1] = "cr" /\ \A i \in 1 .. m : b[i] = z[i]
  <2>1. (m + 1) + 1 = m + 2
    BY <1>1
  <2>2. m + 1 \in 1 .. m + 1 /\ \A i \in 1 .. m : i \in 1 .. m + 1
    BY <1>1
  <2> QED  BY <1>1, <1>3, <2>1, <2>2
<1>5. ASSUME NEW h \in LineEnds(b) PROVE h = m + 1
  <2>1. h \in 1 .. Len(b) - 1 /\ b[h] = "cr" /\ b[h + 1] = "lf"
    BY DEF LineEnds
  <2>2. CASE h # m + 1
    <3>1. h \in 1 .. m /\ h \in 1 .. m + 1 /\ h + 1 \in 1 .. m + 1 /\ h \in 1 .. Len(w) - 1
      BY <1>1, <1>4, <2>1, <2>2
    <3>2. w[h] = "cr" /\ w[h + 1] = "lf"
      BY <1>3, <2>1, <3>1
    <3>3. h \in LineEnds(w)
      BY <3>1, <3>2 DEF LineEnds
    <3> QED  BY <1>2, <3>3
  <2> QED  BY <2>2
<1>6. m + 1 \in LineEnds(b)
  <2>1. m + 1 \in 1 .. Len(b) - 1 /\ (m + 1) + 1 = m + 2
    BY <1>1, <1>4
  <2> QED  BY <1>4, <2>1 DEF LineEnds
<1>7. v = z
  <2>1. m \in 0 .. Len(b)
    BY <1>1, <1>4
  <2>2. v \in Seq(K) /\ Len(v) = m /\ \A i \in 1 .. m : v[i] = b[i]
    BY <1>3, <2>1, BeginningIs
  <2> HIDE DEF v
  <2>3. \A i \in 1 .. m : v[i] = z[i]
    BY <1>4, <2>2
  <2> QED  BY <2>2, <2>3, SeqEqual DEF m
<1> QED  BY <1>3, <1>4, <1>5, <1>6, <1>7 DEF m, v

\* ... and takes the one that has just ended.
LEMMA CutTakes ==
  ASSUME NEW K, NEW z \in Seq(K), "cr" \in K, "lf" \in K, Clean(Append(z, "cr")),
         NEW b, b = Append(Append(z, "cr"), "lf")
  PROVE  GetCompleteLines(b) = [lines |-> <<z>>, rest |-> <<>>]
<1> DEFINE S == Cuts(K)
           x == [lines |-> <<>>, rest |-> b]
           step == [r \in S |-> TakeFirstLine(r)]
           y == [lines |-> <<z>>, rest |-> <<>>]
           m == Len(z)
<1>1. /\ b \in Seq(K) /\ Len(b) = m + 2 /\ LineEnds(b) = {m + 1} /\ m \in Nat
      /\ SubSeq(b, 1, m) = z
  BY OneLineEnd, LenProperties
<1>2. x \in S /\ x.rest = b /\ x.lines = <<>>
  BY <1>1 DEF Cuts
<1>3. LoopsTo(GetCompleteLines(b), step, x, Len(b))
  BY <1>1, GetCompleteLinesLoop
<1>4. y \in S /\ y.rest = <<>>
  BY DEF Cuts
<1> HIDE DEF x, m
<1>5. TakeFirstLine(x) = y
  <2>1. PICK f \in LineEnds(x.rest) :
          TakeFirstLine(x) = [lines |-> Append(x.lines, SubSeq(x.rest, 1, f - 1)),
                              rest  |-> SubSeq(x.rest, f + 2, Len(x.rest))]
    <3>1. LineEnds(x.rest) # {}
      BY <1>1, <1>2
    <3> QED  BY <1>2, <3>1, TakeFirstLineIs
  <2>2. f = m + 1 /\ f - 1 = m /\ f + 2 = m + 3
    BY <1>1, <1>2, <2>1
  <2> DEFINE u == SubSeq(x.rest, 1, f - 1)
             v == SubSeq(x.rest, f + 2, Len(x.rest))
  <2>3. u = z
    BY <1>1, <1>2, <2>2
  <2>4. v = <<>>
    <3>1. v = SubSeq(b, m + 3, m + 2)
      BY <1>1, <1>2, <2>2
    <3>2. m + 3 > m + 2 /\ m + 3 \in Int /\ m + 2 \in Int
      BY <1>1
    <3> HIDE DEF v
    <3> QED  BY <3>1, <3>2, SubSeqEmpty
  <2>5. TakeFirstLine(x) = [lines |-> Append(x.lines, u), rest |-> v]
    BY <2>1
  <2> HIDE DEF u, v
  <2>6. Append(<<>>, z) = <<z>>
    OBVIOUS
  <2> QED  BY <1>2, <2>3, <2>4, <2>5, <2>6
<1>6. TakeFirstLine(y) = y
  <2>1. LineEnds(<<>>) = {}
    BY DEF LineEnds
  <2> HIDE DEF y
  <2> QED  BY <1>4, <2>1, TakeFirstLineIs
<1> HIDE DEF y
<1>7. step[x] = y /\ step[y] = y
  BY <1>2, <1>4, <1>5, <1>6
<1> HIDE DEF step
<1>8. Len(b) \in Nat /\ Len(b) # 0
  BY <1>1
<1>9. GetCompleteLines(b) = step[x]
  BY <1>3, <1>7, <1>8, LoopRests
<1> QED  BY <1>7, <1>9 DEF y

\* stripNVT() leaves a text alone that has no IAC.
LEMMA NegotiationStays ==
  ASSUME NEW K, NEW b \in Seq(K), \A i \in 1 .. Len(b) : b[i] # "iac"
  PROVE  StripNVT(b) = b
<1> DEFINE step == [s \in Seq(K) |-> StripFirstNVT(s)]
<1>1. First(b, {"iac"}) = 0
  BY FirstIs
<1>2. step[b] = b
  BY <1>1 DEF StripFirstNVT
<1>3. LoopsTo(StripNVT(b), step, b, Len(b)) /\ Len(b) \in Nat
  BY StripNVTLoop, LenProperties
<1> HIDE DEF step
<1> QED  BY <1>2, <1>3, LoopStill

\* The editing stages leave a text alone that has no key they look for.
LEMMA EditingStays ==
  ASSUME NEW K, Commands \in Seq(Seq(K)), NEW b \in Seq(K), NoSpecial(b)
  PROVE  /\ StripEscapeCharacters(b) = b /\ ProcessBackspace(b) = b
         /\ ProcessTab(b).buf = b
<1>1. /\ First(b, Arrows) = 0 /\ First(b, {"bs"}) = 0 /\ First(b, {"del"}) = 0
      /\ First(b, {"tab"}) = 0 /\ Len(b) \in Nat
  BY CleanHas, LenProperties DEF Special
<1>2. StripEscapeCharacters(b) = b
  <2> DEFINE step == [s \in Seq(K) |-> StripFirstArrow(s)]
  <2>1. step[b] = b
    BY <1>1 DEF StripFirstArrow
  <2>2. LoopsTo(StripEscapeCharacters(b), step, b, Len(b))
    BY StripEscapeLoop
  <2> HIDE DEF step
  <2> QED  BY <1>1, <2>1, <2>2, LoopStill
<1>3. ProcessBackspace(b) = b
  <2> DEFINE step == [s \in Seq(K) |-> ProcessFirstBackspace(s)]
  <2>1. step[b] = b
    BY <1>1 DEF ProcessFirstBackspace
  <2>2. LoopsTo(ProcessBackspace(b), step, b, Len(b))
    BY ProcessBackspaceLoop
  <2> HIDE DEF step
  <2> QED  BY <1>1, <2>1, <2>2, LoopStill
<1>4. ProcessTab(b).buf = b
  <2> DEFINE x == [buf |-> b, sends |-> 0]
             step == [r \in Tabs(K) |-> ProcessFirstTab(r)]
  <2>1. x \in Tabs(K) /\ x.buf = b
    BY DEF Tabs
  <2>2. LoopsTo(ProcessTab(b), step, x, Len(b))
    BY ProcessTabLoop
  <2> HIDE DEF x
  <2>3. ProcessFirstTab(x) = x
    BY <1>1, <2>1 DEF ProcessFirstTab
  <2>4. step[x] = x
    BY <2>1, <2>3
  <2> HIDE DEF step
  <2>5. ProcessTab(b) = x
    BY <1>1, <2>2, <2>4, LoopStill
  <2> QED  BY <2>1, <2>5
<1> QED  BY <1>2, <1>3, <1>4

-----------------------------------------------------------------------------
(* Character mode: update() with one key, or with Enter.                   *)

\* The key after NULs were swapped.
Key(k) == IF k = "nul" THEN "lf" ELSE k

\* The text the stages see: m_buffer and the key ...
LEMMA RawKey ==
  ASSUME buffer \in Seq(Chars), NoSpecial(buffer), NEW taken \in Seq(Chars),
         Len(taken) = 1, taken[1] # "iac"
  PROVE  Raw(taken) = Append(buffer, Key(taken[1])) /\ Key(taken[1]) \in Chars
<1> DEFINE k == Key(taken[1])
           t == SwapNulls(taken)
           w == Append(buffer, k)
           u == <<k>>
<1>1. taken[1] \in Chars /\ k \in Chars
  <2>1. 1 \in 1 .. Len(taken)
    OBVIOUS
  <2>2. taken[1] \in Chars
    BY <2>1, ElementOfSeq
  <2> QED  BY <2>2, TextIs DEF Key
<1>2. t \in Seq(Chars) /\ Len(t) = 1 /\ t[1] = k
  <2>1. t \in Seq(Chars) /\ Len(t) = Len(taken)
        /\ \A i \in 1 .. Len(taken) : t[i] = IF taken[i] = "nul" THEN "lf" ELSE taken[i]
    BY TextIs, SwapNullsIs
  <2>2. 1 \in 1 .. Len(taken)
    OBVIOUS
  <2> QED  BY <2>1, <2>2 DEF Key
<1> HIDE DEF k, t
<1>3. t = u
  <2>1. u \in Seq(Chars) /\ Len(u) = 1 /\ u[1] = k
    BY <1>1
  <2> HIDE DEF u
  <2>2. \A i \in 1 .. 1 : t[i] = u[i]
    BY <1>2, <2>1
  <2> QED  BY <1>2, <2>1, <2>2, SeqEqual
<1>4. buffer \o u = w
  BY <1>1, AppendIsConcat
<1>5. w \in Seq(Chars) /\ \A i \in 1 .. Len(w) : w[i] # "iac"
  <2>1. /\ w \in Seq(Chars) /\ Len(w) = Len(buffer) + 1 /\ w[Len(buffer) + 1] = k
        /\ \A i \in 1 .. Len(buffer) : w[i] = buffer[i]
    BY <1>1, AppendProperties
  <2>2. Len(buffer) \in Nat /\ k # "iac"
    BY LenProperties DEF k, Key
  <2>3. \A i \in 1 .. Len(buffer) : buffer[i] # "iac"
    BY DEF NoSpecial, Special
  <2> HIDE DEF w
  <2>4. \A i \in 1 .. Len(w) : i = Len(buffer) + 1 \/ i \in 1 .. Len(buffer)
    BY <2>1, <2>2
  <2> QED  BY <2>1, <2>2, <2>3, <2>4
<1> HIDE DEF w, u
<1>6. StripNVT(w) = w
  BY <1>5, NegotiationStays
<1>7. Raw(taken) = StripNVT(buffer \o t)
  BY DEF Raw, t
<1> QED  BY <1>1, <1>3, <1>4, <1>6, <1>7 DEF k, w

\* ... and Enter.
LEMMA RawEnter ==
  ASSUME buffer \in Seq(Chars), NoSpecial(buffer), NEW taken \in Seq(Chars),
         Len(taken) = 2, taken[1] = "cr", taken[2] = "lf"
  PROVE  /\ Raw(taken) = Append(Append(buffer, "cr"), "lf")
         /\ "cr" \in Chars /\ "lf" \in Chars
<1> DEFINE t == SwapNulls(taken)
           n == Len(buffer)
           w == Append(buffer, "cr")
           v == Append(w, "lf")
           u == buffer \o t
<1>1. "cr" \in Chars /\ "lf" \in Chars
  <2>1. 1 \in 1 .. Len(taken) /\ 2 \in 1 .. Len(taken)
    OBVIOUS
  <2> QED  BY <2>1, ElementOfSeq
<1>2. t \in Seq(Chars) /\ Len(t) = 2 /\ t[1] = "cr" /\ t[2] = "lf"
  <2>1. t \in Seq(Chars) /\ Len(t) = Len(taken)
        /\ \A i \in 1 .. Len(taken) : t[i] = IF taken[i] = "nul" THEN "lf" ELSE taken[i]
    BY TextIs, SwapNullsIs
  <2>2. 1 \in 1 .. Len(taken) /\ 2 \in 1 .. Len(taken)
    OBVIOUS
  <2> HIDE DEF t
  <2> QED  BY <2>1, <2>2
<1>3. /\ w \in Seq(Chars) /\ Len(w) = n + 1 /\ w[n + 1] = "cr" /\ n \in Nat
      /\ \A i \in 1 .. n : w[i] = buffer[i]
  BY <1>1, AppendProperties, LenProperties
<1> HIDE DEF t, w
<1>4. /\ v \in Seq(Chars) /\ Len(v) = (n + 1) + 1 /\ v[(n + 1) + 1] = "lf"
      /\ \A i \in 1 .. n + 1 : v[i] = w[i]
  BY <1>1, <1>3, AppendProperties
<1>5. /\ u \in Seq(Chars) /\ Len(u) = n + 2
      /\ \A i \in 1 .. n + 2 : u[i] = IF i <= n THEN buffer[i] ELSE t[i - n]
  <2>1. /\ u \in Seq(Chars) /\ Len(u) = Len(buffer) + Len(t)
        /\ \A i \in 1 .. Len(buffer) + Len(t) :
             u[i] = IF i <= Len(buffer) THEN buffer[i] ELSE t[i - Len(buffer)]
    BY <1>2, ConcatProperties
  <2> HIDE DEF u
  <2> QED  BY <1>2, <2>1
<1> HIDE DEF u, v, n
<1>6. (n + 1) + 1 = n + 2 /\ (n + 1) - n = 1 /\ (n + 2) - n = 2
      /\ \A i \in 1 .. n + 2 : i \in 1 .. n \/ i = n + 1 \/ i = n + 2
  BY <1>3
<1>7. u[n + 1] = "cr" /\ u[n + 2] = "lf" /\ \A i \in 1 .. n : u[i] = buffer[i]
  <2>1. n + 1 \in 1 .. n + 2 /\ n + 2 \in 1 .. n + 2 /\ ~(n + 1 <= n) /\ ~(n + 2 <= n)
    BY <1>3
  <2>2. \A i \in 1 .. n : i <= n /\ i \in 1 .. n + 2
    BY <1>3
  <2> QED  BY <1>2, <1>5, <1>6, <2>1, <2>2
<1>8. v[n + 1] = "cr" /\ v[n + 2] = "lf" /\ \A i \in 1 .. n : v[i] = buffer[i]
  <2>1. n + 1 \in 1 .. n + 1 /\ \A i \in 1 .. n : i \in 1 .. n + 1
    BY <1>3
  <2> QED  BY <1>3, <1>4, <1>6, <2>1
<1>9. u = v
  <2>1. Len(u) = n + 2 /\ Len(v) = n + 2
    BY <1>4, <1>5, <1>6
  <2>2. \A i \in 1 .. n + 2 : u[i] = v[i]
    BY <1>6, <1>7, <1>8
  <2> QED  BY <1>4, <1>5, <2>1, <2>2, SeqEqual
<1>10. \A i \in 1 .. Len(v) : v[i] # "iac"
  <2>1. \A i \in 1 .. n : buffer[i] # "iac"
    BY DEF NoSpecial, Special, n
  <2>2. Len(v) = n + 2
    BY <1>4, <1>6
  <2> QED  BY <1>6, <1>8, <2>1, <2>2
<1>11. StripNVT(v) = v
  BY <1>4, <1>10, NegotiationStays
<1>12. Raw(taken) = StripNVT(u)
  BY DEF Raw, u, t
<1> QED  BY <1>1, <1>9, <1>11, <1>12 DEF v, w

\* What the stages make of it: the lines, the rest and the cursor.
Outcome(taken, ok, lines, rest, c) ==
  /\ CutOf(taken, ok) = [lines |-> lines, rest |-> rest]
  /\ Walk(taken, ok).cursor = c

\* Without up and down, m_buffer is the text and the cursor stays.
LEMMA NoWalk ==
  ASSUME NEW taken, NEW ok, NEW raw, Raw(taken) = raw,
         history = <<>> \/ (First(raw, {"up"}) = 0 /\ First(raw, {"down"}) = 0)
  PROVE  Walk(taken, ok).buf = raw /\ Walk(taken, ok).cursor = cursor
<1>1. Walk(taken, ok) = [buf |-> raw, cursor |-> cursor,
                         reprint |-> First(raw, {"left", "right"}) # 0, sends |-> 0]
  BY DEF Walk, ProcessCommandHistory
<1> QED  BY <1>1

\* A key that stands for itself is one more in m_buffer.
LEMMA OutcomePlain ==
  ASSUME Interactive, NEW taken, NEW ok, NEW raw \in Seq(Chars), Raw(taken) = raw, Clean(raw)
  PROVE  Outcome(taken, ok, <<>>, raw, cursor)
<1>1. /\ NoSpecial(raw) /\ Commands \in Seq(Seq(Chars))
      /\ First(raw, {"up"}) = 0 /\ First(raw, {"down"}) = 0
  BY CleanHas, TextIs DEF Clean, Special, Arrows
<1>2. Walk(taken, ok).buf = raw /\ Walk(taken, ok).cursor = cursor
  BY <1>1, NoWalk
<1>3. /\ StripEscapeCharacters(raw) = raw /\ ProcessBackspace(raw) = raw
      /\ ProcessTab(raw).buf = raw
  BY <1>1, EditingStays
<1>4. CutOf(taken, ok) = GetCompleteLines(raw)
  BY <1>2, <1>3 DEF CutOf, Completed, Edited, Plain
<1>5. GetCompleteLines(raw) = [lines |-> <<>>, rest |-> raw]
  BY CutStays
<1> QED  BY <1>2, <1>4, <1>5 DEF Outcome

\* CR LF takes the line.
LEMMA OutcomeLine ==
  ASSUME Interactive, NEW taken, NEW ok, NEW z \in Seq(Chars), "cr" \in Chars,
         Clean(Append(z, "cr")), NEW raw, raw = Append(Append(z, "cr"), "lf"),
         Raw(taken) = raw
  PROVE  Outcome(taken, ok, <<z>>, <<>>, cursor)
<1> DEFINE w == Append(z, "cr")
           n == Len(w)
<1>1. /\ w \in Seq(Chars) /\ NoSpecial(w) /\ n \in Nat
      /\ "lf" \in Chars /\ Commands \in Seq(Seq(Chars))
  BY AppendProperties, LenProperties, TextIs DEF Clean
<1>2. raw \in Seq(Chars) /\ NoSpecial(raw)
  <2> DEFINE v == Append(w, "lf")
  <2> HIDE DEF w
  <2>1. /\ v \in Seq(Chars) /\ Len(v) = n + 1 /\ v[n + 1] = "lf"
        /\ \A i \in 1 .. n : v[i] = w[i]
    BY <1>1, AppendProperties
  <2>2. \A i \in 1 .. n + 1 : i \in 1 .. n \/ i = n + 1
    BY <1>1
  <2>3. \A i \in 1 .. n : w[i] \notin Special
    BY <1>1 DEF NoSpecial
  <2>4. "lf" \notin Special
    BY DEF Special, Arrows
  <2> HIDE DEF v, n
  <2>5. NoSpecial(v)
    BY <2>1, <2>2, <2>3, <2>4 DEF NoSpecial
  <2> QED  BY <2>1, <2>5 DEF v, w
<1>3. First(raw, {"up"}) = 0 /\ First(raw, {"down"}) = 0
  BY <1>2, CleanHas DEF Special, Arrows
<1>4. Walk(taken, ok).buf = raw /\ Walk(taken, ok).cursor = cursor
  BY <1>3, NoWalk
<1>5. /\ StripEscapeCharacters(raw) = raw /\ ProcessBackspace(raw) = raw
      /\ ProcessTab(raw).buf = raw
  BY <1>1, <1>2, EditingStays
<1>6. CutOf(taken, ok) = GetCompleteLines(raw)
  BY <1>4, <1>5 DEF CutOf, Completed, Edited, Plain
<1>7. GetCompleteLines(raw) = [lines |-> <<z>>, rest |-> <<>>]
  BY <1>1, CutTakes
<1> QED  BY <1>4, <1>6, <1>7 DEF Outcome

\* A backspace takes the last key of m_buffer, if there is one.
LEMMA OutcomeErase ==
  ASSUME Interactive, buffer \in Seq(Chars), Clean(buffer), NEW taken, NEW ok,
         NEW k \in Chars, k \in {"bs", "del"}, Raw(taken) = Append(buffer, k)
  PROVE  Outcome(taken, ok, <<>>, IF buffer = <<>> THEN <<>> ELSE Front(buffer), cursor)
<1> DEFINE raw == Append(buffer, k)
           z == IF buffer = <<>> THEN <<>> ELSE Front(buffer)
<1>1. NoSpecial(buffer) /\ Commands \in Seq(Seq(Chars)) /\ raw \in Seq(Chars)
  BY TextIs, AppendProperties DEF Clean
<1>2. /\ First(raw, {"up"}) = 0 /\ First(raw, {"down"}) = 0 /\ First(raw, Arrows) = 0
  <2>1. /\ \A i \in 1 .. Len(buffer) : buffer[i] \notin {"up"}
        /\ \A i \in 1 .. Len(buffer) : buffer[i] \notin {"down"}
        /\ \A i \in 1 .. Len(buffer) : buffer[i] \notin Arrows
    BY <1>1 DEF NoSpecial, Special, Arrows
  <2>2. k \notin {"up"} /\ k \notin {"down"} /\ k \notin Arrows
    BY DEF Arrows
  <2> QED  BY <2>1, <2>2, FirstAtEnd
<1> HIDE DEF raw
<1>3. Walk(taken, ok).buf = raw /\ Walk(taken, ok).cursor = cursor
  BY <1>2, NoWalk DEF raw
<1>4. StripEscapeCharacters(raw) = raw
  <2> DEFINE step == [s \in Seq(Chars) |-> StripFirstArrow(s)]
  <2>1. step[raw] = raw
    BY <1>1, <1>2 DEF StripFirstArrow
  <2>2. LoopsTo(StripEscapeCharacters(raw), step, raw, Len(raw)) /\ Len(raw) \in Nat
    BY <1>1, StripEscapeLoop, LenProperties
  <2> HIDE DEF step
  <2> QED  BY <2>1, <2>2, LoopStill
<1>5. ProcessBackspace(raw) = z
  BY BackspaceTakes DEF raw
<1>6. z \in Seq(Chars) /\ Clean(z) /\ NoSpecial(z)
  <2>1. CASE buffer = <<>>
    BY <2>1 DEF Clean
  <2>2. CASE buffer # <<>>
    BY <2>2, FrontIs, CleanFront DEF Clean
  <2> QED  BY <2>1, <2>2
<1> HIDE DEF z
<1>7. ProcessTab(z).buf = z
  BY <1>1, <1>6, EditingStays
<1>8. CutOf(taken, ok) = GetCompleteLines(z)
  BY <1>3, <1>4, <1>5, <1>7 DEF CutOf, Completed, Edited, Plain
<1>9. GetCompleteLines(z) = [lines |-> <<>>, rest |-> z]
  BY <1>6, CutStays
<1> QED  BY <1>3, <1>8, <1>9 DEF Outcome, z

\* A command is clean.
LEMMA CommandIsClean ==
  ASSUME NEW line, Cardinality(Matches(line)) = 1
  PROVE  Clean(Match(line)) /\ Match(line) \in Seq(Chars)
<1>1. Commands \in Seq(Seq(Chars)) /\ DOMAIN Commands = 1 .. Len(Commands)
  BY TextIs, LenProperties
<1>2. Match(line) \in Seq(Chars) /\ \E i \in DOMAIN Commands : Match(line) = Commands[i]
  BY <1>1, MatchIs
<1>3. PICK i \in 1 .. Len(Commands) : Match(line) = Commands[i]
  BY <1>1, <1>2
<1> DEFINE c == Commands[i]
<1>4. c \in Seq(STRING \ Controls)
  BY CommandsAssumption, ElementOfSeq
<1> HIDE DEF c
<1>5. Len(c) \in Nat /\ \A j \in 1 .. Len(c) : c[j] \notin Controls
  BY <1>4, LenProperties, ElementOfSeq
<1>6. NoSpecial(c)
  BY <1>5 DEF NoSpecial, Special, Controls, Arrows
<1>7. LineEnds(c) = {}
  <2> SUFFICES ASSUME NEW h \in LineEnds(c) PROVE FALSE
    OBVIOUS
  <2>1. h \in 1 .. Len(c) /\ c[h] = "cr"
    BY <1>5 DEF LineEnds
  <2> QED  BY <1>5, <2>1 DEF Controls
<1> QED  BY <1>2, <1>3, <1>6, <1>7 DEF Clean, c

\* A tab completes m_buffer to the only command that begins so.
LEMMA OutcomeTab ==
  ASSUME Interactive, Hooked, buffer \in Seq(Chars), Clean(buffer), NEW taken, NEW ok,
         "tab" \in Chars, Raw(taken) = Append(buffer, "tab")
  PROVE  Outcome(taken, ok, <<>>,
                 IF Cardinality(Matches(buffer)) = 1 THEN Match(buffer) ELSE buffer, cursor)
<1> DEFINE raw == Append(buffer, "tab")
           z == IF Cardinality(Matches(buffer)) = 1 THEN Match(buffer) ELSE buffer
<1>1. NoSpecial(buffer) /\ Commands \in Seq(Seq(Chars)) /\ raw \in Seq(Chars)
  BY TextIs, AppendProperties DEF Clean
<1>2. /\ First(raw, {"up"}) = 0 /\ First(raw, {"down"}) = 0 /\ First(raw, Arrows) = 0
      /\ First(raw, {"bs"}) = 0 /\ First(raw, {"del"}) = 0
  <2>1. /\ \A i \in 1 .. Len(buffer) : buffer[i] \notin {"up"}
        /\ \A i \in 1 .. Len(buffer) : buffer[i] \notin {"down"}
        /\ \A i \in 1 .. Len(buffer) : buffer[i] \notin Arrows
        /\ \A i \in 1 .. Len(buffer) : buffer[i] \notin {"bs"}
        /\ \A i \in 1 .. Len(buffer) : buffer[i] \notin {"del"}
    BY <1>1 DEF NoSpecial, Special, Arrows
  <2>2. /\ "tab" \notin {"up"} /\ "tab" \notin {"down"} /\ "tab" \notin Arrows
        /\ "tab" \notin {"bs"} /\ "tab" \notin {"del"}
    BY DEF Arrows
  <2>3. First(raw, {"up"}) = 0 /\ First(raw, {"down"}) = 0
    BY <2>1, <2>2, FirstAtEnd
  <2>4. First(raw, {"bs"}) = 0 /\ First(raw, {"del"}) = 0
    BY <2>1, <2>2, FirstAtEnd
  <2>5. First(raw, Arrows) = 0
    BY <2>1, <2>2, FirstAtEnd
  <2> QED  BY <2>3, <2>4, <2>5
<1> HIDE DEF raw
<1>3. Walk(taken, ok).buf = raw /\ Walk(taken, ok).cursor = cursor
  BY <1>2, NoWalk DEF raw
<1>4. StripEscapeCharacters(raw) = raw /\ ProcessBackspace(raw) = raw
  <2> DEFINE arrows == [s \in Seq(Chars) |-> StripFirstArrow(s)]
             backs == [s \in Seq(Chars) |-> ProcessFirstBackspace(s)]
  <2>1. arrows[raw] = raw /\ backs[raw] = raw
    BY <1>1, <1>2 DEF StripFirstArrow, ProcessFirstBackspace
  <2>2. LoopsTo(StripEscapeCharacters(raw), arrows, raw, Len(raw)) /\ Len(raw) \in Nat
    BY <1>1, StripEscapeLoop, LenProperties
  <2>3. LoopsTo(ProcessBackspace(raw), backs, raw, Len(raw))
    BY <1>1, ProcessBackspaceLoop
  <2> HIDE DEF arrows, backs
  <2>4. StripEscapeCharacters(raw) = raw
    BY <2>1, <2>2, LoopStill
  <2>5. ProcessBackspace(raw) = raw
    BY <2>1, <2>2, <2>3, LoopStill
  <2> QED  BY <2>4, <2>5
<1>5. ProcessTab(raw).buf = z
  BY <1>1, CommandIsClean, TabCompletes DEF raw
<1>6. z \in Seq(Chars) /\ Clean(z)
  BY CommandIsClean
<1> HIDE DEF z
<1>7. CutOf(taken, ok) = GetCompleteLines(z)
  BY <1>3, <1>4, <1>5 DEF CutOf, Completed, Edited, Plain
<1>8. GetCompleteLines(z) = [lines |-> <<>>, rest |-> z]
  BY <1>6, CutStays
<1> QED  BY <1>3, <1>7, <1>8 DEF Outcome, z

\* What the stages make of a clean text that was walked to, ...
LEMMA OutcomeWalked ==
  ASSUME Interactive, NEW taken, NEW ok, NEW z \in Seq(Chars), Clean(z),
         Plain(taken, ok) = z
  PROVE  Outcome(taken, ok, <<>>, z, Walk(taken, ok).cursor)
<1>1. NoSpecial(z) /\ Commands \in Seq(Seq(Chars))
  BY TextIs DEF Clean
<1>2. ProcessBackspace(z) = z /\ ProcessTab(z).buf = z
  BY <1>1, EditingStays
<1>3. CutOf(taken, ok) = GetCompleteLines(z)
  BY <1>2 DEF CutOf, Completed, Edited
<1>4. GetCompleteLines(z) = [lines |-> <<>>, rest |-> z]
  BY CutStays
<1> QED  BY <1>3, <1>4 DEF Outcome

\* ... as an arrow does, which recalls an entry of the history or goes.
LEMMA OutcomeArrow ==
  ASSUME Interactive, buffer \in Seq(Chars), Clean(buffer), NEW taken, NEW ok,
         history \in Seq(Seq(Chars)), cursor \in 1 .. Len(history) + 1,
         \A i \in 1 .. Len(history) : Clean(history[i]),
         NEW k \in Chars, k \in Arrows, Raw(taken) = Append(buffer, k)
  PROVE  \E z \in Seq(Chars), c \in 1 .. Len(history) + 1 :
           /\ Outcome(taken, ok, <<>>, z, c) /\ Clean(z)
           /\ k = "up" /\ history # <<>> =>
                /\ c = IF cursor # 1 THEN cursor - 1 ELSE cursor
                /\ z = history[c]
<1> DEFINE raw == Append(buffer, k)
           w == Walk(taken, ok)
<1>1. NoSpecial(buffer) /\ raw \in Seq(Chars)
  BY AppendProperties DEF Clean
<1>2. /\ w.buf \in Seq(Chars) /\ w.cursor \in 1 .. Len(history) + 1
      /\ \/ w.buf = raw /\ w.cursor = cursor
         \/ history # <<>> /\ w.cursor \in 1 .. Len(history) /\ w.buf = history[w.cursor]
  <2>1. w = ProcessCommandHistory(raw, ok)
    BY DEF Walk
  <2> HIDE DEF raw, w
  <2> QED  BY <1>1, <2>1, WalkIs
<1>3. k = "up" /\ history # <<>> =>
        /\ w.cursor = IF cursor # 1 THEN cursor - 1 ELSE cursor
        /\ w.buf = history[w.cursor]
  <2> SUFFICES ASSUME k = "up", history # <<>>
               PROVE  /\ w.cursor = IF cursor # 1 THEN cursor - 1 ELSE cursor
                      /\ w.buf = history[w.cursor]
    OBVIOUS
  <2>1. \A i \in 1 .. Len(buffer) : buffer[i] \notin {"up"}
    BY <1>1 DEF NoSpecial, Special, Arrows
  <2>2. First(raw, {"up"}) = Len(buffer) + 1 /\ Len(buffer) \in Nat
    BY <2>1, FirstAtEnd, LenProperties
  <2> DEFINE c == IF cursor # 1 THEN cursor - 1 ELSE cursor
  <2>3. First(raw, {"up"}) # 0
    BY <2>2
  <2>4. w = Recalled(c, ok)
    BY <2>3 DEF Walk, ProcessCommandHistory
  <2> HIDE DEF c, w
  <2>5. w.buf = history[c] /\ w.cursor = c
    BY <2>4 DEF Recalled
  <2> QED  BY <2>5 DEF c
<1> DEFINE z == Plain(taken, ok)
           c == w.cursor
<1>4. z \in Seq(Chars) /\ Clean(z)
      /\ (k = "up" /\ history # <<>> => z = history[c])
  <2> HIDE DEF w
  <2>1. z = StripEscapeCharacters(w.buf)
    BY DEF Plain, w
  <2>2. CASE w.buf = raw /\ ~(k = "up" /\ history # <<>>)
    <3>1. StripEscapeCharacters(raw) = buffer
      BY ArrowGoes
    <3> HIDE DEF z
    <3> QED  BY <2>1, <2>2, <3>1
  <2>3. CASE history # <<>> /\ w.cursor \in 1 .. Len(history) /\ w.buf = history[w.cursor]
    <3>1. Clean(w.buf) /\ NoSpecial(w.buf)
      BY <2>3 DEF Clean
    <3>2. StripEscapeCharacters(w.buf) = w.buf
      BY <1>2, <3>1, TextIs, EditingStays
    <3> HIDE DEF z
    <3> QED  BY <1>2, <2>1, <2>3, <3>1, <3>2
  <2>4. k = "up" /\ history # <<>> => history # <<>> /\ w.cursor \in 1 .. Len(history) /\ w.buf = history[w.cursor]
    <3>1. Len(history) \in Nat \ {0} \/ history = <<>>
      BY LenProperties, EmptySeq
    <3> QED  BY <1>3, <3>1
  <2> QED  BY <1>2, <2>2, <2>3, <2>4
<1>5. Outcome(taken, ok, <<>>, z, c)
  <2> HIDE DEF z
  <2> QED  BY <1>4, OutcomeWalked DEF z
<1> HIDE DEF z, w, c
<1>6. c \in 1 .. Len(history) + 1 /\ (k = "up" /\ history # <<>> => c = IF cursor # 1 THEN cursor - 1 ELSE cursor)
  BY <1>2, <1>3 DEF c
<1> QED  BY <1>4, <1>5, <1>6

-----------------------------------------------------------------------------
(* A client in character mode: what one key does to the session.           *)

\* Where a stream ends in a key.
EndsIn(s, k) == s # <<>> /\ Last(s) = k

\* What one recv() returns.
LEMMA OneKey ==
  ASSUME setting \in DOMAIN Settings, OneByOne, NEW taken \in Settings[setting].segments
  PROVE  /\ taken \in Seq(Chars)
         /\ \/ Len(taken) = 1 /\ taken[1] # "iac" /\ taken[1] \in Chars
            \/ Len(taken) = 2 /\ taken[1] = "cr" /\ taken[2] = "lf"
<1>1. taken \in Seq(Chars)
  BY SegmentIs
<1>2. taken = <<"cr", "lf">> \/ (Len(taken) = 1 /\ taken # <<"iac">>)
  BY DEF OneByOne
<1>3. CASE taken = <<"cr", "lf">>
  BY <1>1, <1>3
<1>4. CASE Len(taken) = 1 /\ taken # <<"iac">>
  <2>1. 1 \in 1 .. Len(taken)
    BY <1>4
  <2>2. taken[1] \in Chars
    BY <1>1, <2>1, ElementOfSeq
  <2>3. ASSUME taken[1] = "iac" PROVE FALSE
    <3> DEFINE t == <<"iac">>
    <3>1. t \in Seq(Chars) /\ Len(t) = 1 /\ t[1] = "iac"
      BY <2>2, <2>3
    <3> HIDE DEF t
    <3>2. \A i \in 1 .. 1 : taken[i] = t[i]
      BY <2>3, <3>1
    <3>3. taken = t
      BY <1>1, <1>4, <3>1, <3>2, SeqEqual
    <3> QED  BY <1>4, <3>3 DEF t
  <2> QED  BY <1>1, <1>4, <2>2, <2>3
<1> QED  BY <1>2, <1>3, <1>4

\* Enter: a line of z, which is m_buffer, or m_buffer without its CR.
Entered(taken, ok, z) ==
  /\ Outcome(taken, ok, <<z>>, <<>>, cursor) /\ Clean(z)
  /\ \/ Len(taken) = 2 /\ taken[1] = "cr" /\ taken[2] = "lf" /\ z = buffer
     \/ /\ Len(taken) = 1 /\ Key(taken[1]) = "lf" /\ EndsIn(buffer, "cr")
        /\ z = Front(buffer)

\* Another key: it recalls, erases, completes or stands for itself.
Pressed(taken, ok, z, c) ==
  /\ Outcome(taken, ok, <<>>, z, c) /\ Clean(z) /\ Len(taken) = 1
  /\ taken[1] # "iac" /\ taken[1] \in Chars
  /\ LET k == Key(taken[1])
     IN  /\ k = "up" /\ history # <<>> =>
              /\ c = IF cursor # 1 THEN cursor - 1 ELSE cursor
              /\ z = history[c]
         /\ k \in {"bs", "del"} => z = IF buffer = <<>> THEN <<>> ELSE Front(buffer)
         /\ k = "tab" =>
              z = IF Cardinality(Matches(buffer)) = 1 THEN Match(buffer) ELSE buffer
         /\ k \notin Special =>
              ~(k = "lf" /\ EndsIn(buffer, "cr")) /\ z = Append(buffer, k)

\* Every key is one or the other.
LEMMA KeyKinds ==
  ASSUME TypeOK, Interactive, Hooked, OneByOne, Clean(buffer),
         \A i \in 1 .. Len(history) : Clean(history[i]),
         NEW taken \in Settings[setting].segments, NEW ok
  PROVE  \/ \E z \in Seq(Chars) : Entered(taken, ok, z)
         \/ \E z \in Seq(Chars), c \in 1 .. Len(history) + 1 : Pressed(taken, ok, z, c)
<1>1. /\ buffer \in Seq(Chars) /\ history \in Seq(Seq(Chars))
      /\ cursor \in 1 .. Len(history) + 1 /\ setting \in DOMAIN Settings
      /\ NoSpecial(buffer)
  BY CommandsAre DEF TypeOK, Clean
<1>2. /\ taken \in Seq(Chars)
      /\ \/ Len(taken) = 1 /\ taken[1] # "iac" /\ taken[1] \in Chars
         \/ Len(taken) = 2 /\ taken[1] = "cr" /\ taken[2] = "lf"
  BY <1>1, OneKey
<1>3. CASE Len(taken) = 2 /\ taken[1] = "cr" /\ taken[2] = "lf"
  <2> DEFINE raw == Append(Append(buffer, "cr"), "lf")
  <2>1. Raw(taken) = raw /\ "cr" \in Chars
    BY <1>1, <1>2, <1>3, RawEnter
  <2>2. Clean(Append(buffer, "cr"))
    <3>1. "cr" \notin Special
      BY DEF Special, Arrows
    <3> QED  BY <1>1, <2>1, <3>1, CleanAppend
  <2> HIDE DEF raw
  <2>3. Outcome(taken, ok, <<buffer>>, <<>>, cursor)
    BY <1>1, <2>1, <2>2, OutcomeLine DEF raw
  <2> QED  BY <1>1, <1>3, <2>3 DEF Entered
<1>4. CASE Len(taken) = 1 /\ taken[1] # "iac" /\ taken[1] \in Chars
  <2> DEFINE k == Key(taken[1])
             raw == Append(buffer, k)
  <2>1. Raw(taken) = raw /\ k \in Chars
    BY <1>1, <1>2, <1>4, RawKey
  <2>2. k # "iac" /\ k # "nul"
    BY <1>4 DEF Key
  <2> HIDE DEF k, raw
  <2>3. CASE k = "lf" /\ EndsIn(buffer, "cr")
    <3> DEFINE z == Front(buffer)
    <3>1. z \in Seq(Chars) /\ buffer = Append(z, "cr") /\ "cr" \in Chars /\ Clean(z)
      <4>1. buffer # <<>> /\ Last(buffer) = "cr"
        BY <2>3 DEF EndsIn
      <4> QED  BY <1>1, <4>1, FrontIs, CleanFront
    <3> HIDE DEF z
    <3>2. Clean(Append(z, "cr")) /\ raw = Append(Append(z, "cr"), "lf")
      BY <2>3, <3>1 DEF raw
    <3>3. Outcome(taken, ok, <<z>>, <<>>, cursor)
      BY <2>1, <3>1, <3>2, OutcomeLine
    <3>4. Entered(taken, ok, z)
      BY <1>4, <2>3, <3>1, <3>3 DEF Entered, k, z
    <3> QED  BY <3>1, <3>4
  <2>4. CASE k \in Arrows
    <3>1. PICK z \in Seq(Chars), c \in 1 .. Len(history) + 1 :
             /\ Outcome(taken, ok, <<>>, z, c) /\ Clean(z)
             /\ k = "up" /\ history # <<>> =>
                  /\ c = IF cursor # 1 THEN cursor - 1 ELSE cursor
                  /\ z = history[c]
      BY <1>1, <2>1, <2>4, OutcomeArrow DEF raw
    <3>2. k \notin {"bs", "del"} /\ k # "tab" /\ k \in Special
      BY <2>4 DEF Arrows, Special
    <3>3. Pressed(taken, ok, z, c)
      BY <1>4, <3>1, <3>2 DEF Pressed, k
    <3> QED  BY <3>3
  <2>5. CASE k \in {"bs", "del"}
    <3> DEFINE z == IF buffer = <<>> THEN <<>> ELSE Front(buffer)
    <3>1. z \in Seq(Chars) /\ Clean(z)
      <4>1. CASE buffer = <<>>
        BY <4>1
      <4>2. CASE buffer # <<>>
        BY <1>1, <4>2, FrontIs, CleanFront
      <4> QED  BY <4>1, <4>2
    <3>2. Outcome(taken, ok, <<>>, z, cursor)
      BY <1>1, <2>1, <2>5, OutcomeErase DEF raw
    <3>3. k # "up" /\ k # "tab" /\ k \in Special
      BY <2>5 DEF Special
    <3>4. Pressed(taken, ok, z, cursor)
      BY <1>4, <3>1, <3>2, <3>3 DEF Pressed, k
    <3> HIDE DEF z
    <3> QED  BY <1>1, <3>1, <3>4
  <2>6. CASE k = "tab"
    <3> DEFINE z == IF Cardinality(Matches(buffer)) = 1 THEN Match(buffer) ELSE buffer
    <3>1. z \in Seq(Chars) /\ Clean(z)
      BY <1>1, CommandIsClean
    <3>2. Outcome(taken, ok, <<>>, z, cursor)
      BY <1>1, <2>1, <2>6, OutcomeTab DEF raw
    <3>3. k # "up" /\ k \notin {"bs", "del"} /\ k \in Special
      BY <2>6 DEF Special
    <3>4. Pressed(taken, ok, z, cursor)
      BY <1>4, <3>1, <3>2, <3>3 DEF Pressed, k
    <3> HIDE DEF z
    <3> QED  BY <1>1, <3>1, <3>4
  <2>7. CASE k \notin Special /\ ~(k = "lf" /\ EndsIn(buffer, "cr"))
    <3>1. Clean(raw) /\ raw \in Seq(Chars)
      BY <1>1, <2>1, <2>7, CleanAppend DEF EndsIn, raw
    <3>2. Outcome(taken, ok, <<>>, raw, cursor)
      BY <2>1, <3>1, OutcomePlain
    <3>3. k # "up" /\ k \notin {"bs", "del"} /\ k # "tab"
      BY <2>7 DEF Special, Arrows
    <3>4. Pressed(taken, ok, raw, cursor)
      BY <1>4, <2>7, <3>1, <3>2, <3>3 DEF Pressed, k, raw
    <3> QED  BY <1>1, <3>1, <3>4
  <2>8. k \in Arrows \/ k \in {"bs", "del"} \/ k = "tab" \/ k \notin Special
    BY <2>2 DEF Special
  <2> QED  BY <2>3, <2>4, <2>5, <2>6, <2>7, <2>8
<1> QED  BY <1>2, <1>3, <1>4

\* update() without a new line leaves the history.
LEMMA AfterKey ==
  ASSUME TypeOK, NEW taken \in Settings[setting].segments, NEW ok, Update(taken, ok),
         NewLines(taken, ok) = <<>>
  PROVE  /\ history' = history /\ executed' = executed
         /\ Interactive => cursor' = Walk(taken, ok).cursor
<1> DEFINE h == StartOfHistory(taken, ok)
           op == [a \in Histories(Chars) |-> [e \in Seq(Chars) |-> AddToHistory(a, e)]]
<1>1. /\ buffer \in Seq(Chars) /\ history \in Seq(Seq(Chars)) /\ executed \in Seq(Seq(Chars))
      /\ cursor \in 1 .. Len(history) + 1 /\ setting \in DOMAIN Settings
      /\ taken \in Seq(Chars) /\ "lf" \in Chars /\ Commands \in Seq(Seq(Chars))
  BY CommandsAre, TextIs, SegmentIs DEF TypeOK
<1>2. h \in Histories(Chars)
  BY <1>1, StageTypes
<1>3. /\ history' = NewHistory(taken, ok).list /\ cursor' = NewHistory(taken, ok).cursor
      /\ executed' = executed \o <<>>
  BY UpdateIs
<1>4. <<>> \in Seq(Seq(Chars)) /\ Len(<<>>) = 0
  OBVIOUS
<1>5. NewHistory(taken, ok) = h
  <2>1. NewHistory(taken, ok) = FoldLeft(AddToHistory, h, <<>>)
    BY DEF NewHistory
  <2> HIDE DEF h
  <2>2. FoldsTo(FoldLeft(AddToHistory, h, <<>>), Histories(Chars), op, h, <<>>)
    BY <1>2, <1>4, HistoryFold
  <2> HIDE DEF op
  <2>3. FoldLeft(AddToHistory, h, <<>>) = h
    BY <1>4, <2>2, FoldsNone
  <2> QED  BY <2>1, <2>3
<1>6. h.list = history /\ (Interactive => h.cursor = Walk(taken, ok).cursor)
  BY DEF StartOfHistory
<1>7. executed \o <<>> = executed
  BY <1>1, ConcatEmptySeq
<1> QED  BY <1>3, <1>5, <1>6, <1>7

\* With one it is behind the history, if it is new, and the cursor at the end.
LEMMA AfterEnter ==
  ASSUME TypeOK, NEW taken \in Settings[setting].segments, NEW ok, Update(taken, ok),
         NEW z \in Seq(Chars), NewLines(taken, ok) = <<z>>
  PROVE  /\ executed' = Append(executed, z) /\ cursor' = Len(history') + 1
         /\ history' \in Seq(Seq(Chars))
         /\ \A i \in 1 .. Len(history') :
              history'[i] = z \/ \E j \in 1 .. Len(history) : history'[i] = history[j]
<1> DEFINE h == StartOfHistory(taken, ok)
           op == [a \in Histories(Chars) |-> [e \in Seq(Chars) |-> AddToHistory(a, e)]]
           s == <<z>>
           T == Seq(Chars)
<1>1. /\ buffer \in Seq(Chars) /\ history \in Seq(Seq(Chars)) /\ executed \in Seq(Seq(Chars))
      /\ cursor \in 1 .. Len(history) + 1 /\ setting \in DOMAIN Settings
      /\ taken \in Seq(Chars) /\ "lf" \in Chars /\ Commands \in Seq(Seq(Chars))
  BY CommandsAre, TextIs, SegmentIs DEF TypeOK
<1>2. h \in Histories(Chars) /\ h.list = history
  <2>1. h.list = history
    BY DEF StartOfHistory
  <2> QED  BY <1>1, <2>1, StageTypes
<1>3. /\ history' = NewHistory(taken, ok).list /\ cursor' = NewHistory(taken, ok).cursor
      /\ executed' = executed \o s
  BY UpdateIs
<1>4. s \in Seq(T) /\ Len(s) = 1 /\ s[1] = z
  OBVIOUS
<1>5. executed \o s = Append(executed, z)
  <2>1. executed \in Seq(T) /\ z \in T
    BY <1>1
  <2> HIDE DEF T
  <2> QED  BY <2>1, AppendIsConcat
<1>6. NewHistory(taken, ok) = AddToHistory(h, z)
  <2>1. NewHistory(taken, ok) = FoldLeft(AddToHistory, h, s)
    BY DEF NewHistory
  <2> HIDE DEF h, s
  <2>2. FoldsTo(FoldLeft(AddToHistory, h, s), Histories(Chars), op, h, s)
    BY <1>2, <1>4, HistoryFold DEF T
  <2>3. op[h][z] = AddToHistory(h, z)
    BY <1>2
  <2> HIDE DEF op
  <2> DEFINE H == Histories(Chars)
             y == FoldLeft(AddToHistory, h, s)
  <2>4. y = op[h][s[1]]
    <3>1. FoldsTo(y, H, op, h, s)
      BY <2>2
    <3> HIDE DEF H, y
    <3> QED  BY <1>4, <3>1, FoldsOne
  <2> QED  BY <1>4, <2>1, <2>3, <2>4
<1>7. /\ AddToHistory(h, z) \in Histories(Chars)
      /\ AddToHistory(h, z).list = Popped(Longer(h, z))
      /\ AddToHistory(h, z).cursor = Len(Popped(Longer(h, z))) + 1
  BY <1>2, AddToHistoryIs
<1> DEFINE l == Longer(h, z)
           p == Popped(l)
<1>8. l = history \/ l = Append(history, z)
  BY <1>2 DEF Longer
<1>9. /\ l \in Seq(T)
      /\ \A i \in 1 .. Len(l) : l[i] = z \/ \E j \in 1 .. Len(history) : l[i] = history[j]
  <2> DEFINE w == Append(history, z)
  <2>1. history \in Seq(T) /\ z \in T
    BY <1>1
  <2> HIDE DEF T
  <2>2. /\ w \in Seq(T) /\ Len(w) = Len(history) + 1 /\ w[Len(history) + 1] = z
        /\ \A i \in 1 .. Len(history) : w[i] = history[i]
    BY <2>1, AppendProperties
  <2>3. Len(history) \in Nat
    BY <2>1, LenProperties
  <2>4. \A i \in 1 .. Len(history) + 1 : i = Len(history) + 1 \/ i \in 1 .. Len(history)
    BY <2>3
  <2> HIDE DEF w
  <2>5. \A i \in 1 .. Len(w) : w[i] = z \/ \E j \in 1 .. Len(history) : w[i] = history[j]
    BY <2>2, <2>4
  <2> HIDE DEF l
  <2> QED  BY <1>8, <2>1, <2>2, <2>5 DEF w
<1>10. \A i \in 1 .. Len(p) : p[i] = z \/ \E j \in 1 .. Len(history) : p[i] = history[j]
  <2> HIDE DEF l, T
  <2>1. CASE Len(l) > HistoryLimit
    <3> DEFINE t == Tail(l)
    <3>1. p = t
      BY <2>1 DEF Popped
    <3>2. l # <<>> /\ Len(l) \in Nat
      <4>1. Len(l) \in Nat /\ Len(l) # 0
        BY <1>9, <2>1, LimitsAssumption, LenProperties
      <4> QED  BY <1>9, <4>1, EmptySeq
    <3>3. Len(t) = Len(l) - 1 /\ \A i \in 1 .. Len(t) : t[i] = l[i + 1]
      BY <1>9, <3>2, HeadTailProperties
    <3> HIDE DEF t, p
    <3>4. \A i \in 1 .. Len(t) : i + 1 \in 1 .. Len(l)
      BY <3>2, <3>3
    <3> QED  BY <1>9, <3>1, <3>3, <3>4
  <2>2. CASE ~(Len(l) > HistoryLimit)
    <3>1. p = l
      BY <2>2 DEF Popped
    <3> HIDE DEF p
    <3> QED  BY <1>9, <3>1
  <2> QED  BY <2>1, <2>2
<1> HIDE DEF p, h
<1>11. history' = p /\ cursor' = Len(p) + 1
  BY <1>3, <1>6, <1>7 DEF p
<1>12. history' \in Seq(T)
  BY <1>3, <1>6, <1>7 DEF Histories
<1> QED  BY <1>3, <1>5, <1>10, <1>11, <1>12

-----------------------------------------------------------------------------
(* A client in character mode: what it types, and how it walks back.       *)

\* The stream s ends with CR LF and k up arrows.
UpsSince(s, k) ==
  /\ k \in Nat /\ Len(s) - k > 1
  /\ s[Len(s) - k - 1] = "cr" /\ s[Len(s) - k] = "lf"
  /\ \A j \in Len(s) - k + 1 .. Len(s) : s[j] = "up"

\* After k up arrows m_historyCursor is at the k-th last entry, or at the oldest,
\* and that is what m_buffer shows.
Walked ==
  \A k \in Nat : UpsSince(received, k) /\ history # <<>> =>
    /\ cursor = IF k > Len(history) THEN 1 ELSE Len(history) + 1 - k
    /\ k > 0 => buffer = history[cursor]

\* What update() leaves behind in character mode.
EditInv ==
  /\ ~Hooked => history = <<>>
  /\ Interactive /\ Hooked /\ OneByOne =>
       /\ Clean(buffer)
       /\ \A i \in 1 .. Len(history) : Clean(history[i])
       /\ EndsIn(received, "cr") => EndsIn(buffer, "cr")
       /\ Range(received) \cap Arrows = {} => Typed = Line(buffer, executed, 0)
       /\ Walked

\* One key more at the end of a stream.
LEMMA UpsOneMore ==
  ASSUME NEW K, NEW s \in Seq(K), NEW x \in K, NEW k, UpsSince(Append(s, x), k)
  PROVE  \/ k = 0 /\ x = "lf" /\ EndsIn(s, "cr")
         \/ k > 0 /\ k - 1 \in Nat /\ x = "up" /\ UpsSince(s, k - 1)
<1> DEFINE t == Append(s, x)
           n == Len(s)
<1>1. /\ t \in Seq(K) /\ Len(t) = n + 1 /\ t[n + 1] = x /\ n \in Nat
      /\ \A i \in 1 .. n : t[i] = s[i]
  BY AppendProperties, LenProperties
<1> HIDE DEF t, n
<1>2. /\ k \in Nat /\ (n + 1) - k > 1
      /\ t[(n + 1) - k - 1] = "cr" /\ t[(n + 1) - k] = "lf"
      /\ \A j \in (n + 1) - k + 1 .. n + 1 : t[j] = "up"
  <2>1. /\ k \in Nat /\ Len(t) - k > 1
        /\ t[Len(t) - k - 1] = "cr" /\ t[Len(t) - k] = "lf"
        /\ \A j \in Len(t) - k + 1 .. Len(t) : t[j] = "up"
    BY DEF UpsSince, t
  <2> QED  BY <1>1, <2>1
<1>3. CASE k = 0
  <2>1. (n + 1) - k = n + 1 /\ (n + 1) - k - 1 = n /\ n \in 1 .. n
    BY <1>1, <1>2, <1>3
  <2>2. x = "lf" /\ s[n] = "cr"
    BY <1>1, <1>2, <2>1
  <2>3. s # <<>> /\ Last(s) = s[n]
    BY <1>1, <2>1, EmptySeq DEF Last, n
  <2> QED  BY <1>3, <2>2, <2>3 DEF EndsIn
<1>4. CASE k > 0
  <2> DEFINE m == k - 1
  <2>1. m \in Nat /\ (n + 1) - k = n - m /\ (n + 1) - k - 1 = n - m - 1 /\ n - m > 1
    BY <1>1, <1>2, <1>4
  <2>2. n - m \in 1 .. n /\ n - m - 1 \in 1 .. n
    BY <1>1, <2>1
  <2>3. x = "up"
    <3>1. n + 1 \in (n + 1) - k + 1 .. n + 1
      BY <1>1, <1>2, <1>4
    <3> QED  BY <1>1, <1>2, <3>1
  <2>4. \A j \in n - m + 1 .. n : s[j] = "up"
    <3> TAKE j \in n - m + 1 .. n
    <3>1. j \in 1 .. n /\ j \in (n + 1) - k + 1 .. n + 1
      BY <1>1, <1>2, <2>1
    <3> QED  BY <1>1, <1>2, <3>1
  <2> HIDE DEF m
  <2>5. s[n - m - 1] = "cr" /\ s[n - m] = "lf"
    BY <1>1, <1>2, <2>1, <2>2
  <2>6. UpsSince(s, m)
    BY <2>1, <2>4, <2>5 DEF UpsSince, n
  <2> QED  BY <1>4, <2>1, <2>3, <2>6 DEF m
<1> QED  BY <1>2, <1>3, <1>4

\* The stream that ends with Enter.
LEMMA NoUpsSinceEnter ==
  ASSUME NEW K, NEW s \in Seq(K), NEW t \in Seq(K), NEW k, UpsSince(s \o t, k),
         t # <<>>, t[Len(t)] # "up"
  PROVE  k = 0
<1> DEFINE w == s \o t
           m == Len(s)
           n == Len(t)
<1>1. /\ m \in Nat /\ n \in Nat \ {0} /\ Len(w) = m + n
      /\ \A i \in 1 .. m + n : w[i] = IF i <= m THEN s[i] ELSE t[i - m]
  BY ConcatProperties, LenProperties, EmptySeq
<1> HIDE DEF w, m, n
<1>2. m + n \in 1 .. m + n /\ ~(m + n <= m) /\ (m + n) - m = n
  BY <1>1
<1>3. w[m + n] # "up"
  BY <1>1, <1>2 DEF n
<1>4. k \in Nat /\ \A j \in Len(w) - k + 1 .. Len(w) : w[j] = "up"
  BY DEF UpsSince, w
<1>5. k > 0 => m + n \in Len(w) - k + 1 .. Len(w)
  BY <1>1, <1>4
<1> QED  BY <1>3, <1>4, <1>5

\* The keys received, before and after one recv().
LEMMA TypedMore ==
  ASSUME TypeOK, setting' = setting, NEW taken \in Seq(Chars),
         received' = received \o taken
  PROVE  /\ received \in Seq(Chars) /\ Typed \in Meanings(Chars)
         /\ Len(taken) = 1 => Typed' = TypeKey(Typed, Key(taken[1]))
         /\ Len(taken) = 2 => Typed' = TypeKey(TypeKey(Typed, taken[1]), taken[2])
<1> DEFINE start == Start(<<>>)
<1>1. "lf" \in Chars /\ Commands \in Seq(Seq(Chars))
  BY TextIs
<1>2. received \in Seq(Chars)
  <2>1. received \in Seq(Keys) /\ Keys \subseteq Chars
    BY DEF TypeOK, Chars
  <2>2. /\ Len(received) \in Nat /\ received \in [1 .. Len(received) -> Keys]
    BY <2>1, LenProperties
  <2>3. received \in [1 .. Len(received) -> Chars]
    BY <2>1, <2>2
  <2> QED  BY <2>2, <2>3, SeqDef
<1>3. start \in Meanings(Chars)
  <2>1. <<>> \in Seq(Seq(Chars))
    OBVIOUS
  <2> QED  BY <2>1, StartIs
<1>4. Typed = TypedFrom(start, received) /\ Typed' = TypedFrom(start, received \o taken)
  BY TypedIs
<1> HIDE DEF start
<1>5. /\ TypedFrom(start, received) \in Meanings(Chars)
      /\ TypedFrom(start, received \o taken) = TypedFrom(TypedFrom(start, received), taken)
  BY <1>1, <1>2, <1>3, TypedJoins
<1> DEFINE e == Typed
<1>6. e \in Meanings(Chars) /\ Typed' = TypedFrom(e, taken)
  BY <1>4, <1>5
<1> HIDE DEF e
<1>7. /\ Len(taken) = 1 => TypedFrom(e, taken) = TypeKey(e, taken[1])
      /\ Len(taken) = 2 => TypedFrom(e, taken) = TypeKey(TypeKey(e, taken[1]), taken[2])
  BY <1>1, <1>6, TypedFew
<1>8. TypeKey(e, taken[1]) = TypeKey(e, Key(taken[1]))
  BY DEF TypeKey, Key
<1> QED  BY <1>2, <1>6, <1>7, <1>8 DEF e

\* Enter ends the line that was typed.
LEMMA EnterIsTyped ==
  ASSUME TypeOK, Clean(buffer), NEW taken \in Seq(Chars), NEW ok, NEW z \in Seq(Chars),
         Entered(taken, ok, z), setting' = setting, received' = received \o taken,
         Typed = Line(buffer, executed, 0)
  PROVE  Typed' = Line(<<>>, Append(executed, z), 0)
<1>1. /\ Len(taken) = 1 => Typed' = TypeKey(Line(buffer, executed, 0), Key(taken[1]))
      /\ Len(taken) = 2 => Typed' = TypeKey(TypeKey(Line(buffer, executed, 0), taken[1]), taken[2])
  BY TypedMore
<1>2. CASE Len(taken) = 2 /\ taken[1] = "cr" /\ taken[2] = "lf" /\ z = buffer
  <2> DEFINE w == Append(buffer, "cr")
  <2>1. TypeKey(Line(buffer, executed, 0), "cr") = Line(w, executed, 0)
    BY KeyTypes
  <2>2. w # <<>> /\ Last(w) = "cr" /\ Front(w) = z
    <3>1. 1 \in 1 .. Len(taken)
      BY <1>2
    <3>2. "cr" \in Chars
      BY <1>2, <3>1, ElementOfSeq
    <3>3. /\ Append(z, "cr") # <<>> /\ Last(Append(z, "cr")) = "cr"
          /\ Front(Append(z, "cr")) = z
      BY <3>2, FrontOfAppend
    <3> QED  BY <1>2, <3>3
  <2> HIDE DEF w
  <2>3. TypeKey(Line(w, executed, 0), "lf") = Line(<<>>, Append(executed, Front(w)), 0)
    BY <2>2, KeyEnds
  <2> QED  BY <1>1, <1>2, <2>1, <2>2, <2>3
<1>3. CASE Len(taken) = 1 /\ Key(taken[1]) = "lf" /\ EndsIn(buffer, "cr") /\ z = Front(buffer)
  <2>1. TypeKey(Line(buffer, executed, 0), "lf") = Line(<<>>, Append(executed, Front(buffer)), 0)
    BY <1>3, KeyEnds DEF EndsIn
  <2> QED  BY <1>1, <1>3, <2>1
<1> QED  BY <1>2, <1>3 DEF Entered

\* A key changes it as it changes m_buffer.
LEMMA PressIsTyped ==
  ASSUME TypeOK, Interactive, Clean(buffer), NEW taken \in Seq(Chars), NEW ok,
         NEW z \in Seq(Chars), NEW c, Pressed(taken, ok, z, c),
         setting' = setting, received' = received \o taken,
         taken[1] \notin Arrows, Typed = Line(buffer, executed, 0)
  PROVE  Typed' = Line(z, executed, 0)
<1> DEFINE k == Key(taken[1])
<1>1. Typed' = TypeKey(Line(buffer, executed, 0), k)
  BY TypedMore DEF Pressed
<1>2. k \notin Arrows /\ k # "iac" /\ k # "nul"
  BY DEF Key, Pressed, Arrows
<1> HIDE DEF k
<1>3. CASE k \in {"bs", "del"}
  <2> DEFINE w == IF buffer = <<>> THEN <<>> ELSE Front(buffer)
  <2>1. z = w
    BY <1>3 DEF Pressed, k
  <2>2. TypeKey(Line(buffer, executed, 0), k) = Line(w, executed, 0)
    BY <1>3, KeyErases
  <2> QED  BY <1>1, <2>1, <2>2
<1>4. CASE k = "tab"
  <2> DEFINE w == IF Cardinality(Matches(buffer)) = 1 THEN Match(buffer) ELSE buffer
  <2>1. z = w
    BY <1>4 DEF Pressed, k
  <2>2. TypeKey(Line(buffer, executed, 0), k) = Line(w, executed, 0)
    BY <1>4, KeyCompletes
  <2> QED  BY <1>1, <2>1, <2>2
<1>5. CASE k \notin Special
  <2>1. ~(k = "lf" /\ EndsIn(buffer, "cr")) /\ z = Append(buffer, k)
    BY <1>5 DEF Pressed, k
  <2>2. k \notin {"iac", "nul"} /\ k \notin {"bs", "del", "tab"}
    BY <1>5 DEF Special
  <2>3. TypeKey(Line(buffer, executed, 0), k) = Line(Append(buffer, k), executed, 0)
    BY <2>1, <2>2, KeyTypes DEF EndsIn
  <2> QED  BY <1>1, <2>1, <2>3
<1>6. k \in {"bs", "del"} \/ k = "tab" \/ k \notin Special
  BY <1>2 DEF Special
<1> QED  BY <1>3, <1>4, <1>5, <1>6

\* The last key of a stream that goes on.
LEMMA LastOf ==
  ASSUME NEW K, NEW s \in Seq(K), NEW t \in Seq(K), t # <<>>
  PROVE  s \o t # <<>> /\ Last(s \o t) = t[Len(t)]
<1> DEFINE w == s \o t
           m == Len(s)
           n == Len(t)
<1>1. /\ w \in Seq(K) /\ m \in Nat /\ n \in Nat \ {0} /\ Len(w) = m + n
      /\ \A i \in 1 .. m + n : w[i] = IF i <= m THEN s[i] ELSE t[i - m]
  BY ConcatProperties, LenProperties, EmptySeq
<1> HIDE DEF w, m, n
<1>2. m + n \in 1 .. m + n /\ ~(m + n <= m) /\ (m + n) - m = n /\ m + n # 0
  BY <1>1
<1>3. w[m + n] = t[n] /\ w # <<>>
  BY <1>1, <1>2, EmptySeq
<1>4. Last(w) = w[m + n]
  BY <1>1 DEF Last
<1> QED  BY <1>3, <1>4 DEF w, n

\* A stream without arrows has none in its parts.
LEMMA NoArrows ==
  ASSUME NEW K, NEW s \in Seq(K), NEW t \in Seq(K), Range(s \o t) \cap Arrows = {}
  PROVE  /\ Range(s) \cap Arrows = {}
         /\ \A i \in 1 .. Len(t) : t[i] \notin Arrows
<1> DEFINE w == s \o t
           m == Len(s)
           n == Len(t)
<1>1. /\ m \in Nat /\ n \in Nat /\ DOMAIN w = 1 .. m + n
      /\ DOMAIN s = 1 .. m
      /\ \A i \in 1 .. m + n : w[i] = IF i <= m THEN s[i] ELSE t[i - m]
  <2>1. /\ w \in Seq(K) /\ Len(w) = m + n
        /\ \A i \in 1 .. m + n : w[i] = IF i <= m THEN s[i] ELSE t[i - m]
    BY ConcatProperties
  <2>2. DOMAIN w = 1 .. Len(w) /\ DOMAIN s = 1 .. m /\ m \in Nat /\ n \in Nat
    <3> HIDE DEF w
    <3> QED  BY <2>1, LenProperties
  <2> QED  BY <2>1, <2>2
<1>2. \A i \in DOMAIN w : w[i] \notin Arrows
  BY DEF Range
<1> HIDE DEF w, m, n
<1>3. \A i \in 1 .. m : s[i] \notin Arrows
  <2>1. \A i \in 1 .. m : i \in 1 .. m + n /\ i <= m
    BY <1>1
  <2> QED  BY <1>1, <1>2, <2>1
<1>4. ASSUME NEW i \in 1 .. n PROVE t[i] \notin Arrows
  <2>1. m + i \in 1 .. m + n /\ ~(m + i <= m) /\ (m + i) - m = i
    BY <1>1
  <2> QED  BY <1>1, <1>2, <2>1
<1> QED  BY <1>1, <1>3, <1>4 DEF Range, n

\* What is to be kept in character mode.
Edits ==
  /\ Clean(buffer)
  /\ \A i \in 1 .. Len(history) : Clean(history[i])
  /\ EndsIn(received, "cr") => EndsIn(buffer, "cr")
  /\ Range(received) \cap Arrows = {} => Typed = Line(buffer, executed, 0)
  /\ Walked

\* Enter keeps it.
LEMMA EnterKeepsEdits ==
  ASSUME TypeOK, Edits, Interactive, Hooked, OneByOne, setting' = setting,
         NEW taken \in Settings[setting].segments, NEW ok, Update(taken, ok),
         NEW z \in Seq(Chars), Entered(taken, ok, z)
  PROVE  Edits'
<1>1. /\ taken \in Seq(Chars) /\ taken # <<>> /\ received \in Seq(Chars)
      /\ received' = received \o taken
  BY SegmentIs, UpdateIs, TypedMore DEF TypeOK
<1>2. CutOf(taken, ok) = [lines |-> <<z>>, rest |-> <<>>]
  BY DEF Entered, Outcome
<1>3. NewLines(taken, ok) = <<z>> /\ buffer' = <<>>
  BY <1>2, UpdateIs DEF NewLines
<1>4. /\ executed' = Append(executed, z) /\ cursor' = Len(history') + 1
      /\ history' \in Seq(Seq(Chars))
      /\ \A i \in 1 .. Len(history') :
           history'[i] = z \/ \E j \in 1 .. Len(history) : history'[i] = history[j]
  BY <1>3, AfterEnter
<1>5. taken[Len(taken)] \notin {"up", "cr"}
  BY DEF Entered, Key
<1>6. Clean(buffer')
  BY <1>3 DEF Clean, NoSpecial, LineEnds
<1>7. \A i \in 1 .. Len(history') : Clean(history'[i])
  <2>1. Clean(z)
    BY DEF Entered
  <2> QED  BY <1>4, <2>1 DEF Edits
<1>8. ~EndsIn(received', "cr")
  BY <1>1, <1>5, LastOf DEF EndsIn
<1>9. Range(received') \cap Arrows = {} => Typed' = Line(buffer', executed', 0)
  <2> SUFFICES ASSUME Range(received') \cap Arrows = {}
               PROVE  Typed' = Line(buffer', executed', 0)
    OBVIOUS
  <2>1. Range(received) \cap Arrows = {}
    BY <1>1, NoArrows
  <2>2. Typed = Line(buffer, executed, 0) /\ Clean(buffer)
    BY <2>1 DEF Edits
  <2>3. Typed' = Line(<<>>, Append(executed, z), 0)
    BY <1>1, <2>2, EnterIsTyped
  <2> QED  BY <1>3, <1>4, <2>3
<1>10. ASSUME NEW k \in Nat, UpsSince(received', k), history' # <<>>
       PROVE  /\ cursor' = IF k > Len(history') THEN 1 ELSE Len(history') + 1 - k
              /\ k > 0 => buffer' = history'[cursor']
  <2>1. k = 0
    BY <1>1, <1>5, <1>10, NoUpsSinceEnter
  <2>2. Len(history') \in Nat
    BY <1>4, LenProperties
  <2> QED  BY <1>4, <2>1, <2>2
<1>11. Walked'
  BY <1>10 DEF Walked
<1> QED  BY <1>6, <1>7, <1>8, <1>9, <1>11 DEF Edits

\* Another key keeps it.
LEMMA PressKeepsEdits ==
  ASSUME TypeOK, Edits, Interactive, Hooked, OneByOne, setting' = setting,
         NEW taken \in Settings[setting].segments, NEW ok, Update(taken, ok),
         NEW z \in Seq(Chars), NEW c \in 1 .. Len(history) + 1, Pressed(taken, ok, z, c)
  PROVE  Edits'
<1> DEFINE k == Key(taken[1])
           x == taken[1]
<1>1. /\ taken \in Seq(Chars) /\ taken # <<>> /\ received \in Seq(Chars)
      /\ received' = received \o taken /\ Len(taken) = 1 /\ x \in Chars
  BY SegmentIs, UpdateIs, TypedMore DEF TypeOK, Pressed
<1>2. CutOf(taken, ok) = [lines |-> <<>>, rest |-> z] /\ Walk(taken, ok).cursor = c
  BY DEF Pressed, Outcome
<1>3. NewLines(taken, ok) = <<>> /\ buffer' = z
  BY <1>2, UpdateIs DEF NewLines
<1>4. history' = history /\ executed' = executed /\ cursor' = c
  BY <1>2, <1>3, AfterKey
<1>5. Clean(buffer') /\ \A i \in 1 .. Len(history') : Clean(history'[i])
  BY <1>3, <1>4 DEF Edits, Pressed
<1>6. received' = Append(received, x)
  <2> DEFINE t == <<x>>
  <2>1. t \in Seq(Chars) /\ Len(t) = 1 /\ t[1] = x
    BY <1>1
  <2>2. received \o t = Append(received, x)
    BY <1>1, AppendIsConcat
  <2> HIDE DEF t
  <2>3. \A i \in 1 .. 1 : taken[i] = t[i]
    BY <2>1
  <2>4. taken = t
    BY <1>1, <2>1, <2>3, SeqEqual
  <2> QED  BY <1>1, <2>2, <2>4
<1>7. EndsIn(received', "cr") => EndsIn(buffer', "cr")
  <2> SUFFICES ASSUME EndsIn(received', "cr") PROVE EndsIn(buffer', "cr")
    OBVIOUS
  <2>1. x = "cr"
    BY <1>1, LastOf DEF EndsIn
  <2>2. k = "cr" /\ k \notin Special
    BY <2>1 DEF Key, Special, Arrows
  <2>3. z = Append(buffer, "cr")
    BY <2>2 DEF Pressed
  <2>4. "cr" \in Chars /\ buffer \in Seq(Chars)
    BY <1>1, <2>1, CommandsAre DEF TypeOK
  <2>5. Append(buffer, "cr") # <<>> /\ Last(Append(buffer, "cr")) = "cr"
    BY <2>4, FrontOfAppend
  <2> QED  BY <1>3, <2>3, <2>5 DEF EndsIn
<1>8. Range(received') \cap Arrows = {} => Typed' = Line(buffer', executed', 0)
  <2> SUFFICES ASSUME Range(received') \cap Arrows = {}
               PROVE  Typed' = Line(buffer', executed', 0)
    OBVIOUS
  <2>1. Range(received) \cap Arrows = {} /\ \A i \in 1 .. Len(taken) : taken[i] \notin Arrows
    BY <1>1, NoArrows
  <2>2. taken[1] \notin Arrows
    <3>1. 1 \in 1 .. Len(taken)
      BY <1>1
    <3> QED  BY <2>1, <3>1
  <2>3. Typed = Line(buffer, executed, 0) /\ Clean(buffer)
    BY <2>1 DEF Edits
  <2>4. Typed' = Line(z, executed, 0)
    BY <1>1, <2>2, <2>3, PressIsTyped
  <2> QED  BY <1>3, <1>4, <2>4
<1>9. ASSUME NEW i \in Nat, UpsSince(received', i), history' # <<>>
      PROVE  /\ cursor' = IF i > Len(history') THEN 1 ELSE Len(history') + 1 - i
             /\ i > 0 => buffer' = history'[cursor']
  <2>1. \/ i = 0 /\ x = "lf" /\ EndsIn(received, "cr")
        \/ i > 0 /\ i - 1 \in Nat /\ x = "up" /\ UpsSince(received, i - 1)
    BY <1>1, <1>6, <1>9, UpsOneMore
  <2>2. CASE i = 0 /\ x = "lf" /\ EndsIn(received, "cr")
    <3>1. EndsIn(buffer, "cr")
      BY <2>2 DEF Edits
    <3>2. k = "lf" /\ k \notin Special
      BY <2>2 DEF Key, Special, Arrows
    <3> QED  BY <3>1, <3>2 DEF Pressed
  <2>3. CASE i > 0 /\ i - 1 \in Nat /\ x = "up" /\ UpsSince(received, i - 1)
    <3> DEFINE n == Len(history)
               j == i - 1
    <3>1. k = "up" /\ n \in Nat
      BY <2>3, LenProperties DEF Key, TypeOK
    <3>2. c = (IF cursor # 1 THEN cursor - 1 ELSE cursor) /\ z = history[c]
      BY <1>4, <1>9, <3>1 DEF Pressed
    <3>3. cursor = IF j > n THEN 1 ELSE n + 1 - j
      BY <1>4, <1>9, <2>3 DEF Edits, Walked
    <3> HIDE DEF n
    <3>4. c = IF i > n THEN 1 ELSE n + 1 - i
      BY <2>3, <3>1, <3>2, <3>3
    <3> QED  BY <1>3, <1>4, <3>2, <3>4 DEF n
  <2> QED  BY <2>1, <2>2, <2>3
<1>10. Walked'
  BY <1>9 DEF Walked
<1> QED  BY <1>5, <1>7, <1>8, <1>10 DEF Edits

\* The session begins so.
LEMMA EditInvInit == Init => EditInv
<1> SUFFICES ASSUME Init PROVE EditInv
  OBVIOUS
<1>1. buffer = <<>> /\ executed = <<>> /\ received = <<>> /\ history = <<>>
  BY DEF Init
<1>2. Clean(<<>>) /\ ~EndsIn(<<>>, "cr") /\ \A k : ~UpsSince(<<>>, k)
  BY DEF Clean, NoSpecial, LineEnds, EndsIn, UpsSince
<1>3. Typed = Line(<<>>, <<>>, 0)
  <2> DEFINE e == Start(<<>>)
  <2>1. <<>> \in Seq(Seq(Chars)) /\ <<>> \in Seq(Chars) /\ Len(<<>>) = 0
    OBVIOUS
  <2>2. e \in Meanings(Chars)
    BY <2>1, StartIs
  <2>3. Typed = TypedFrom(e, <<>>)
    BY <1>1, TypedIs
  <2> HIDE DEF e
  <2>4. TypedFrom(e, <<>>) = e
    BY <2>1, <2>2, TextIs, TypedFew
  <2> QED  BY <2>3, <2>4 DEF e, Start
<1>4. Walked
  BY <1>1, <1>2 DEF Walked
<1> QED  BY <1>1, <1>2, <1>3, <1>4 DEF EditInv

\* Nothing typed, nothing changes.
LEMMA EditInvKept ==
  ASSUME EditInv, setting' = setting, buffer' = buffer, history' = history,
         cursor' = cursor, executed' = executed, received' = received
  PROVE  EditInv'
<1>1. Typed' = Typed
  BY TypedIs
<1>2. Interactive' = Interactive /\ Hooked' = Hooked /\ OneByOne' = OneByOne
  BY DEF Interactive, Hooked, OneByOne
<1>3. Walked' = Walked
  BY DEF Walked
<1> QED  BY <1>1, <1>2, <1>3 DEF EditInv

\* update() with bytes keeps it.
LEMMA EditInvUpdate ==
  ASSUME TypeOK, EditInv, NEW taken \in Settings[setting].segments, NEW ok, Update(taken, ok)
  PROVE  EditInv'
<1>1. setting' = setting
  BY UpdateIs
<1>2. Interactive' = Interactive /\ Hooked' = Hooked /\ OneByOne' = OneByOne
  BY <1>1 DEF Interactive, Hooked, OneByOne
<1>3. ~Hooked => history' = <<>>
  <2> SUFFICES ASSUME ~Hooked PROVE history' = <<>>
    OBVIOUS
  <2>1. NewLines(taken, ok) = <<>> /\ history = <<>>
    BY DEF NewLines, EditInv
  <2> QED  BY <2>1, AfterKey
<1>4. ASSUME Interactive, Hooked, OneByOne PROVE Edits'
  <2>1. Edits
    BY <1>4 DEF EditInv, Edits
  <2>2. CASE \E z \in Seq(Chars) : Entered(taken, ok, z)
    BY <1>1, <1>4, <2>1, <2>2, EnterKeepsEdits
  <2>3. CASE \E z \in Seq(Chars), c \in 1 .. Len(history) + 1 : Pressed(taken, ok, z, c)
    BY <1>1, <1>4, <2>1, <2>3, PressKeepsEdits
  <2>4. Clean(buffer) /\ \A i \in 1 .. Len(history) : Clean(history[i])
    BY <2>1 DEF Edits
  <2> QED  BY <1>4, <2>2, <2>3, <2>4, KeyKinds
<1> QED  BY <1>2, <1>3, <1>4 DEF EditInv, Edits

\* processBackspace(), processTab(), processCommandHistory() and getCompleteLines()
\* one after the other: in character mode, m_buffer and the history hold only keys
\* that stand for themselves, m_buffer is the line that was typed or the entry that
\* was recalled, and m_historyCursor is where the up arrows have walked to.
THEOREM CharacterModeIsTyped == Spec => []EditInv
<1>1. Init => EditInv
  BY EditInvInit
<1>2. LineInv /\ EditInv /\ [Next]_vars => EditInv'
  <2> SUFFICES ASSUME LineInv, EditInv, [Next]_vars PROVE EditInv'
    OBVIOUS
  <2>1. CASE Initialise
    BY <2>1, EditInvKept DEF Initialise
  <2>2. CASE UpdateIdle
    BY <2>2, EditInvKept DEF UpdateIdle
  <2>3. ASSUME NEW taken \in Settings[setting].segments, NEW ok \in Settings[setting].sends,
               Update(taken, ok)
        PROVE  EditInv'
    BY <2>3, EditInvUpdate DEF LineInv
  <2>4. CASE UNCHANGED vars
    BY <2>4, EditInvKept DEF vars
  <2> QED  BY <2>1, <2>2, <2>3, <2>4 DEF Next
<1> QED  BY <1>1, <1>2, LineInvariant, PTL DEF Spec

\* update(): however TCP cuts the stream into recv() calls, the lines handed to the
\* command callback are those the user typed, and m_buffer is the unfinished one.
THEOREM TextIsAsTyped == Spec => []TypedText
<1>1. StreamInv /\ EditInv => TypedText
  <2> SUFFICES ASSUME StreamInv, EditInv PROVE TypedText
    OBVIOUS
  <2>1. CASE ~Interactive
    BY <2>1, StreamMeans
  <2>2. CASE Interactive
    <3> SUFFICES ASSUME Hooked, Range(received) \cap Arrows = {}, OneByOne
                 PROVE  executed = Typed.lines /\ buffer = Typed.line
      BY <2>2 DEF TypedText
    <3>1. Typed = Line(buffer, executed, 0)
      BY <2>2 DEF EditInv
    <3> QED  BY <3>1 DEF Line
  <2> QED  BY <2>1, <2>2
<1> QED  BY <1>1, StreamIsTyped, CharacterModeIsTyped, PTL

\* processCommandHistory(): after a line was entered, the k-th up arrow shows the
\* k-th last entry of the history, and stops at the oldest.
THEOREM UpsAlwaysWalkBack == Spec => []UpsWalkBack
<1>1. LineInv /\ EditInv => UpsWalkBack
  <2> DEFINE L == Len(received)
             ups == {i \in 1 .. L : \A j \in i .. L : received[j] = "up"}
             k == Cardinality(ups)
  <2> SUFFICES ASSUME LineInv, EditInv, k > 0, L - k > 1, history # <<>>,
                      received[(L - k) - 1] = "cr", received[L - k] = "lf",
                      Interactive, OneByOne
               PROVE  buffer = history[IF k > Len(history) THEN 1 ELSE Len(history) + 1 - k]
    BY DEF UpsWalkBack
  <2>1. received \in Seq(Keys) /\ L \in Nat
    <3>1. received \in Seq(Keys)
      BY DEF LineInv, TypeOK
    <3> QED  BY <3>1, LenProperties
  <2> HIDE DEF L
  <2>2. ups # {}
    <3>1. Cardinality(ups) > 0
      OBVIOUS
    <3>2. Cardinality({}) = 0
      BY FS_EmptySet
    <3> HIDE DEF k, ups
    <3>3. ASSUME ups = {} PROVE Cardinality(ups) = 0
      BY <3>2, <3>3
    <3>4. Cardinality({}) = 0 /\ ~(0 > 0)
      BY <3>2
    <3> QED  BY <3>1, <3>3, <3>4
  <2>3. PICK m \in ups : \A i \in ups : m <= i
    <3>1. ups \in SUBSET Nat
      OBVIOUS
    <3> HIDE DEF ups
    <3> QED  BY <2>2, <3>1, SmallestNumber
  <2>4. m \in 1 .. L /\ \A j \in m .. L : received[j] = "up"
    BY <2>3
  <2>5. ups = m .. L
    <3>1. ASSUME NEW i \in m .. L PROVE i \in ups
      BY <2>1, <2>4, <3>1
    <3>2. ASSUME NEW i \in ups PROVE i \in m .. L
      BY <2>1, <2>3, <2>4, <3>2
    <3> HIDE DEF ups
    <3> QED  BY <3>1, <3>2
  <2>6. k = L - m + 1 /\ k \in Nat
    <3>1. Cardinality(m .. L) = IF m > L THEN 0 ELSE L - m + 1
      BY <2>1, <2>4, FS_Interval
    <3>2. ~(m > L) /\ L - m + 1 \in Nat
      BY <2>1, <2>4
    <3> QED  BY <2>5, <3>1, <3>2
  <2> HIDE DEF k, ups
  <2>7. UpsSince(received, k)
    <3>1. L - k + 1 = m
      BY <2>1, <2>4, <2>6
    <3> QED  BY <2>4, <2>6, <3>1 DEF UpsSince, L
  <2>8. Walked
    BY DEF EditInv
  <2> QED  BY <2>6, <2>7, <2>8 DEF Walked
<1> QED  BY <1>1, LineInvariant, CharacterModeIsTyped, PTL
=============================================================================
