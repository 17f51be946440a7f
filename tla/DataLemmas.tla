----------------------------- MODULE DataLemmas -----------------------------
(***************************************************************************)
(* Facts about sequences, counting and induction that the proofs share.     *)
(***************************************************************************)
EXTENDS Integers, Sequences, SequencesExt, FiniteSets, SequenceTheorems,
        FiniteSetTheorems, WellFoundedInduction, TLAPS

(* A sequence without its i-th element, as vector::erase() leaves it.       *)
LEMMA RemoveAtProperties ==
  ASSUME NEW S, NEW s \in Seq(S), NEW i \in 1 .. Len(s)
  PROVE  /\ RemoveAt(s, i) \in Seq(S)
         /\ Len(RemoveAt(s, i)) = Len(s) - 1
         /\ \A j \in 1 .. Len(s) - 1 :
              RemoveAt(s, i)[j] = IF j < i THEN s[j] ELSE s[j + 1]
<1> DEFINE a == SubSeq(s, 1, i - 1)
           b == SubSeq(s, i + 1, Len(s))
<1>1. /\ a \in Seq(S) /\ Len(a) = i - 1
      /\ \A j \in 1 .. i - 1 : a[j] = s[j]
  <2>1. \A j \in 1 .. i - 1 : s[j] \in S
    BY ElementOfSeq
  <2> HIDE DEF a
  <2> QED BY <2>1, SubSeqProperties DEF a
<1>2. /\ b \in Seq(S) /\ Len(b) = Len(s) - i
      /\ \A j \in 1 .. Len(s) - i : b[j] = s[i + j]
  <2>1. \A j \in i + 1 .. Len(s) : s[j] \in S
    BY ElementOfSeq
  <2>2. Len(s) \in Nat
    OBVIOUS
  <2> HIDE DEF b
  <2> QED BY <2>1, <2>2, SubSeqProperties DEF b
<1> HIDE DEF a, b
<1>3. RemoveAt(s, i) = a \o b
  BY DEF RemoveAt, a, b
<1>4. /\ a \o b \in Seq(S)
      /\ Len(a \o b) = Len(a) + Len(b)
      /\ \A j \in 1 .. Len(a) + Len(b) :
           (a \o b)[j] = IF j <= Len(a) THEN a[j] ELSE b[j - Len(a)]
  BY <1>1, <1>2, ConcatProperties
<1> QED BY <1>1, <1>2, <1>3, <1>4

(* A sequence with one element in front.                                   *)
LEMMA PutInFront ==
  ASSUME NEW S, NEW c \in S, NEW q \in Seq(S)
  PROVE  /\ <<c>> \o q \in Seq(S) /\ <<c>> \o q # <<>>
         /\ Head(<<c>> \o q) = c /\ Tail(<<c>> \o q) = q
         /\ SubSeq(<<c>> \o q, 1, 1) = <<c>>
<1> DEFINE w == <<c>> \o q
<1>1. <<c>> \in Seq(S) /\ Len(<<c>>) = 1 /\ <<c>>[1] = c
  OBVIOUS
<1>2. Len(q) \in Nat
  BY LenProperties
<1>3. /\ w \in Seq(S) /\ Len(w) = 1 + Len(q) /\ w[1] = c
      /\ \A i \in 2 .. 1 + Len(q) : w[i] = q[i - 1]
  BY <1>1, <1>2, ConcatProperties
<1> HIDE DEF w
<1>4. w # <<>> /\ Head(w) = c
  BY <1>2, <1>3
<1>5. /\ Tail(w) \in Seq(S) /\ Len(Tail(w)) = Len(q)
      /\ \A i \in 1 .. Len(q) : Tail(w)[i] = w[i + 1]
  BY <1>2, <1>3, <1>4, HeadTailProperties
<1>6. \A i \in 1 .. Len(q) : Tail(w)[i] = q[i]
  BY <1>2, <1>3, <1>5
<1>7. Tail(w) = q
  BY <1>5, <1>6, SeqEqual
<1>8. SubSeq(w, 1, 1) = <<c>>
  <2>1. \A i \in 1 .. 1 : w[i] \in S
    BY <1>3
  <2>2. /\ SubSeq(w, 1, 1) \in Seq(S) /\ Len(SubSeq(w, 1, 1)) = 1
        /\ SubSeq(w, 1, 1)[1] = w[1]
    BY <2>1, SubSeqProperties
  <2> DEFINE u == <<c>>
             v == SubSeq(w, 1, 1)
  <2>3. u \in Seq(S) /\ Len(u) = 1 /\ u[1] = c
    BY <1>1
  <2>4. v \in Seq(S) /\ Len(v) = 1 /\ v[1] = c
    BY <1>3, <2>2
  <2> HIDE DEF u, v
  <2>5. \A i \in 1 .. Len(v) : v[i] = u[i]
    BY <2>3, <2>4
  <2>6. v = u
    BY <2>3, <2>4, <2>5, SeqEqual
  <2> QED BY <2>6 DEF u, v
<1> QED BY <1>3, <1>4, <1>7, <1>8 DEF w

-----------------------------------------------------------------------------
(* How many elements of a sequence are in a set.                           *)

\* The positions of the elements of A.
Occurrences(s, A) == {i \in DOMAIN s : s[i] \in A}

\* A sequence has finitely many places where something occurs.
LEMMA OccurrencesTypes ==
  ASSUME NEW S, NEW s \in Seq(S), NEW A
  PROVE  /\ IsFiniteSet(Occurrences(s, A))
         /\ Cardinality(Occurrences(s, A)) \in Nat
         /\ Occurrences(s, A) \subseteq 1 .. Len(s)
<1>1. Len(s) \in Nat /\ DOMAIN s = 1 .. Len(s)
  BY LenProperties
<1>2. IsFiniteSet(1 .. Len(s))
  BY <1>1, FS_Interval
<1>3. Occurrences(s, A) \subseteq 1 .. Len(s)
  BY <1>1 DEF Occurrences
<1>4. IsFiniteSet(Occurrences(s, A))
  BY <1>2, <1>3, FS_Subset
<1> QED BY <1>3, <1>4, FS_CardinalityType

\* Nothing occurs in the empty sequence.
LEMMA OccurrencesEmpty ==
  ASSUME NEW A
  PROVE  Occurrences(<<>>, A) = {} /\ Cardinality(Occurrences(<<>>, A)) = 0
<1>1. Occurrences(<<>>, A) = {}
  BY DEF Occurrences
<1> QED BY <1>1, FS_EmptySet

(* One more element counts if it is in the set.                            *)
LEMMA OccurrencesAppend ==
  ASSUME NEW S, NEW s \in Seq(S), NEW e \in S, NEW A
  PROVE  Cardinality(Occurrences(Append(s, e), A))
           = Cardinality(Occurrences(s, A)) + (IF e \in A THEN 1 ELSE 0)
<1> DEFINE n == Len(s)
           t == Append(s, e)
<1>1. /\ n \in Nat /\ DOMAIN s = 1 .. n /\ DOMAIN t = 1 .. n + 1
      /\ \A i \in 1 .. n : t[i] = s[i]
      /\ t[n + 1] = e
  <2>1. /\ t \in Seq(S) /\ Len(t) = n + 1
        /\ \A i \in 1 .. n : t[i] = s[i]
        /\ t[n + 1] = e
    BY AppendProperties
  <2> HIDE DEF t
  <2> QED BY <2>1, LenProperties
<1> HIDE DEF n, t
<1>2. n + 1 \notin Occurrences(s, A)
  BY <1>1 DEF Occurrences
<1>3. \A i \in 1 .. n + 1 : i \in 1 .. n \/ i = n + 1
  BY <1>1
<1>4. Occurrences(t, A) = IF e \in A THEN Occurrences(s, A) \cup {n + 1}
                          ELSE Occurrences(s, A)
  BY <1>1, <1>3 DEF Occurrences
<1>5. IsFiniteSet(Occurrences(s, A)) /\ Cardinality(Occurrences(s, A)) \in Nat
  BY OccurrencesTypes
<1>6. Cardinality(Occurrences(s, A) \cup {n + 1})
        = Cardinality(Occurrences(s, A)) + 1
  BY <1>2, <1>5, FS_AddElement
<1> QED BY <1>4, <1>5, <1>6 DEF t

(* The first element no longer counts once it is taken.                    *)
LEMMA OccurrencesTail ==
  ASSUME NEW S, NEW s \in Seq(S), s # <<>>, NEW A
  PROVE  Cardinality(Occurrences(s, A))
           = Cardinality(Occurrences(Tail(s), A))
               + (IF Head(s) \in A THEN 1 ELSE 0)
<1> DEFINE n == Len(s)
           t == Tail(s)
           O == Occurrences(s, A)
           P == Occurrences(t, A)
           next == [i \in P |-> i + 1]
<1>1. /\ n \in Nat /\ n >= 1 /\ DOMAIN s = 1 .. n /\ Head(s) = s[1]
      /\ DOMAIN t = 1 .. n - 1 /\ \A i \in 1 .. n - 1 : t[i] = s[i + 1]
      /\ t \in Seq(S)
  <2>1. n \in Nat /\ n >= 1 /\ DOMAIN s = 1 .. n
    BY LenProperties, EmptySeq
  <2>2. /\ t \in Seq(S) /\ Len(t) = n - 1 /\ Head(s) = s[1]
        /\ \A i \in 1 .. n - 1 : t[i] = s[i + 1]
    BY HeadTailProperties
  <2> HIDE DEF t
  <2> QED BY <2>1, <2>2, LenProperties
<1> HIDE DEF n, t
<1>2. /\ O = {i \in 1 .. n : s[i] \in A}
      /\ P = {i \in 1 .. n - 1 : s[i + 1] \in A}
  BY <1>1 DEF Occurrences
<1>3. /\ IsFiniteSet(P) /\ Cardinality(P) \in Nat
      /\ IsFiniteSet(O) /\ Cardinality(O) \in Nat
  BY <1>1, OccurrencesTypes
<1> HIDE DEF O, P
<1>4. Cardinality(O \ {1}) = Cardinality(P)
  <2>1. next \in [P -> O \ {1}]
    BY <1>1, <1>2
  <2>2. \A i, j \in P : next[i] = next[j] => i = j
    BY <1>1, <1>2
  <2>3. \A k \in O \ {1} : \E i \in P : next[i] = k
    <3>1. ASSUME NEW k \in O \ {1} PROVE \E i \in P : next[i] = k
      <4>1. k - 1 \in P /\ (k - 1) + 1 = k
        BY <1>1, <1>2
      <4> QED BY <4>1
    <3> QED BY <3>1
  <2>4. ExistsBijection(P, O \ {1})
    <3> HIDE DEF next
    <3>1. next \in Bijection(P, O \ {1})
      BY <2>1, <2>2, <2>3 DEF Bijection, Injection, Surjection, IsInjective
    <3> QED BY <3>1 DEF ExistsBijection
  <2> QED BY <1>3, <2>4, FS_Bijection
<1>5. Cardinality(O \ {1}) = IF 1 \in O THEN Cardinality(O) - 1
                             ELSE Cardinality(O)
  BY <1>3, FS_RemoveElement
<1>6. 1 \in O <=> Head(s) \in A
  BY <1>1, <1>2
<1> QED BY <1>3, <1>4, <1>5, <1>6 DEF O, P, t

(***************************************************************************)
(* Induction.  A set of naturals has a least element, because the finite    *)
(* sets below its elements are well-founded under inclusion; so a set that  *)
(* has 0, and with each number the next one, has them all; so recursion     *)
(* defines a function.  The set stands for the induction hypothesis.       *)
(***************************************************************************)

(* A set of naturals has a least element.                                  *)
LEMMA SmallestNumber ==
  ASSUME NEW S \in SUBSET Nat, S # {}
  PROVE  \E m \in S : \A n \in S : m <= n
<1> DEFINE Below(n) == 0 .. n - 1
           T == {Below(n) : n \in S}
<1>1. \A n \in Nat : Below(n) \in FiniteSubsetsOf(Nat)
  BY FS_Interval DEF FiniteSubsetsOf
<1>2. T \subseteq FiniteSubsetsOf(Nat) /\ T # {}
  BY <1>1
<1>3. \E x \in T : \A y \in T : ~ (<<y, x>> \in StrictSubsetOrdering(Nat))
  <2> HIDE DEF T
  <2> QED  BY <1>2, FS_StrictSubsetOrderingWellFounded, WFMin
<1>4. PICK m \in S : \A n \in S : ~ (<<Below(n), Below(m)>> \in StrictSubsetOrdering(Nat))
  BY <1>3
<1>5. \A n \in S : m <= n
  <2> SUFFICES ASSUME NEW n \in S, n < m PROVE FALSE
    OBVIOUS
  <2>1. Below(n) \subseteq Below(m) /\ n \in Below(m) /\ n \notin Below(n)
    OBVIOUS
  <2>2. Below(n) \in SUBSET Nat /\ Below(m) \in SUBSET Nat
    OBVIOUS
  <2> HIDE DEF Below
  <2> QED  BY <2>1, <2>2, <1>4 DEF StrictSubsetOrdering
<1> QED  BY <1>5

(* A set that has 0, and the successor of each of its numbers, has them all.*)
LEMMA AllNaturals ==
  ASSUME NEW S, 0 \in S, \A n \in Nat : n \in S => n + 1 \in S
  PROVE  Nat \subseteq S
<1> SUFFICES ASSUME Nat \ S # {} PROVE FALSE
  OBVIOUS
<1>1. PICK m \in Nat \ S : \A n \in Nat \ S : m <= n
  BY SmallestNumber
<1>2. m - 1 \in Nat /\ m - 1 \in S
  BY <1>1
<1> QED  BY <1>1, <1>2

(* A function that starts with x and goes on step by step ...               *)
IsRun(f, S, x, step) ==
  /\ f \in [Nat -> S] /\ f[0] = x
  /\ \A n \in Nat : f[n + 1] = step[n][f[n]]

(* ... exists.                                                             *)
LEMMA Recursion ==
  ASSUME NEW S, NEW x, x \in S, NEW step, step \in [Nat -> [S -> S]]
  PROVE  \E f : IsRun(f, S, x, step)
<1> DEFINE Runs(n, g) == /\ g \in [0 .. n -> S] /\ g[0] = x
                         /\ \A i \in 0 .. n - 1 : g[i + 1] = step[i][g[i]]
           Good == {n \in Nat : \E g : Runs(n, g)}
<1>1. Nat \subseteq Good
  <2>1. 0 \in Good
    <3>1. Runs(0, [i \in 0 .. 0 |-> x])
      OBVIOUS
    <3> QED  BY <3>1
  <2>2. ASSUME NEW n \in Nat, n \in Good PROVE n + 1 \in Good
    <3>1. PICK g : Runs(n, g)
      BY <2>2
    <3> DEFINE h == [i \in 0 .. n + 1 |-> IF i <= n THEN g[i] ELSE step[n][g[n]]]
    <3>2. g[n] \in S /\ step[n][g[n]] \in S
      BY <3>1
    <3>3. h \in [0 .. n + 1 -> S] /\ h[0] = x
      BY <3>1, <3>2
    <3>4. \A i \in 0 .. n : h[i + 1] = step[i][h[i]]
      BY <3>1
    <3>5. Runs(n + 1, h)
      <4> HIDE DEF h
      <4> QED  BY <3>3, <3>4
    <3> HIDE DEF h, Runs
    <3> QED  BY <3>5
  <2> HIDE DEF Good
  <2> QED  BY <2>1, <2>2, AllNaturals
<1>2. \A n \in Nat : \E g : Runs(n, g)
  BY <1>1
<1> DEFINE F == [n \in Nat |-> (CHOOSE g : Runs(n, g))]
<1>3. \A n \in Nat : Runs(n, F[n])
  <2> HIDE DEF Runs
  <2> QED  BY <1>2
<1> HIDE DEF F
<1>4. ASSUME NEW n \in Nat, NEW m \in Nat, n <= m
      PROVE  \A i \in 0 .. n : F[n][i] = F[m][i]
  <2> DEFINE A == {i \in Nat : i \in 0 .. n => F[n][i] = F[m][i]}
  <2>0. Runs(n, F[n]) /\ Runs(m, F[m])
    BY <1>3
  <2>1. 0 \in A
    BY <2>0
  <2>2. ASSUME NEW i \in Nat, i \in A PROVE i + 1 \in A
    BY <2>2, <2>0, <1>4
  <2>3. Nat \subseteq A
    <3> HIDE DEF A
    <3> QED  BY <2>1, <2>2, AllNaturals
  <2> QED  BY <2>3
<1> DEFINE f == [n \in Nat |-> F[n][n]]
<1>5. f \in [Nat -> S]
  BY <1>3
<1>6. f[0] = x
  BY <1>3
<1>7. \A n \in Nat : f[n + 1] = step[n][f[n]]
  <2> TAKE n \in Nat
  <2>1. F[n][n] = F[n + 1][n]
    BY <1>4
  <2>2. F[n + 1][n + 1] = step[n][F[n + 1][n]]
    BY <1>3
  <2> QED  BY <2>1, <2>2
<1> HIDE DEF f
<1>8. IsRun(f, S, x, step)
  BY <1>5, <1>6, <1>7 DEF IsRun
<1> QED  BY <1>8

(* f[n] is what recursion keeps of the first n elements of s: those of K.    *)
Keeps(f, s, K) ==
  /\ f[0] = <<>>
  /\ \A n \in 1 .. Len(s) :
       f[n] = IF s[n] \in K THEN Append(f[n - 1], s[n]) ELSE f[n - 1]

(* There is such a function, ...                                           *)
LEMMA KeptExists ==
  ASSUME NEW S, NEW s \in Seq(S), NEW K
  PROVE  \E f \in [0 .. Len(s) -> Seq(S)] : Keeps(f, s, K)
<1> DEFINE step == [n \in Nat |-> [q \in Seq(S) |->
                      IF n + 1 \in 1 .. Len(s) /\ s[n + 1] \in K
                      THEN Append(q, s[n + 1]) ELSE q]]
<1>1. step \in [Nat -> [Seq(S) -> Seq(S)]]
  <2>1. \A n \in Nat, q \in Seq(S) :
          (IF n + 1 \in 1 .. Len(s) /\ s[n + 1] \in K
           THEN Append(q, s[n + 1]) ELSE q) \in Seq(S)
    BY ElementOfSeq, AppendProperties
  <2> QED  BY <2>1
<1>2. <<>> \in Seq(S)
  OBVIOUS
<1>3. PICK g \in [Nat -> Seq(S)] :
        g[0] = <<>> /\ \A n \in Nat : g[n + 1] = step[n][g[n]]
  <2> HIDE DEF step
  <2>1. PICK g : IsRun(g, Seq(S), <<>>, step)
    BY <1>1, <1>2, Recursion
  <2> QED  BY <2>1 DEF IsRun
<1>4. \A n \in 1 .. Len(s) :
        g[n] = IF s[n] \in K THEN Append(g[n - 1], s[n]) ELSE g[n - 1]
  <2> TAKE n \in 1 .. Len(s)
  <2>1. n - 1 \in Nat /\ (n - 1) + 1 = n
    OBVIOUS
  <2>2. g[n] = step[n - 1][g[n - 1]] /\ g[n - 1] \in Seq(S)
    BY <1>3, <2>1
  <2> QED  BY <2>1, <2>2
<1> DEFINE f == [n \in 0 .. Len(s) |-> g[n]]
<1>0. Len(s) \in Nat
  BY LenProperties
<1>5. f \in [0 .. Len(s) -> Seq(S)]
  BY <1>0, <1>3
<1>6. \A n \in 0 .. Len(s) : f[n] = g[n]
  OBVIOUS
<1> HIDE DEF f
<1>7. f[0] = <<>>
  BY <1>0, <1>3, <1>6
<1>8. ASSUME NEW n \in 1 .. Len(s)
      PROVE  f[n] = IF s[n] \in K THEN Append(f[n - 1], s[n]) ELSE f[n - 1]
  <2>1. n \in 0 .. Len(s) /\ n - 1 \in 0 .. Len(s)
    BY <1>0
  <2> QED  BY <1>4, <1>6, <2>1
<1> QED  BY <1>5, <1>7, <1>8 DEF Keeps

(* w has the elements of s that are in K, in their order: at[k] is the place
   in s of the k-th of them.                                               *)
Selects(at, w, s, K) ==
  /\ at \in [DOMAIN w -> 1 .. Len(s)]
  /\ \A k \in DOMAIN w : w[k] = s[at[k]] /\ s[at[k]] \in K
  /\ \A j, k \in DOMAIN w : j < k => at[j] < at[k]
  /\ \A i \in 1 .. Len(s) : s[i] \in K => \E k \in DOMAIN w : at[k] = i

(* ... and what it keeps is that.                                          *)
LEMMA KeptProperties ==
  ASSUME NEW S, NEW s \in Seq(S), NEW K, NEW f, Keeps(f, s, K)
  PROVE  /\ f[Len(s)] \in Seq(S)
         /\ \E at : Selects(at, f[Len(s)], s, K)
<1> DEFINE Places(n, at) ==
             /\ at \in [1 .. Len(f[n]) -> 1 .. n]
             /\ \A k \in 1 .. Len(f[n]) : f[n][k] = s[at[k]] /\ s[at[k]] \in K
             /\ \A j, k \in 1 .. Len(f[n]) : j < k => at[j] < at[k]
             /\ \A i \in 1 .. n :
                  s[i] \in K => \E k \in 1 .. Len(f[n]) : at[k] = i
           Good == {n \in Nat : n <= Len(s) =>
                      f[n] \in Seq(S) /\ \E at : Places(n, at)}
<1> USE DEF Keeps
<1>0. Len(s) \in Nat
  BY LenProperties
<1>1. 0 \in Good
  <2>1. <<>> \in Seq(S) /\ Len(<<>>) = 0
    OBVIOUS
  <2>2. Places(0, [k \in 1 .. 0 |-> k])
    BY <2>1
  <2> HIDE DEF Places
  <2> QED  BY <2>1, <2>2
<1>2. ASSUME NEW n \in Nat, n \in Good PROVE n + 1 \in Good
  <2> SUFFICES ASSUME n + 1 <= Len(s)
               PROVE  f[n + 1] \in Seq(S) /\ \E at : Places(n + 1, at)
    OBVIOUS
  <2>1. PICK at : f[n] \in Seq(S) /\ Places(n, at)
    <3> HIDE DEF Places
    <3> QED  BY <1>0, <1>2
  <2>2. n + 1 \in 1 .. Len(s) /\ (n + 1) - 1 = n
    BY <1>0
  <2>3. CASE s[n + 1] \notin K
    <3>1. f[n + 1] = f[n]
      BY <2>2, <2>3
    <3>2. Places(n + 1, at)
      BY <2>1, <2>3, <3>1
    <3> HIDE DEF Places
    <3> QED  BY <2>1, <3>1, <3>2
  <2>4. CASE s[n + 1] \in K
    <3>1. f[n + 1] = Append(f[n], s[n + 1])
      BY <2>2, <2>4
    <3>2. s[n + 1] \in S
      BY <2>2, ElementOfSeq
    <3> DEFINE m == Len(f[n])
    <3>3. /\ f[n + 1] \in Seq(S) /\ m \in Nat /\ Len(f[n + 1]) = m + 1
          /\ \A k \in 1 .. m : f[n + 1][k] = f[n][k]
          /\ f[n + 1][m + 1] = s[n + 1]
      BY <2>1, <3>1, <3>2, AppendProperties, LenProperties
    <3> HIDE DEF m
    <3> DEFINE to == [k \in 1 .. m + 1 |-> IF k <= m THEN at[k] ELSE n + 1]
    <3>4. m = Len(f[n])
      BY DEF m
    <3>5. /\ \A k \in 1 .. m : k \in 1 .. m + 1 /\ to[k] = at[k] /\ at[k] \in 1 .. n
          /\ to[m + 1] = n + 1
      <4>1. at \in [1 .. m -> 1 .. n]
        BY <2>1, <3>4
      <4>2. \A k \in 1 .. m + 1 : to[k] = IF k <= m THEN at[k] ELSE n + 1
        OBVIOUS
      <4> HIDE DEF to
      <4>3. \A k \in 1 .. m : k \in 1 .. m + 1 /\ k <= m /\ at[k] \in 1 .. n
        BY <3>3, <4>1
      <4>4. m + 1 \in 1 .. m + 1 /\ ~(m + 1 <= m)
        BY <3>3
      <4> QED  BY <4>2, <4>3, <4>4
    <3>6. to \in [1 .. Len(f[n + 1]) -> 1 .. n + 1]
      <4>1. \A k \in 1 .. m + 1 : (IF k <= m THEN at[k] ELSE n + 1) \in 1 .. n + 1
        <5> HIDE DEF to
        <5> QED  BY <3>3, <3>5
      <4>2. to \in [1 .. m + 1 -> 1 .. n + 1]
        BY <4>1
      <4> HIDE DEF to
      <4> QED  BY <3>3, <4>2
    <3> HIDE DEF to
    <3>7. \A k \in 1 .. m + 1 : k \in 1 .. m \/ k = m + 1
      BY <3>3
    <3>8. \A k \in 1 .. m + 1 : f[n + 1][k] = s[to[k]] /\ s[to[k]] \in K
      <4> TAKE k \in 1 .. m + 1
      <4>1. CASE k \in 1 .. m
        BY <2>1, <3>3, <3>4, <3>5, <4>1
      <4>2. CASE k = m + 1
        BY <2>4, <3>3, <3>5, <4>2
      <4> QED  BY <3>7, <4>1, <4>2
    <3>9. \A j, k \in 1 .. m + 1 : j < k => to[j] < to[k]
      BY <2>1, <3>3, <3>4, <3>5, <3>7
    <3>10. \A i \in 1 .. n + 1 :
             s[i] \in K => \E k \in 1 .. m + 1 : to[k] = i
      <4> SUFFICES ASSUME NEW i \in 1 .. n + 1, s[i] \in K
                   PROVE  \E k \in 1 .. m + 1 : to[k] = i
        OBVIOUS
      <4>1. CASE i = n + 1
        <5>1. m + 1 \in 1 .. m + 1
          BY <3>3
        <5> QED  BY <3>5, <4>1, <5>1
      <4>2. CASE i \in 1 .. n
        <5>1. PICK k \in 1 .. m : at[k] = i
          BY <2>1, <3>4, <4>2
        <5> QED  BY <3>5, <5>1
      <4> QED  BY <4>1, <4>2
    <3>11. Places(n + 1, to)
      BY <3>3, <3>6, <3>8, <3>9, <3>10
    <3> HIDE DEF Places
    <3> QED  BY <3>3, <3>11
  <2> QED  BY <2>3, <2>4
<1>3. Nat \subseteq Good
  <2> HIDE DEF Good
  <2> QED  BY <1>1, <1>2, AllNaturals
<1>4. f[Len(s)] \in Seq(S) /\ \E at : Places(Len(s), at)
  <2> HIDE DEF Places
  <2> QED  BY <1>0, <1>3
<1>5. DOMAIN f[Len(s)] = 1 .. Len(f[Len(s)])
  BY <1>4, LenProperties
<1>6. PICK at : Places(Len(s), at)
  <2> HIDE DEF Places
  <2> QED  BY <1>4
<1>7. at \in [DOMAIN f[Len(s)] -> 1 .. Len(s)]
  BY <1>5, <1>6
<1>8. /\ \A k \in DOMAIN f[Len(s)] :
           f[Len(s)][k] = s[at[k]] /\ s[at[k]] \in K
      /\ \A j, k \in DOMAIN f[Len(s)] : j < k => at[j] < at[k]
      /\ \A i \in 1 .. Len(s) :
           s[i] \in K => \E k \in DOMAIN f[Len(s)] : at[k] = i
  BY <1>5, <1>6
<1>9. Selects(at, f[Len(s)], s, K)
  BY <1>7, <1>8 DEF Selects
<1> HIDE DEF Keeps
<1> QED  BY <1>4, <1>9

-----------------------------------------------------------------------------
(* Loops and folds: what a recursion computes step by step, f[i] being its   *)
(* value after i steps.                                                      *)

IsLoop(f, step, x, n) ==
  f[0] = x /\ \A i \in 1 .. n : f[i] = step[f[i - 1]]

LoopsTo(y, step, x, n) == \E f : IsLoop(f, step, x, n) /\ y = f[n]

IsFold(f, op, x, s) ==
  f[0] = x /\ \A i \in 1 .. Len(s) : f[i] = op[f[i - 1]][s[i]]

\* There is a loop of n steps.
LEMMA LoopExists ==
  ASSUME NEW S, NEW step \in [S -> S], NEW x \in S, NEW n \in Nat
  PROVE  \E f \in [0 .. n -> S] : IsLoop(f, step, x, n)
<1> DEFINE steps == [m \in Nat |-> step]
<1>1. steps \in [Nat -> [S -> S]] /\ \A m \in Nat : steps[m] = step
  OBVIOUS
<1> HIDE DEF steps
<1>2. PICK g : IsRun(g, S, x, steps)
  BY <1>1, Recursion
<1> DEFINE f == [i \in 0 .. n |-> g[i]]
<1>3. f \in [0 .. n -> S]
  BY <1>2 DEF IsRun
<1>4. f[0] = x
  BY <1>2 DEF IsRun
<1>5. ASSUME NEW i \in 1 .. n PROVE f[i] = step[f[i - 1]]
  <2>1. i - 1 \in Nat /\ (i - 1) + 1 = i /\ i \in 0 .. n /\ i - 1 \in 0 .. n
    OBVIOUS
  <2>2. g[(i - 1) + 1] = step[g[i - 1]]
    BY <1>1, <1>2, <2>1 DEF IsRun
  <2> QED  BY <2>1, <2>2
<1> HIDE DEF f
<1> QED  BY <1>3, <1>4, <1>5 DEF IsLoop

\* What a step keeps, the loop keeps.
LEMMA LoopStays ==
  ASSUME NEW n \in Nat, NEW T, NEW f, NEW step, NEW x \in T,
         IsLoop(f, step, x, n), \A t \in T : step[t] \in T
  PROVE  \A i \in 0 .. n : f[i] \in T
<1> DEFINE Good == {i \in Nat : i <= n => f[i] \in T}
<1>1. 0 \in Good
  BY DEF IsLoop
<1>2. ASSUME NEW i \in Nat, i \in Good PROVE i + 1 \in Good
  <2>1. ASSUME i + 1 <= n PROVE f[i + 1] = step[f[i]] /\ f[i] \in T
    <3>1. i + 1 \in 1 .. n /\ (i + 1) - 1 = i /\ i <= n
      BY <2>1
    <3> QED  BY <1>2, <3>1 DEF IsLoop
  <2> QED  BY <2>1
<1>3. Nat \subseteq Good
  <2> HIDE DEF Good
  <2> QED  BY <1>1, <1>2, AllNaturals
<1> QED  BY <1>3

\* A loop whose steps are known where it has its type, has its type.
LEMMA LoopOf ==
  ASSUME NEW S, NEW step \in [S -> S], NEW x \in S, NEW n \in Nat, NEW f,
         f[0] = x, \A i \in 1 .. n : f[i - 1] \in S => f[i] = step[f[i - 1]]
  PROVE  IsLoop(f, step, x, n) /\ \A i \in 0 .. n : f[i] \in S
<1> DEFINE Good == {i \in Nat : i <= n => f[i] \in S}
<1>1. 0 \in Good
  OBVIOUS
<1>2. ASSUME NEW i \in Nat, i \in Good PROVE i + 1 \in Good
  <2>1. ASSUME i + 1 <= n PROVE f[i + 1] \in S
    <3>1. i + 1 \in 1 .. n /\ (i + 1) - 1 = i /\ i <= n
      BY <2>1
    <3>2. f[i] \in S
      BY <1>2, <3>1
    <3>3. f[i + 1] = step[f[i]]
      BY <3>1, <3>2
    <3> QED  BY <3>2, <3>3
  <2> QED  BY <2>1
<1>3. Nat \subseteq Good
  <2> HIDE DEF Good
  <2> QED  BY <1>1, <1>2, AllNaturals
<1>4. \A i \in 0 .. n : f[i] \in S
  BY <1>3
<1>5. \A i \in 1 .. n : i - 1 \in 0 .. n
  OBVIOUS
<1> HIDE DEF Good
<1> QED  BY <1>4, <1>5 DEF IsLoop

\* A loop that comes to rest in its first step.
LEMMA LoopSettles ==
  ASSUME NEW n \in Nat \ {0}, NEW f, NEW step, NEW x, IsLoop(f, step, x, n),
         step[step[x]] = step[x]
  PROVE  f[n] = step[x]
<1> DEFINE Good == {i \in Nat : i + 1 <= n => f[i + 1] = step[x]}
<1>1. 0 \in Good
  <2>1. 1 \in 1 .. n /\ 1 - 1 = 0
    OBVIOUS
  <2> QED  BY <2>1 DEF IsLoop
<1>2. ASSUME NEW i \in Nat, i \in Good PROVE i + 1 \in Good
  <2>1. ASSUME (i + 1) + 1 <= n PROVE f[(i + 1) + 1] = step[x]
    <3>1. (i + 1) + 1 \in 1 .. n /\ ((i + 1) + 1) - 1 = i + 1 /\ i + 1 <= n
      BY <2>1
    <3>2. f[i + 1] = step[x]
      BY <1>2, <3>1
    <3>3. f[(i + 1) + 1] = step[f[i + 1]]
      BY <3>1 DEF IsLoop
    <3> QED  BY <3>2, <3>3
  <2> QED  BY <2>1
<1>3. Nat \subseteq Good
  <2> HIDE DEF Good
  <2> QED  BY <1>1, <1>2, AllNaturals
<1>4. n - 1 \in Nat /\ (n - 1) + 1 = n
  OBVIOUS
<1> QED  BY <1>3, <1>4

\* A loop each of whose steps makes something smaller ends at rest.
LEMMA LoopEnds ==
  ASSUME NEW n \in Nat, NEW T, NEW f, NEW step, NEW x \in T,
         IsLoop(f, step, x, n), \A t \in T : step[t] \in T,
         NEW m \in [T -> Nat], m[x] <= n,
         \A t \in T : step[t] = t \/ m[step[t]] < m[t]
  PROVE  step[f[n]] = f[n]
<1> DEFINE Good == {i \in Nat : i <= n =>
                      step[f[i]] = f[i] \/ m[f[i]] + i <= n}
<1>0. \A i \in 0 .. n : f[i] \in T
  BY LoopStays
<1>1. 0 \in Good
  BY DEF IsLoop
<1>2. ASSUME NEW i \in Nat, i \in Good PROVE i + 1 \in Good
  <2>1. ASSUME i + 1 <= n
        PROVE step[f[i + 1]] = f[i + 1] \/ m[f[i + 1]] + (i + 1) <= n
    <3>1. i + 1 \in 1 .. n /\ (i + 1) - 1 = i /\ i <= n /\ i \in 0 .. n /\ i + 1 \in 0 .. n
      BY <2>1
    <3>2. f[i + 1] = step[f[i]] /\ f[i] \in T /\ f[i + 1] \in T
      BY <1>0, <3>1 DEF IsLoop
    <3>3. step[f[i]] = f[i] \/ m[f[i]] + i <= n
      BY <1>2, <3>1
    <3>4. CASE step[f[i]] = f[i]
      BY <3>2, <3>4
    <3>5. CASE step[f[i]] # f[i]
      <4>1. m[f[i + 1]] < m[f[i]] /\ m[f[i]] + i <= n
        BY <3>2, <3>3, <3>5
      <4>2. m[f[i + 1]] \in Nat /\ m[f[i]] \in Nat
        BY <3>2
      <4> QED  BY <4>1, <4>2
    <3> QED  BY <3>4, <3>5
  <2> QED  BY <2>1
<1>3. Nat \subseteq Good
  <2> HIDE DEF Good
  <2> QED  BY <1>1, <1>2, AllNaturals
<1>4. step[f[n]] = f[n] \/ m[f[n]] + n <= n
  BY <1>3
<1>5. f[n] \in T /\ m[f[n]] \in Nat /\ step[f[n]] \in T
  BY <1>0
<1>6. m[step[f[n]]] \in Nat
  BY <1>5
<1> QED  BY <1>4, <1>5, <1>6

\* A finite set of numbers that is not empty has a largest one.
LEMMA LargestNumber ==
  ASSUME NEW n \in Nat, NEW T \in SUBSET (1 .. n), T # {}
  PROVE  Max(T) \in T /\ \A t \in T : t <= Max(T)
<1> DEFINE below == {n - t : t \in T}
<1>0. \A t \in T : t \in 1 .. n /\ n - t \in Nat
  OBVIOUS
<1>1. below \in SUBSET Nat /\ below # {}
  BY <1>0
<1>2. PICK m \in below : \A k \in below : m <= k
  <2> HIDE DEF below
  <2> QED  BY <1>1, SmallestNumber
<1>3. n - m \in T /\ \A t \in T : t <= n - m
  <2>1. PICK u \in T : m = n - u
    BY <1>2
  <2>2. \A t \in T : m <= n - t
    BY <1>2
  <2> HIDE DEF below
  <2>3. n - m = u
    BY <1>0, <2>1
  <2>4. ASSUME NEW t \in T PROVE t <= n - m
    BY <1>0, <2>1, <2>2
  <2> QED  BY <2>3, <2>4
<1>4. \E t \in T : \A y \in T : t >= y
  BY <1>3
<1>5. Max(T) \in T /\ \A y \in T : Max(T) >= y
  BY <1>4 DEF Max
<1> QED  BY <1>5

\* The largest of the first numbers.
LEMMA LargestOfFirst ==
  ASSUME NEW n \in Nat, n # 0
  PROVE  Max(1 .. n) = n /\ (1 .. n) \ {n} = 1 .. n - 1
<1>1. Max(1 .. n) \in 1 .. n /\ \A t \in 1 .. n : t <= Max(1 .. n)
  <2>1. 1 .. n # {} /\ 1 .. n \in SUBSET (1 .. n)
    OBVIOUS
  <2> QED  BY <2>1, LargestNumber
<1>2. n \in 1 .. n
  OBVIOUS
<1> QED  BY <1>1, <1>2

\* What FoldLeft computes: op for the elements at T, its largest place last ...
IsSetFold(it, op, x, s, T) ==
  it[T] = IF T = {} THEN x ELSE op[it[T \ {Max(T)}]][s[Max(T)]]

\* ... exists.
LEMMA SetFoldExists ==
  ASSUME NEW A, NEW E, NEW op \in [A -> [E -> A]], NEW x \in A, NEW s \in Seq(E)
  PROVE  \E it \in [SUBSET (1 .. Len(s)) -> A] :
           \A T \in SUBSET (1 .. Len(s)) : IsSetFold(it, op, x, s, T)
<1> DEFINE n == Len(s)
           D == SUBSET (1 .. n)
<1>1. n \in Nat /\ \A i \in 1 .. n : s[i] \in E
  BY ElementOfSeq, LenProperties
<1> HIDE DEF n
<1>2. \A T \in D : T # {} => Max(T) \in T /\ Max(T) \in 1 .. n /\ T \ {Max(T)} \in D
  BY <1>1, LargestNumber
<1> DEFINE next == [m \in Nat |-> [g \in [D -> A] |->
                      [T \in D |-> IF T = {} THEN x
                                   ELSE op[g[T \ {Max(T)}]][s[Max(T)]]]]]
<1>3. next \in [Nat -> [[D -> A] -> [D -> A]]]
  <2>1. \A g \in [D -> A], T \in D :
          (IF T = {} THEN x ELSE op[g[T \ {Max(T)}]][s[Max(T)]]) \in A
    <3> SUFFICES ASSUME NEW g \in [D -> A], NEW T \in D, T # {}
                 PROVE  op[g[T \ {Max(T)}]][s[Max(T)]] \in A
      OBVIOUS
    <3>1. g[T \ {Max(T)}] \in A /\ s[Max(T)] \in E
      BY <1>1, <1>2
    <3> DEFINE y == g[T \ {Max(T)}]
               e == s[Max(T)]
    <3>2. y \in A /\ e \in E
      BY <3>1
    <3> HIDE DEF y, e
    <3>3. op[y][e] \in A
      BY <3>2
    <3> QED  BY <3>3 DEF y, e
  <2> QED  BY <2>1
<1>4. PICK G : IsRun(G, [D -> A], [T \in D |-> x], next)
  <2>1. [T \in D |-> x] \in [D -> A]
    OBVIOUS
  <2> HIDE DEF next, D
  <2> QED  BY <1>3, <2>1, Recursion
<1>5. ASSUME NEW T \in D PROVE IsFiniteSet(T) /\ Cardinality(T) \in Nat
  <2>1. IsFiniteSet(1 .. n)
    BY <1>1, FS_Interval
  <2>2. IsFiniteSet(T)
    BY <2>1, FS_Subset
  <2> QED  BY <2>2, FS_CardinalityType
<1> DEFINE it == [T \in D |-> G[Cardinality(T)][T]]
<1>6. it \in [D -> A]
  <2>1. \A T \in D : G[Cardinality(T)] \in [D -> A]
    BY <1>4, <1>5 DEF IsRun
  <2> HIDE DEF D
  <2> QED  BY <2>1
<1>7. ASSUME NEW T \in D PROVE IsSetFold(it, op, x, s, T)
  <2>1. CASE T = {}
    <3>1. Cardinality(T) = 0
      BY <2>1, FS_EmptySet
    <3>2. it[T] = G[0][T]
      BY <3>1
    <3>3. G[0] = [U \in D |-> x]
      BY <1>4 DEF IsRun
    <3>4. it[T] = x
      <4> HIDE DEF D
      <4> QED  BY <3>2, <3>3
    <3> QED  BY <2>1, <3>4 DEF IsSetFold
  <2>2. CASE T # {}
    <3> DEFINE U == T \ {Max(T)}
               m == Cardinality(U)
    <3>1. Max(T) \in T /\ U \in D
      BY <1>2, <2>2
    <3>2. m \in Nat /\ Cardinality(T) = m + 1
      <4>1. Cardinality(U) = Cardinality(T) - 1
        BY <1>5, <3>1, FS_RemoveElement
      <4>2. m \in Nat /\ Cardinality(T) \in Nat
        BY <1>5, <3>1
      <4> QED  BY <4>1, <4>2
    <3>3. G[m + 1] = next[m][G[m]] /\ G[m] \in [D -> A]
      BY <1>4, <3>2 DEF IsRun
    <3>4. it[U] = G[m][U] /\ it[T] = G[m + 1][T]
      BY <3>1, <3>2
    <3>5. next[m][G[m]] = [V \in D |-> IF V = {} THEN x
                                       ELSE op[G[m][V \ {Max(V)}]][s[Max(V)]]]
      <4> HIDE DEF D
      <4> QED  BY <3>2, <3>3
    <3>6. next[m][G[m]][T] = op[G[m][U]][s[Max(T)]]
      <4> HIDE DEF D, next
      <4> QED  BY <2>2, <3>5
    <3>7. it[T] = op[it[U]][s[Max(T)]]
      <4> HIDE DEF next, it, U, m
      <4> QED  BY <3>3, <3>4, <3>6
    <3> QED  BY <2>2, <3>7 DEF IsSetFold
  <2> QED  BY <2>1, <2>2
<1> HIDE DEF it
<1> QED  BY <1>6, <1>7 DEF n

\* It computes that wherever it has its type.
ComputesFold(it, A, E, op, x, s) ==
  /\ op \in [A -> [E -> A]] /\ x \in A /\ s \in Seq(E)
  /\ it[{}] = x
  /\ \A T \in SUBSET (1 .. Len(s)) :
       T # {} /\ it[T \ {Max(T)}] \in A => IsSetFold(it, op, x, s, T)

\* What a fold comes to, and the type of its steps.
FoldsTo(y, A, op, x, s) ==
  \E f : /\ IsFold(f, op, x, s) /\ y = f[Len(s)]
        /\ \A i \in 0 .. Len(s) : f[i] \in A

\* Then it is the fold of the whole, element by element.
LEMMA SetFoldIsFold ==
  ASSUME NEW it, NEW A, NEW E, NEW op, NEW x, NEW s, ComputesFold(it, A, E, op, x, s)
  PROVE  FoldsTo(it[1 .. Len(s)], A, op, x, s)
<1> DEFINE n == Len(s)
           f == [i \in 0 .. n |-> it[1 .. i]]
<1>a. op \in [A -> [E -> A]] /\ x \in A /\ s \in Seq(E)
  BY DEF ComputesFold
<1>1. n \in Nat /\ \A i \in 1 .. n : s[i] \in E
  BY <1>a, ElementOfSeq, LenProperties
<1> HIDE DEF n
<1>0. /\ it[{}] = x
      /\ \A T \in SUBSET (1 .. n) :
           T # {} /\ it[T \ {Max(T)}] \in A => IsSetFold(it, op, x, s, T)
  BY DEF ComputesFold, n
<1>2. f[0] = x /\ \A i \in 0 .. n : f[i] = it[1 .. i]
  <2>1. \A i \in 0 .. n : f[i] = it[1 .. i]
    OBVIOUS
  <2> HIDE DEF f
  <2>2. 1 .. 0 = {}
    OBVIOUS
  <2>3. 0 \in 0 .. n
    BY <1>1
  <2> QED  BY <1>0, <2>1, <2>2, <2>3
<1>3. ASSUME NEW i \in 1 .. n, f[i - 1] \in A
      PROVE  f[i] = op[f[i - 1]][s[i]]
  <2>1. i \in Nat /\ i # 0 /\ i \in 0 .. n /\ i - 1 \in 0 .. n
    BY <1>1
  <2>2. Max(1 .. i) = i /\ (1 .. i) \ {i} = 1 .. i - 1
    BY <2>1, LargestOfFirst
  <2>3. 1 .. i \in SUBSET (1 .. n) /\ 1 .. i # {}
    <3>1. \A k \in 1 .. i : k \in 1 .. n
      BY <1>1
    <3>2. 1 \in 1 .. i
      BY <2>1
    <3> QED  BY <3>1, <3>2
  <2>4. f[i] = it[1 .. i] /\ f[i - 1] = it[1 .. i - 1]
    BY <1>2, <2>1
  <2>5. IsSetFold(it, op, x, s, 1 .. i)
    <3> HIDE DEF f
    <3> QED  BY <1>0, <1>3, <2>2, <2>3, <2>4
  <2> HIDE DEF f
  <2> QED  BY <2>2, <2>3, <2>4, <2>5 DEF IsSetFold
<1> HIDE DEF f
<1> DEFINE Good == {i \in Nat : i <= n => f[i] \in A}
<1>4. 0 \in Good
  BY <1>a, <1>2
<1>5. ASSUME NEW i \in Nat, i \in Good PROVE i + 1 \in Good
  <2>1. ASSUME i + 1 <= n PROVE f[i + 1] \in A
    <3>1. i + 1 \in 1 .. n /\ (i + 1) - 1 = i /\ i <= n
      BY <1>1, <2>1
    <3>2. f[i] \in A /\ s[i + 1] \in E
      BY <1>1, <1>5, <3>1
    <3>3. f[i + 1] = op[f[i]][s[i + 1]]
      BY <1>3, <3>1, <3>2
    <3> QED  BY <1>a, <3>2, <3>3
  <2> QED  BY <2>1
<1>6. Nat \subseteq Good
  <2> HIDE DEF Good
  <2> QED  BY <1>4, <1>5, AllNaturals
<1>7. \A i \in 0 .. n : f[i] \in A
  BY <1>6
<1>8. \A i \in 1 .. n : i - 1 \in 0 .. n
  BY <1>1
<1>9. IsFold(f, op, x, s)
  <2> HIDE DEF Good
  <2> QED  BY <1>2, <1>3, <1>7, <1>8 DEF IsFold, n
<1>10. n \in 0 .. n
  BY <1>1
<1> HIDE DEF Good
<1> QED  BY <1>2, <1>7, <1>9, <1>10 DEF n, FoldsTo

\* What each step of a fold keeps, the fold keeps.
LEMMA FoldStays ==
  ASSUME NEW E, NEW s \in Seq(E), NEW T, NEW x \in T, NEW op, NEW f,
         IsFold(f, op, x, s), \A t \in T, e \in E : op[t][e] \in T
  PROVE  \A i \in 0 .. Len(s) : f[i] \in T
<1> DEFINE n == Len(s)
           Good == {i \in Nat : i <= n => f[i] \in T}
<1>1. n \in Nat /\ \A i \in 1 .. n : s[i] \in E
  BY ElementOfSeq, LenProperties
<1>2. 0 \in Good
  BY DEF IsFold
<1>3. ASSUME NEW i \in Nat, i \in Good PROVE i + 1 \in Good
  <2>1. ASSUME i + 1 <= n PROVE f[i + 1] \in T
    <3>1. i + 1 \in 1 .. n /\ (i + 1) - 1 = i /\ i <= n
      BY <1>1, <2>1
    <3>2. f[i] \in T /\ s[i + 1] \in E
      BY <1>1, <1>3, <3>1
    <3>3. f[i + 1] = op[f[i]][s[i + 1]]
      BY <3>1 DEF IsFold
    <3> QED  BY <3>2, <3>3
  <2> QED  BY <2>1
<1>4. Nat \subseteq Good
  <2> HIDE DEF Good
  <2> QED  BY <1>2, <1>3, AllNaturals
<1> QED  BY <1>4

\* Folding a sequence after another starts where that one ended.
LEMMA FoldConcat ==
  ASSUME NEW E, NEW s \in Seq(E), NEW t \in Seq(E), NEW op, NEW x, NEW f, NEW g, NEW h,
         IsFold(f, op, x, s), IsFold(g, op, f[Len(s)], t), IsFold(h, op, x, s \o t)
  PROVE  h[Len(s \o t)] = g[Len(t)]
<1> DEFINE m == Len(s)
           n == Len(t)
           w == s \o t
<1>1. /\ m \in Nat /\ n \in Nat /\ Len(w) = m + n
      /\ \A i \in 1 .. m : w[i] = s[i]
      /\ \A i \in 1 .. n : w[m + i] = t[i]
  <2>1. m \in Nat /\ n \in Nat
    BY LenProperties
  <2>2. /\ Len(w) = m + n
        /\ \A i \in 1 .. m + n : w[i] = IF i <= m THEN s[i] ELSE t[i - m]
    BY ConcatProperties
  <2>3. \A i \in 1 .. m : i \in 1 .. m + n /\ i <= m
    BY <2>1
  <2>4. \A i \in 1 .. n : m + i \in 1 .. m + n /\ ~(m + i <= m) /\ (m + i) - m = i
    BY <2>1
  <2> HIDE DEF m, n, w
  <2> QED  BY <2>1, <2>2, <2>3, <2>4
<1> HIDE DEF m, n, w
<1>2. /\ f[0] = x /\ \A i \in 1 .. m : f[i] = op[f[i - 1]][s[i]]
      /\ g[0] = f[m] /\ \A i \in 1 .. n : g[i] = op[g[i - 1]][t[i]]
      /\ h[0] = x /\ \A i \in 1 .. m + n : h[i] = op[h[i - 1]][w[i]]
  BY <1>1 DEF IsFold, m, n, w
<1> DEFINE One == {i \in Nat : i <= m => h[i] = f[i]}
           Two == {i \in Nat : i <= n => h[m + i] = g[i]}
<1>3. 0 \in One
  BY <1>2
<1>4. ASSUME NEW i \in Nat, i \in One PROVE i + 1 \in One
  <2>1. ASSUME i + 1 <= m PROVE h[i + 1] = f[i + 1]
    <3>1. i + 1 \in 1 .. m /\ i + 1 \in 1 .. m + n /\ (i + 1) - 1 = i /\ i <= m
      BY <1>1, <2>1
    <3>2. h[i] = f[i] /\ w[i + 1] = s[i + 1]
      BY <1>1, <1>4, <3>1
    <3>3. h[i + 1] = op[h[i]][w[i + 1]] /\ f[i + 1] = op[f[i]][s[i + 1]]
      BY <1>2, <3>1
    <3> QED  BY <3>2, <3>3
  <2> QED  BY <2>1
<1>5. Nat \subseteq One
  <2> HIDE DEF One
  <2> QED  BY <1>3, <1>4, AllNaturals
<1>6. h[m] = f[m] /\ m + 0 = m
  BY <1>1, <1>5
<1>7. 0 \in Two
  BY <1>2, <1>6
<1>8. ASSUME NEW i \in Nat, i \in Two PROVE i + 1 \in Two
  <2>1. ASSUME i + 1 <= n PROVE h[m + (i + 1)] = g[i + 1]
    <3>1. /\ i + 1 \in 1 .. n /\ m + (i + 1) \in 1 .. m + n
          /\ (m + (i + 1)) - 1 = m + i /\ (i + 1) - 1 = i /\ i <= n
      BY <1>1, <2>1
    <3>2. h[m + i] = g[i] /\ w[m + (i + 1)] = t[i + 1]
      BY <1>1, <1>8, <3>1
    <3>3. /\ h[m + (i + 1)] = op[h[m + i]][w[m + (i + 1)]]
          /\ g[i + 1] = op[g[i]][t[i + 1]]
      BY <1>2, <3>1
    <3> QED  BY <3>2, <3>3
  <2> QED  BY <2>1
<1>9. Nat \subseteq Two
  <2> HIDE DEF Two
  <2> QED  BY <1>7, <1>8, AllNaturals
<1>10. h[m + n] = g[n]
  BY <1>1, <1>9
<1> QED  BY <1>1, <1>10 DEF m, n, w

\* Both parts of a sequence count.
LEMMA OccurrencesConcat ==
  ASSUME NEW S, NEW s \in Seq(S), NEW t \in Seq(S), NEW A
  PROVE  Cardinality(Occurrences(s \o t, A))
           = Cardinality(Occurrences(s, A)) + Cardinality(Occurrences(t, A))
<1> DEFINE m == Len(s)
           n == Len(t)
           w == s \o t
           O == Occurrences(s, A)
           P == Occurrences(t, A)
           Q == {m + i : i \in P}
           shift == [i \in P |-> m + i]
<1>1. /\ m \in Nat /\ n \in Nat /\ DOMAIN w = 1 .. m + n
      /\ DOMAIN s = 1 .. m /\ DOMAIN t = 1 .. n
      /\ \A i \in 1 .. m : w[i] = s[i]
      /\ \A i \in 1 .. n : w[m + i] = t[i]
  <2>1. /\ m \in Nat /\ n \in Nat
        /\ DOMAIN s = 1 .. m /\ DOMAIN t = 1 .. n
    BY LenProperties
  <2>2. /\ w \in Seq(S) /\ Len(w) = m + n
        /\ \A i \in 1 .. m + n : w[i] = IF i <= m THEN s[i] ELSE t[i - m]
    BY ConcatProperties
  <2>3. \A i \in 1 .. m : i \in 1 .. m + n /\ i <= m
    BY <2>1
  <2>4. \A i \in 1 .. n : m + i \in 1 .. m + n /\ ~(m + i <= m) /\ (m + i) - m = i
    BY <2>1
  <2> HIDE DEF m, n, w
  <2> QED  BY <2>1, <2>2, <2>3, <2>4, LenProperties
<1>2. /\ IsFiniteSet(O) /\ Cardinality(O) \in Nat /\ O \subseteq 1 .. m
      /\ IsFiniteSet(P) /\ Cardinality(P) \in Nat /\ P \subseteq 1 .. n
  BY OccurrencesTypes
<1>3. O = {i \in 1 .. m : w[i] \in A} /\ P = {i \in 1 .. n : w[m + i] \in A}
  <2> HIDE DEF m, n, w
  <2> QED  BY <1>1 DEF Occurrences
<1>4. Occurrences(w, A) = O \cup Q
  <2>1. \A i \in 1 .. m + n : i \in 1 .. m \/ (i - m \in 1 .. n /\ i = m + (i - m))
    <3> HIDE DEF m, n
    <3> QED  BY <1>1
  <2>2. \A i \in 1 .. n : m + i \in 1 .. m + n
    <3> HIDE DEF m, n
    <3> QED  BY <1>1
  <2>3. \A i \in 1 .. m : i \in 1 .. m + n
    <3> HIDE DEF m, n
    <3> QED  BY <1>1
  <2>4. Occurrences(w, A) = {i \in 1 .. m + n : w[i] \in A}
    <3> HIDE DEF m, n, w
    <3> QED  BY <1>1 DEF Occurrences
  <2> HIDE DEF m, n, w, O, P
  <2> QED  BY <1>3, <2>1, <2>2, <2>3, <2>4
<1> HIDE DEF m, n, w, O, P
<1>5. IsFiniteSet(Q) /\ Cardinality(Q) = Cardinality(P)
  <2>0. \A i \in P : i \in Nat
    BY <1>2
  <2>1. shift \in [P -> Q]
    OBVIOUS
  <2>2. \A i, j \in P : shift[i] = shift[j] => i = j
    BY <1>1, <2>0
  <2>3. \A k \in Q : \E i \in P : shift[i] = k
    OBVIOUS
  <2> HIDE DEF shift, Q
  <2>4. shift \in Bijection(P, Q)
    BY <2>1, <2>2, <2>3 DEF Bijection, Injection, Surjection, IsInjective
  <2>5. ExistsBijection(P, Q)
    BY <2>4 DEF ExistsBijection
  <2> QED  BY <1>2, <2>5, FS_Bijection
<1>6. O \cap Q = {}
  BY <1>1, <1>2
<1>7. Cardinality(O \cup Q) = Cardinality(O) + Cardinality(Q) - Cardinality(O \cap Q)
  <2> HIDE DEF Q
  <2> QED  BY <1>2, <1>5, FS_Union
<1>8. Cardinality(O \cap Q) = 0
  BY <1>6, FS_EmptySet
<1>9. Cardinality(O \cup Q) = Cardinality(O) + Cardinality(P)
  <2> HIDE DEF Q
  <2> QED  BY <1>2, <1>5, <1>7, <1>8
<1> QED  BY <1>4, <1>9 DEF w, O, P

\* The same, of what a loop comes to: it keeps what its steps keep, ...
LEMMA LoopKeeps ==
  ASSUME NEW y, NEW step, NEW x, NEW n, NEW T, LoopsTo(y, step, x, n),
         n \in Nat, x \in T, \A t \in T : step[t] \in T
  PROVE  y \in T
<1>1. PICK f : IsLoop(f, step, x, n) /\ y = f[n]
  BY DEF LoopsTo
<1>2. \A i \in 0 .. n : f[i] \in T
  BY <1>1, LoopStays
<1> QED  BY <1>1, <1>2

\* ... stays where it is at rest, ...
LEMMA LoopStill ==
  ASSUME NEW y, NEW step, NEW x, NEW n, LoopsTo(y, step, x, n), n \in Nat, step[x] = x
  PROVE  y = x
<1>1. y \in {x}
  BY LoopKeeps
<1> QED  BY <1>1

\* ... is at rest after one step if that step is, ...
LEMMA LoopRests ==
  ASSUME NEW y, NEW step, NEW x, NEW n, LoopsTo(y, step, x, n),
         n \in Nat, n # 0, step[step[x]] = step[x]
  PROVE  y = step[x]
<1>1. PICK f : IsLoop(f, step, x, n) /\ y = f[n]
  BY DEF LoopsTo
<1>2. f[n] = step[x]
  BY <1>1, LoopSettles
<1> QED  BY <1>1, <1>2

\* ... and ends at rest if each step makes something smaller.
LEMMA LoopFinishes ==
  ASSUME NEW y, NEW step, NEW x, NEW n, NEW T, NEW m, LoopsTo(y, step, x, n),
         n \in Nat, x \in T, \A t \in T : step[t] \in T, m \in [T -> Nat], m[x] <= n,
         \A t \in T : step[t] = t \/ m[step[t]] < m[t]
  PROVE  step[y] = y
<1>1. PICK f : IsLoop(f, step, x, n) /\ y = f[n]
  BY DEF LoopsTo
<1>2. step[f[n]] = f[n]
  BY <1>1, LoopEnds
<1> QED  BY <1>1, <1>2

\* A fold keeps what its steps keep.
LEMMA FoldKeeps ==
  ASSUME NEW y, NEW A, NEW E, NEW op, NEW x, NEW s, NEW T, FoldsTo(y, A, op, x, s),
         s \in Seq(E), x \in T, \A t \in T, e \in E : op[t][e] \in T
  PROVE  y \in T
<1>1. PICK f : IsFold(f, op, x, s) /\ y = f[Len(s)]
  BY DEF FoldsTo
<1>2. \A i \in 0 .. Len(s) : f[i] \in T
  BY <1>1, FoldStays
<1>3. Len(s) \in 0 .. Len(s)
  BY LenProperties
<1> QED  BY <1>1, <1>2, <1>3

\* The fold of two sequences, one after the other, is the second one's.
LEMMA FoldsConcat ==
  ASSUME NEW E, NEW s, NEW t, NEW A, NEW op, NEW x, NEW y, NEW z, NEW w,
         s \in Seq(E), t \in Seq(E), FoldsTo(y, A, op, x, s), FoldsTo(z, A, op, y, t),
         FoldsTo(w, A, op, x, s \o t)
  PROVE  w = z
<1>1. PICK f : IsFold(f, op, x, s) /\ y = f[Len(s)]
  BY DEF FoldsTo
<1>2. PICK g : IsFold(g, op, y, t) /\ z = g[Len(t)]
  BY DEF FoldsTo
<1>3. PICK h : IsFold(h, op, x, s \o t) /\ w = h[Len(s \o t)]
  BY DEF FoldsTo
<1>4. h[Len(s \o t)] = g[Len(t)]
  BY <1>1, <1>2, <1>3, FoldConcat
<1> QED  BY <1>2, <1>3, <1>4

\* The fold of no element.
LEMMA FoldsNone ==
  ASSUME NEW y, NEW A, NEW op, NEW x, NEW s, FoldsTo(y, A, op, x, s), Len(s) = 0
  PROVE  y = x
<1>1. PICK f : IsFold(f, op, x, s) /\ y = f[0]
  BY DEF FoldsTo
<1>2. f[0] = x
  BY <1>1 DEF IsFold
<1> QED  BY <1>1, <1>2

\* The fold of one element.
LEMMA FoldsOne ==
  ASSUME NEW y, NEW A, NEW op, NEW x, NEW s, FoldsTo(y, A, op, x, s), Len(s) = 1
  PROVE  y = op[x][s[1]]
<1>1. PICK f : IsFold(f, op, x, s) /\ y = f[1]
  BY DEF FoldsTo
<1>2. f[0] = x /\ \A i \in 1 .. 1 : f[i] = op[f[i - 1]][s[i]]
  BY <1>1 DEF IsFold
<1>3. 1 \in 1 .. 1 /\ 1 - 1 = 0
  OBVIOUS
<1>4. f[1] = op[f[0]][s[1]]
  BY <1>2, <1>3
<1> QED  BY <1>1, <1>2, <1>4

\* The fold of two elements.
LEMMA FoldsTwo ==
  ASSUME NEW y, NEW A, NEW op, NEW x, NEW s, FoldsTo(y, A, op, x, s), Len(s) = 2
  PROVE  y = op[op[x][s[1]]][s[2]]
<1>1. PICK f : IsFold(f, op, x, s) /\ y = f[2]
  BY DEF FoldsTo
<1>2. f[0] = x /\ \A i \in 1 .. 2 : f[i] = op[f[i - 1]][s[i]]
  BY <1>1 DEF IsFold
<1>3. 1 \in 1 .. 2 /\ 1 - 1 = 0 /\ 2 \in 1 .. 2 /\ 2 - 1 = 1
  OBVIOUS
<1>4. f[1] = op[f[0]][s[1]] /\ f[2] = op[f[1]][s[2]]
  BY <1>2, <1>3
<1> QED  BY <1>1, <1>2, <1>4

\* The fold of three elements.
LEMMA FoldsThree ==
  ASSUME NEW y, NEW A, NEW op, NEW x, NEW s, FoldsTo(y, A, op, x, s), Len(s) = 3
  PROVE  y = op[op[op[x][s[1]]][s[2]]][s[3]]
<1>1. PICK f : IsFold(f, op, x, s) /\ y = f[3]
  BY DEF FoldsTo
<1>2. f[0] = x /\ \A i \in 1 .. 3 : f[i] = op[f[i - 1]][s[i]]
  BY <1>1 DEF IsFold
<1>3. 1 \in 1 .. 3 /\ 1 - 1 = 0 /\ 2 \in 1 .. 3 /\ 2 - 1 = 1 /\ 3 \in 1 .. 3 /\ 3 - 1 = 2
  OBVIOUS
<1>4. f[1] = op[f[0]][s[1]] /\ f[2] = op[f[1]][s[2]] /\ f[3] = op[f[2]][s[3]]
  BY <1>2, <1>3
<1> QED  BY <1>1, <1>2, <1>4

\* Each element is in a set or not.
LEMMA OccurrencesSplit ==
  ASSUME NEW S, NEW s \in Seq(S), NEW A
  PROVE  Cardinality(Occurrences(s, A)) + Cardinality(Occurrences(s, S \ A)) = Len(s)
<1> DEFINE O == Occurrences(s, A)
           P == Occurrences(s, S \ A)
<1>1. /\ Len(s) \in Nat /\ DOMAIN s = 1 .. Len(s)
      /\ \A i \in 1 .. Len(s) : s[i] \in S
  BY LenProperties, ElementOfSeq
<1>2. O \cup P = 1 .. Len(s) /\ O \cap P = {}
  BY <1>1 DEF Occurrences
<1>3. /\ IsFiniteSet(O) /\ Cardinality(O) \in Nat
      /\ IsFiniteSet(P) /\ Cardinality(P) \in Nat
  BY OccurrencesTypes
<1> HIDE DEF O, P
<1>4. Cardinality(O \cup P) = Cardinality(O) + Cardinality(P) - Cardinality(O \cap P)
  BY <1>3, FS_Union
<1>5. Cardinality(1 .. Len(s)) = IF 1 > Len(s) THEN 0 ELSE Len(s) - 1 + 1
  BY <1>1, FS_Interval
<1>6. Cardinality({}) = 0
  BY FS_EmptySet
<1>7. Cardinality(O) + Cardinality(P) = Len(s)
  <2> DEFINE o == Cardinality(O)
             p == Cardinality(P)
             n == Len(s)
  <2>1. Cardinality(1 .. Len(s)) = o + p - 0
    BY <1>2, <1>4, <1>6
  <2>2. o \in Nat /\ p \in Nat /\ n \in Nat
    BY <1>1, <1>3
  <2>3. o + p - 0 = IF 1 > n THEN 0 ELSE n - 1 + 1
    BY <1>5, <2>1
  <2> HIDE DEF o, p, n
  <2>4. o + p = n
    BY <2>2, <2>3
  <2> QED  BY <2>4 DEF o, p, n
<1> QED  BY <1>7 DEF O, P

\* The elements of two sequences have the same effect.
SameEffects(A, op, s, t, n) == \A a \in A : \A i \in 1 .. n : op[a][s[i]] = op[a][t[i]]

\* Folds of such sequences are the same.
LEMMA FoldsSame ==
  ASSUME NEW y, NEW z, NEW A, NEW op, NEW x, NEW s, NEW t, NEW n, n \in Nat,
         Len(s) = n, Len(t) = n, FoldsTo(y, A, op, x, s), FoldsTo(z, A, op, x, t),
         SameEffects(A, op, s, t, n)
  PROVE  y = z
<1>1. PICK f : IsFold(f, op, x, s) /\ y = f[n] /\ \A i \in 0 .. n : f[i] \in A
  BY DEF FoldsTo
<1>2. PICK g : IsFold(g, op, x, t) /\ z = g[n] /\ \A i \in 0 .. n : g[i] \in A
  BY DEF FoldsTo
<1> DEFINE Same == {i \in Nat : i <= n => f[i] = g[i]}
<1>3. 0 \in Same
  BY <1>1, <1>2 DEF IsFold
<1>4. ASSUME NEW i \in Nat, i \in Same PROVE i + 1 \in Same
  <2>1. ASSUME i + 1 <= n PROVE f[i + 1] = g[i + 1]
    <3>1. i + 1 \in 1 .. n /\ (i + 1) - 1 = i /\ i \in 0 .. n /\ i <= n
      BY <2>1
    <3>2. f[i] = g[i] /\ f[i] \in A
      BY <1>1, <1>4, <3>1
    <3>3. f[i + 1] = op[f[i]][s[i + 1]] /\ g[i + 1] = op[g[i]][t[i + 1]]
      BY <1>1, <1>2, <3>1 DEF IsFold
    <3> QED  BY <3>1, <3>2, <3>3 DEF SameEffects
  <2> QED  BY <2>1
<1>5. Nat \subseteq Same
  <2> HIDE DEF Same
  <2> QED  BY <1>3, <1>4, AllNaturals
<1> QED  BY <1>1, <1>2, <1>5

\* b in three pieces: the middle one, m, from i to j.
Pieces(K, b, i, j, u, m, v) ==
  /\ u \in Seq(K) /\ Len(u) = i - 1 /\ \A h \in 1 .. i - 1 : u[h] = b[h]
  /\ m \in Seq(K) /\ Len(m) = j - i + 1
  /\ \A h \in 1 .. j - i + 1 : m[h] = b[i + h - 1]
  /\ v \in Seq(K) /\ Len(v) = Len(b) - j
  /\ \A h \in 1 .. Len(b) - j : v[h] = b[j + h]
  /\ b = u \o (m \o v)

\* Any text is its pieces.
LEMMA InThree ==
  ASSUME NEW K, NEW b, NEW i, NEW j, b \in Seq(K), i \in 1 .. Len(b), j \in i .. Len(b)
  PROVE  Pieces(K, b, i, j, SubSeq(b, 1, i - 1), SubSeq(b, i, j), SubSeq(b, j + 1, Len(b)))
<1> DEFINE u == SubSeq(b, 1, i - 1)
           m == SubSeq(b, i, j)
           v == SubSeq(b, j + 1, Len(b))
<1> DEFINE n == Len(b)
<1>1. n \in Nat /\ (\A h \in 1 .. n : b[h] \in K) /\ i \in Int /\ j \in Int
  BY LenProperties, ElementOfSeq
<1>2. /\ u \in Seq(K) /\ Len(u) = i - 1 /\ \A h \in 1 .. i - 1 : u[h] = b[h]
  <2>1. \A h \in 1 .. i - 1 : b[h] \in K
    BY <1>1
  <2> HIDE DEF n, u
  <2> QED  BY <1>1, <2>1, SubSeqProperties DEF u
<1>3. /\ m \in Seq(K) /\ Len(m) = j - i + 1
      /\ \A h \in 1 .. j - i + 1 : m[h] = b[i + h - 1]
  <2>1. \A h \in i .. j : b[h] \in K
    BY <1>1
  <2> HIDE DEF n, m
  <2> QED  BY <1>1, <2>1, SubSeqProperties DEF m
<1>4. /\ v \in Seq(K) /\ Len(v) = n - j
      /\ \A h \in 1 .. n - j : v[h] = b[j + h]
  <2>1. \A h \in j + 1 .. n : b[h] \in K
    BY <1>1
  <2>2. /\ v \in Seq(K) /\ Len(v) = IF j + 1 <= n THEN n - (j + 1) + 1 ELSE 0
        /\ \A h \in 1 .. n - (j + 1) + 1 : v[h] = b[(j + 1) + h - 1]
    <3> HIDE DEF n, v
    <3> QED  BY <1>1, <2>1, SubSeqProperties DEF v, n
  <2>3. n - (j + 1) + 1 = n - j /\ \A h \in 1 .. n - j : (j + 1) + h - 1 = j + h
    BY <1>1
  <2> HIDE DEF n, v
  <2>4. Len(v) = n - j
    BY <1>1, <2>2 DEF n
  <2>5. \A h \in 1 .. n - j : v[h] = b[j + h]
    <3> TAKE h \in 1 .. n - j
    <3>1. (j + 1) + h - 1 = j + h /\ h \in 1 .. n - (j + 1) + 1
      BY <2>3
    <3>2. v[h] = b[(j + 1) + h - 1]
      BY <2>2, <3>1
    <3> QED  BY <3>1, <3>2
  <2> QED  BY <2>2, <2>4, <2>5
<1>5. b = u \o (m \o v)
  <2>1. m \o v = SubSeq(b, i, n)
    <3>1. i \in 1 .. n + 1 /\ j \in i - 1 .. n /\ n \in j .. n
      BY <1>1
    <3> QED  BY <3>1, ConcatAdjacentSubSeq
  <2>2. u \o SubSeq(b, (i - 1) + 1, n) = SubSeq(b, 1, n)
    <3>1. 1 \in 1 .. n + 1 /\ i - 1 \in 1 - 1 .. n /\ n \in i - 1 .. n
      BY <1>1
    <3> HIDE DEF n
    <3> QED  BY <3>1, ConcatAdjacentSubSeq DEF n
  <2>3. (i - 1) + 1 = i
    BY <1>1
  <2>4. SubSeq(b, 1, n) = b
    BY SubSeqFull
  <2> QED  BY <2>1, <2>2, <2>3, <2>4
<1> HIDE DEF u, m, v
<1>6. Pieces(K, b, i, j, u, m, v)
  BY <1>2, <1>3, <1>4, <1>5 DEF Pieces
<1> QED  BY <1>6 DEF u, m, v

\* The parts of a text and one key more.
LEMMA FrontOfAppend ==
  ASSUME NEW K, NEW u, NEW k, u \in Seq(K), k \in K
  PROVE  /\ Append(u, k) \in Seq(K) /\ Append(u, k) # <<>>
         /\ Last(Append(u, k)) = k /\ Front(Append(u, k)) = u
<1> DEFINE w == Append(u, k)
           m == Len(u)
           z == SubSeq(w, 1, Len(w) - 1)
<1>1. /\ w \in Seq(K) /\ w # <<>> /\ Len(w) = m + 1 /\ w[m + 1] = k
      /\ \A i \in 1 .. m : w[i] = u[i]
  BY AppendProperties
<1>2. m \in Nat
  BY LenProperties
<1> HIDE DEF w, m
<1>3. Last(w) = k
  BY <1>1 DEF Last
<1>4. Len(w) - 1 = m
  BY <1>1, <1>2
<1>5. z = SubSeq(w, 1, m)
  BY <1>4
<1>6. z \in Seq(K) /\ Len(z) = m /\ \A i \in 1 .. m : z[i] = w[i]
  <2>1. \A i \in 1 .. m : w[i] \in K
    <3>1. \A i \in 1 .. m : i \in 1 .. Len(w)
      BY <1>1, <1>2
    <3> QED  BY <1>1, <3>1, ElementOfSeq
  <2> HIDE DEF z
  <2>2. /\ z \in Seq(K) /\ Len(z) = IF 1 <= m THEN m - 1 + 1 ELSE 0
        /\ \A i \in 1 .. m - 1 + 1 : z[i] = w[1 + i - 1]
    BY <1>2, <1>5, <2>1, SubSeqProperties
  <2>3. m - 1 + 1 = m /\ \A i \in 1 .. m : 1 + i - 1 = i
    BY <1>2
  <2>4. Len(z) = m
    BY <1>2, <2>2
  <2> QED  BY <2>2, <2>3, <2>4
<1> HIDE DEF z
<1>7. z = u
  <2>1. Len(z) = Len(u) /\ \A i \in 1 .. Len(z) : z[i] = u[i]
    BY <1>1, <1>6 DEF m
  <2> QED  BY <1>6, <2>1, SeqEqual
<1> QED  BY <1>1, <1>3, <1>7 DEF Front, w, z
=============================================================================
