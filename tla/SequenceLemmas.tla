--------------------------- MODULE SequenceLemmas ----------------------------
(***************************************************************************)
(* Facts about sequences and numbers that several proofs need.             *)
(***************************************************************************)
EXTENDS SequencesExt, SequenceTheorems, FiniteSetTheorems, WellFoundedInduction, TLAPS

\* A nonempty sequence is its front and its last element.
LEMMA FrontLast ==
    ASSUME NEW S, NEW s \in Seq(S), s # <<>>
    PROVE  /\ Last(s) \in S
           /\ Front(s) \in Seq(S)
           /\ Len(Front(s)) = Len(s) - 1
           /\ \A i \in 1 .. Len(s) - 1 : Front(s)[i] = s[i]
<1>1. Len(s) \in Nat /\ Len(s) > 0
  BY EmptySeq, LenProperties
<1>2. Last(s) \in S
  BY <1>1, ElementOfSeq DEF Last
<1>3. \A i \in 1 .. Len(s) - 1 : s[i] \in S
  BY <1>1, ElementOfSeq
<1>4. /\ SubSeq(s, 1, Len(s) - 1) \in Seq(S)
      /\ Len(SubSeq(s, 1, Len(s) - 1)) = Len(s) - 1
      /\ \A i \in 1 .. Len(s) - 1 : SubSeq(s, 1, Len(s) - 1)[i] = s[i]
  <2>. DEFINE n == Len(s) - 1
  <2>1. n \in Int /\ 1 \in Int /\ n - 1 + 1 = n /\ n \in Nat BY <1>1
  <2>2. \A i \in 1 .. n : s[i] \in S BY <1>3
  <2>. HIDE DEF n
  <2>3. /\ SubSeq(s, 1, n) \in Seq(S)
        /\ Len(SubSeq(s, 1, n)) = IF 1 <= n THEN n - 1 + 1 ELSE 0
        /\ \A i \in 1 .. n - 1 + 1 : SubSeq(s, 1, n)[i] = s[1 + i - 1]
    BY ONLY <2>1, <2>2, SubSeqProperties
  <2>. QED BY <2>1, <2>3 DEF n
<1>. QED BY <1>1, <1>2, <1>4 DEF Front

\* An interval that begins with one has one length.
LEMMA IntervalEnd ==
    ASSUME NEW m \in Nat, NEW n \in Nat, 1 .. m = 1 .. n
    PROVE  m = n
<1>1. m > 0 => m \in 1 .. n OBVIOUS
<1>2. n > 0 => n \in 1 .. m OBVIOUS
<1>. QED BY <1>1, <1>2

\* A function on an initial interval is a sequence.
LEMMA FunctionSeq ==
    ASSUME NEW S, NEW n \in Nat, NEW f \in [1 .. n -> S]
    PROVE  f \in Seq(S) /\ Len(f) = n
<1>1. f \in Seq(S)
  BY SeqDef
<1>2. 1 .. Len(f) = 1 .. n /\ Len(f) \in Nat
  BY <1>1, LenProperties
<1>. QED BY <1>1, <1>2, IntervalEnd

\* A strict prefix, index by index.
LEMMA StrictPrefixIs ==
    ASSUME NEW S, NEW s \in Seq(S), NEW t \in Seq(S)
    PROVE  IsStrictPrefix(s, t) <=> Len(s) < Len(t) /\ \A i \in 1 .. Len(s) : s[i] = t[i]
<1>1. Len(s) \in Nat /\ Len(t) \in Nat
  BY LenProperties
<1>2. SubSeq(s, 1, Len(s)) = s /\ SubSeq(t, 1, Len(t)) = t
  BY SubSeqFull
<1>3. ASSUME Len(s) <= Len(t)
      PROVE  /\ SubSeq(t, 1, Len(s)) \in Seq(S)
             /\ Len(SubSeq(t, 1, Len(s))) = Len(s)
             /\ \A i \in 1 .. Len(s) : SubSeq(t, 1, Len(s))[i] = t[i]
  <2>1. \A i \in 1 .. Len(s) : t[i] \in S BY <1>1, <1>3, ElementOfSeq
  <2>. DEFINE n == Len(s)
  <2>2. n \in Int /\ n \in Nat /\ 1 \in Int /\ n - 1 + 1 = n /\ \A i \in 1 .. n : t[i] \in S BY <1>1, <2>1
  <2>. HIDE DEF n
  <2>3. /\ SubSeq(t, 1, n) \in Seq(S)
        /\ Len(SubSeq(t, 1, n)) = IF 1 <= n THEN n - 1 + 1 ELSE 0
        /\ \A i \in 1 .. n - 1 + 1 : SubSeq(t, 1, n)[i] = t[1 + i - 1]
    BY ONLY <2>2, SubSeqProperties
  <2>. QED BY <2>2, <2>3 DEF n
<1>4. ASSUME IsStrictPrefix(s, t)
      PROVE  Len(s) < Len(t) /\ \A i \in 1 .. Len(s) : s[i] = t[i]
  <2>1. Len(s) <= Len(t) /\ s = SubSeq(t, 1, Len(s)) /\ s # t
    BY <1>2, <1>4 DEF IsStrictPrefix, IsPrefix
  <2>2. Len(s) # Len(t) BY <1>2, <2>1
  <2>. QED BY <1>1, <1>3, <2>1, <2>2
<1>5. ASSUME Len(s) < Len(t), \A i \in 1 .. Len(s) : s[i] = t[i]
      PROVE  IsStrictPrefix(s, t)
  <2>1. Len(s) <= Len(t) BY <1>1, <1>5
  <2>2. SubSeq(t, 1, Len(s)) = s BY <1>3, <1>5, <2>1, SeqEqual
  <2>. QED BY <1>2, <1>5, <2>1, <2>2 DEF IsStrictPrefix, IsPrefix
<1>. QED BY <1>4, <1>5

\* The same, one direction at a time.
LEMMA StrictPrefixGives ==
    ASSUME NEW S, NEW s \in Seq(S), NEW t \in Seq(S), IsStrictPrefix(s, t)
    PROVE  Len(s) < Len(t) /\ \A i \in 1 .. Len(s) : s[i] = t[i]
BY StrictPrefixIs

\* A shorter sequence that agrees on its whole length is a strict prefix.
LEMMA StrictPrefixFrom ==
    ASSUME NEW S, NEW s \in Seq(S), NEW t \in Seq(S), Len(s) < Len(t),
           \A i \in 1 .. Len(s) : s[i] = t[i]
    PROVE  IsStrictPrefix(s, t)
BY StrictPrefixIs

\* A strict prefix of a strict prefix is one.
LEMMA StrictPrefixTransitive ==
    ASSUME NEW S, NEW p \in Seq(S), NEW q \in Seq(S), NEW r \in Seq(S),
           IsStrictPrefix(p, q), IsStrictPrefix(q, r)
    PROVE  IsStrictPrefix(p, r)
<1>1. Len(p) \in Nat /\ Len(q) \in Nat /\ Len(r) \in Nat
  BY LenProperties
<1>2. Len(p) < Len(q) /\ \A i \in 1 .. Len(p) : p[i] = q[i]
  BY StrictPrefixGives
<1>3. Len(q) < Len(r) /\ \A i \in 1 .. Len(q) : q[i] = r[i]
  BY StrictPrefixGives
<1>4. Len(p) < Len(r) /\ \A i \in 1 .. Len(p) : p[i] = r[i]
  BY <1>1, <1>2, <1>3
<1>. QED BY <1>4, StrictPrefixFrom

\* A sequence is a strict prefix of what it is extended to.
LEMMA StrictPrefixAppend ==
    ASSUME NEW S, NEW p \in Seq(S), NEW n \in S
    PROVE  IsStrictPrefix(p, Append(p, n))
<1>1. Len(p) \in Nat
  BY LenProperties
<1>2. /\ Append(p, n) \in Seq(S) /\ Len(Append(p, n)) = Len(p) + 1
      /\ \A i \in 1 .. Len(p) : Append(p, n)[i] = p[i]
  BY AppendProperties
<1>3. Len(p) < Len(Append(p, n)) /\ \A i \in 1 .. Len(p) : p[i] = Append(p, n)[i]
  BY <1>1, <1>2
<1>. QED BY <1>2, <1>3, StrictPrefixFrom

\* Every set of numbers has a least one: induction, in a form without a predicate.
LEMMA LeastNumber ==
    ASSUME NEW T, T \subseteq Nat, T # {}
    PROVE  \E n \in T : \A m \in T : n <= m
<1>1. PICK k \in T : TRUE OBVIOUS
<1>. DEFINE S == 0 .. k
            Up == {u \in SUBSET S : \E n \in T : n <= k /\ u = 0 .. n}
<1>2. IsFiniteSet(S)
  BY <1>1, FS_Interval
<1>3. IsWellFoundedOn(StrictSubsetOrdering(S), SUBSET S)
  BY <1>2, FS_StrictSubsetOrderingWellFounded, FS_FiniteSubsetsOfFinite
<1>4. Up # {} /\ Up \subseteq SUBSET S
  <2>1. 0 .. k \in Up BY <1>1
  <2>. QED BY <2>1
<1>5. PICK u \in Up : \A v \in Up : <<v, u>> \notin StrictSubsetOrdering(S)
  <2>. HIDE DEF S, Up
  <2>. QED BY <1>3, <1>4, WFMin
<1>6. PICK n \in T : n <= k /\ u = 0 .. n OBVIOUS
<1>7. \A m \in T : n <= m
  <2>. SUFFICES ASSUME NEW m \in T, ~ (n <= m) PROVE FALSE OBVIOUS
  <2>1. m \in Nat /\ n \in Nat /\ k \in Nat /\ m < n BY <1>1
  <2>2. 0 .. m \in Up /\ 0 .. m \subseteq 0 .. n /\ n \in 0 .. n /\ n \notin 0 .. m BY <2>1, <1>6
  <2>3. <<0 .. m, u>> \in StrictSubsetOrdering(S) BY <2>2, <1>6 DEF StrictSubsetOrdering
  <2>. QED BY <2>2, <2>3, <1>5
<1>. QED BY <1>7
=============================================================================
