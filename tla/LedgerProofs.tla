----------------------------- MODULE LedgerProofs -----------------------------
(***************************************************************************)
(* What the expansion of containers leaves in the journal when the process *)
(* lives to the end: nothing is lost, a refused container has nothing      *)
(* inside, and an occurrence is written after what surrounds it.  The      *)
(* invariant is a ledger of the positions that are accounted for; it       *)
(* speaks of a run that is not restarted, since a second attempt may end   *)
(* differently and leaves the records of the first (ExpansionRetry).       *)
(***************************************************************************)
EXTENDS ExpansionProofs

\* What a set of records says of a position.
Has(S, pos) == \E r \in S : r.at = pos
Opened(S, pos) == \E c \in S : c.kind = "container" /\ c.at = pos /\ c.status = "expanded"

\* Every record lies inside containers that were expanded, from depth m on.
Rooted(S, m) == \A r \in S : \A n \in m .. Len(r.at) - 1 : Opened(S, SubSeq(r.at, 1, n))

\* A refused container is kept as a blob and has nothing inside.
Refused(c) == c.kind = "container" /\ c.status = "unprocessed"
Closed(S) ==
    \A c \in S : Refused(c) =>
        /\ BlobRec(c.at, c.body, "unprocessed") \in S
        /\ \A r \in S : ~IsStrictPrefix(c.at, r.at)

\* An expanded one has a record for each of its parts.
Complete(S) ==
    \A c \in S : c.kind = "container" /\ c.status = "expanded" =>
        \A i \in DOMAIN Parts[c.body] : Has(S, Append(c.at, i))

Distinct(S) == \A r, s \in S : SameId(r, s) => r = s

Sound(S, m) ==
    S \subseteq RecordType /\ Rooted(S, m) /\ Closed(S) /\ Complete(S) /\ Distinct(S)

\* All there is to say of position p and what is inside; of the parts 1 .. k of p.
Account(S, p) ==
    /\ Sound(S, Len(p)) /\ Has(S, p)
    /\ \A r \in S : r.at = p \/ IsStrictPrefix(p, r.at)

Partial(S, p, k) ==
    /\ Sound(S, Len(p) + 1)
    /\ \A i \in 1 .. k : Has(S, Append(p, i))
    /\ \A r \in S : IsStrictPrefix(p, r.at) /\ r.at[Len(p) + 1] \in 1 .. k

\* The records J about source file n, and when they are all.
Of(J, n) == {r \in J : r.at[1] = n}
Level(n, src) == IF Shape[src[n]] = "mbox" THEN 2 ELSE 1
Finalized(S, n, src) ==
    /\ Sound(S, Level(n, src))
    /\ \/ Has(S, <<n>>)
       \/ Shape[src[n]] = "mbox" /\ \A i \in DOMAIN Parts[src[n]] : Has(S, <<n, i>>)

\* Nothing lies beyond the source file at hand, t - 1, and all is there up to k.
Past(J, t, src, k) ==
    /\ \A r \in J : r.at # <<>> /\ r.at[1] \in 1 .. t - 1
    /\ \A n \in 1 .. k : Finalized(Of(J, n), n, src)

\* The records of the first k parts of a frame: in its buffer, or in the journal if
\* it is a mailbox among the source files.
Mailbox(f, J, t, src, k) ==
    /\ f.at = <<t - 1>> /\ f.body = src[t - 1] /\ Shape[f.body] = "mbox"
    /\ Partial(Of(J, t - 1), f.at, k)

Holds(f, J, t, src, k) ==
    IF IsContainer(f) THEN Partial(f.buffer, f.at, k) ELSE Mailbox(f, J, t, src, k)

\* The position that a stack is busy with, and a stack that has all but this one.
Position(s, t) == IF s = <<>> THEN <<t - 1>> ELSE Append(Last(s).at, Last(s).next - 1)

Waiting(s, J, t, src) ==
    /\ Past(J, t, src, t - 2) /\ t - 1 \in DOMAIN src
    /\ s = <<>> \/ IsContainer(s[1]) => Of(J, t - 1) = {}
    /\ \A i \in DOMAIN s :
         /\ s[i].phase = "parts" /\ s[i].next >= 2
         /\ Holds(s[i], J, t, src, s[i].next - 2)
         /\ s[i].at = IF i = 1 THEN <<t - 1>> ELSE Append(s[i - 1].at, s[i - 1].next - 1)

\* A stack that is at its innermost frame, with what it has handled.
Handled(f) == IF f.phase = "parts" THEN f.next - 1 ELSE 0

Working(s, J, t, src) ==
    /\ Holds(Last(s), J, t, src, Handled(Last(s)))
    /\ IF IsContainer(Last(s))
         THEN Waiting(Front(s), J, t, src) /\ Last(s).at = Position(Front(s), t)
         ELSE /\ Len(s) = 1 /\ Last(s).phase = "parts"
              /\ Past(J, t, src, t - 2) /\ t - 1 \in DOMAIN src

Ready(s, J, t, src) == IF s = <<>> THEN Past(J, t, src, t - 1) ELSE Working(s, J, t, src)

Records == journal \cup outgoing

\* The inductive invariant: what was handled is accounted for.
Ledger ==
    /\ failing # {} =>
         /\ outgoing = {} /\ stack # <<>>
         /\ Waiting(Below, Records, todo, source) /\ Top.at = Position(Below, todo)
    /\ item # {} =>
         /\ Waiting(stack, Records, todo, source)
         /\ \A x \in item : x.at = Position(stack, todo)
    /\ item = {} /\ failing = {} => Ready(stack, Records, todo, source)

-----------------------------------------------------------------------------
\* What the position of a part looks like.
LEMMA PartFacts ==
    ASSUME NEW p \in Seq(Nat), NEW n \in Nat
    PROVE  /\ Append(p, n) \in Seq(Nat) /\ Len(Append(p, n)) = Len(p) + 1
           /\ Append(p, n)[Len(p) + 1] = n /\ Len(p) \in Nat
           /\ IsStrictPrefix(p, Append(p, n)) /\ Append(p, n) # <<>>
<1>1. Append(p, n) \in Seq(Nat) /\ Append(p, n) # <<>> /\ IsStrictPrefix(p, Append(p, n))
  BY PrefixOfPart
<1>2. Len(Append(p, n)) = Len(p) + 1 /\ Append(p, n)[Len(p) + 1] = n
  BY AppendProperties
<1>. QED BY <1>1, <1>2, LenProperties

\* What lies inside has the position as its beginning.
LEMMA InsideFacts ==
    ASSUME NEW p \in Seq(Nat), NEW q \in Seq(Nat), IsStrictPrefix(p, q)
    PROVE  /\ Len(p) \in Nat /\ Len(q) \in Nat /\ Len(p) < Len(q)
           /\ \A i \in 1 .. Len(p) : q[i] = p[i]
           /\ SubSeq(q, 1, Len(p)) = p
           /\ ~IsStrictPrefix(q, p) /\ p # q
<1>1. Len(p) \in Nat /\ Len(q) \in Nat
  BY LenProperties
<1>2. Len(p) < Len(q) /\ \A i \in 1 .. Len(p) : q[i] = p[i]
  BY StrictPrefixGives
<1>3. SubSeq(q, 1, Len(p)) = SubSeq(p, 1, Len(p))
  BY DEF IsStrictPrefix, IsPrefix
<1>4. SubSeq(p, 1, Len(p)) = p
  BY SubSeqFull
<1>5. ~IsStrictPrefix(q, p)
  <2>. SUFFICES ASSUME IsStrictPrefix(q, p) PROVE FALSE OBVIOUS
  <2>1. Len(q) < Len(p) BY StrictPrefixGives
  <2>. QED BY <1>1, <1>2, <2>1
<1>. QED BY <1>1, <1>2, <1>3, <1>4, <1>5

\* The position of a record.
LEMMA RecordAt ==
    ASSUME NEW r \in RecordType
    PROVE  r.at \in Seq(Nat) /\ Len(r.at) \in Nat
<1>1. r.at \in Seq(Nat)
  BY DEF RecordType, Positions
<1>. QED BY <1>1, LenProperties

-----------------------------------------------------------------------------
\* Records that have nothing to do with each other, ...
Apart(S, T) ==
    \A r \in S, s \in T :
        /\ r.at # s.at
        /\ Refused(r) => ~IsStrictPrefix(r.at, s.at)
        /\ Refused(s) => ~IsStrictPrefix(s.at, r.at)

\* ... can be put together.
LEMMA Merged ==
    ASSUME NEW S, NEW T, Apart(S, T), Closed(S), Closed(T), Distinct(S), Distinct(T)
    PROVE  Closed(S \cup T) /\ Distinct(S \cup T)
<1>1. Closed(S \cup T)
  <2>. SUFFICES ASSUME NEW c \in S \cup T, Refused(c)
                PROVE  /\ BlobRec(c.at, c.body, "unprocessed") \in S \cup T
                       /\ \A r \in S \cup T : ~IsStrictPrefix(c.at, r.at)
    BY DEF Closed
  <2>1. CASE c \in S
    <3>1. BlobRec(c.at, c.body, "unprocessed") \in S /\ \A r \in S : ~IsStrictPrefix(c.at, r.at)
      BY <2>1 DEF Closed
    <3>2. \A r \in T : ~IsStrictPrefix(c.at, r.at) BY <2>1 DEF Apart
    <3>. QED BY <3>1, <3>2
  <2>2. CASE c \in T
    <3>1. BlobRec(c.at, c.body, "unprocessed") \in T /\ \A r \in T : ~IsStrictPrefix(c.at, r.at)
      BY <2>2 DEF Closed
    <3>2. \A r \in S : ~IsStrictPrefix(c.at, r.at) BY <2>2 DEF Apart
    <3>. QED BY <3>1, <3>2
  <2>. QED BY <2>1, <2>2
<1>2. Distinct(S \cup T)
  <2>1. \A r \in S, s \in T : ~SameId(r, s) /\ ~SameId(s, r) BY DEF Apart, SameId
  <2>. QED BY <2>1 DEF Distinct
<1>. QED BY <1>1, <1>2

\* What surrounds a record still surrounds it when records are added.
LEMMA RootedMore ==
    ASSUME NEW S, NEW T, NEW m, Rooted(S, m), S \subseteq T
    PROVE  \A r \in S : \A n \in m .. Len(r.at) - 1 : Opened(T, SubSeq(r.at, 1, n))
<1>1. \A pos : Opened(S, pos) => Opened(T, pos)
  BY DEF Opened
<1>. QED BY <1>1 DEF Rooted

\* Sound sets that are apart are sound together.
LEMMA SoundMerged ==
    ASSUME NEW S, NEW T, NEW m, Sound(S, m), Sound(T, m), Apart(S, T)
    PROVE  Sound(S \cup T, m)
<1>. DEFINE U == S \cup T
<1>1. Closed(U) /\ Distinct(U)
  BY Merged DEF Sound
<1>2. Rooted(U, m)
  <2>1. \A r \in S : \A n \in m .. Len(r.at) - 1 : Opened(U, SubSeq(r.at, 1, n))
    BY RootedMore DEF Sound
  <2>2. \A r \in T : \A n \in m .. Len(r.at) - 1 : Opened(U, SubSeq(r.at, 1, n))
    BY RootedMore DEF Sound
  <2>. QED BY <2>1, <2>2 DEF Rooted
<1>3. Complete(U)
  <2>1. \A pos : Has(S, pos) \/ Has(T, pos) => Has(U, pos) BY DEF Has
  <2>2. Complete(S) /\ Complete(T) BY DEF Sound
  <2>. QED BY <2>1, <2>2 DEF Complete
<1>. QED BY <1>1, <1>2, <1>3 DEF Sound

\* Nothing is sound, and who looks less far out finds no more amiss.
LEMMA SoundEmpty ==
    ASSUME NEW m
    PROVE  Sound({}, m)
BY DEF Sound, Rooted, Closed, Complete, Distinct

\* Sound from the first level on is sound from the second on.
LEMMA SoundLower ==
    ASSUME NEW S, Sound(S, 1)
    PROVE  Sound(S, 2)
<1>. SUFFICES ASSUME NEW r \in S, NEW n \in 2 .. Len(r.at) - 1
              PROVE  Opened(S, SubSeq(r.at, 1, n))
  BY DEF Sound, Rooted
<1>1. n \in 1 .. Len(r.at) - 1
  <2>1. Len(r.at) \in Nat BY RecordAt DEF Sound
  <2>. QED BY <2>1
<1>. QED BY <1>1 DEF Sound, Rooted

-----------------------------------------------------------------------------
\* What becomes of a position.  A blob or a failure is one record, ...
LEMMA AccountOne ==
    ASSUME NEW r \in RecordType, r.kind # "container"
    PROVE  Account({r}, r.at)
<1>1. Rooted({r}, Len(r.at))
  <2>. SUFFICES ASSUME NEW n \in Len(r.at) .. Len(r.at) - 1 PROVE FALSE
    BY DEF Rooted
  <2>1. Len(r.at) \in Nat BY RecordAt
  <2>. QED BY <2>1
<1>2. Closed({r}) /\ Complete({r}) /\ Distinct({r})
  BY DEF Closed, Complete, Distinct, Refused
<1>. QED BY <1>1, <1>2 DEF Account, Sound, Has

\* ... a refused container two, ...
LEMMA AccountRefused ==
    ASSUME NEW p \in Seq(Nat), NEW body \in Content
    PROVE  Account(Rejection(p, body), p)
<1>. DEFINE c == ContainerRec(p, body, "unprocessed")
            b == BlobRec(p, body, "unprocessed")
            S == Rejection(p, body)
<1>1. S = {c, b} /\ S \subseteq RecordType
  BY RecordsTyped DEF Rejection
<1>2. /\ c.kind = "container" /\ c.at = p /\ c.body = body /\ c.status = "unprocessed"
      /\ b.kind = "blob" /\ b.at = p
  BY DEF ContainerRec, BlobRec
<1>3. \A r \in S : r.at = p /\ (r.kind = "container" => r = c)
  BY <1>1, <1>2
<1>. HIDE DEF c, S
<1>4. Rooted(S, Len(p))
  <2>. SUFFICES ASSUME NEW r \in S, NEW n \in Len(p) .. Len(r.at) - 1 PROVE FALSE
    BY DEF Rooted
  <2>1. Len(p) \in Nat /\ r.at = p BY <1>3, LenProperties
  <2>. QED BY <2>1
<1>5. Closed(S)
  <2>1. \A r \in S : ~IsStrictPrefix(p, r.at) BY <1>3 DEF IsStrictPrefix
  <2>2. b \in S BY <1>1
  <2>. QED BY <1>2, <1>3, <2>1, <2>2 DEF Closed, Refused
<1>6. Complete(S)
  <2>1. c.status # "expanded" BY <1>2
  <2>. QED BY <1>3, <2>1 DEF Complete
<1>7. Distinct(S)
  BY <1>1, <1>2 DEF Distinct, SameId
<1>8. Has(S, p)
  BY <1>1, <1>2 DEF Has
<1>9. Sound(S, Len(p))
  BY <1>1, <1>4, <1>5, <1>6, <1>7 DEF Sound
<1>10. \A r \in S : r.at = p
  BY <1>3
<1>. QED BY <1>8, <1>9, <1>10 DEF Account, S

\* ... and an expanded container what its parts are and its own record.
LEMMA AccountExpanded ==
    ASSUME NEW S, NEW p \in Seq(Nat), NEW body \in Content, NEW k \in Nat, Partial(S, p, k),
           k >= Len(Parts[body])
    PROVE  Account(S \cup {ContainerRec(p, body, "expanded")}, p)
<1>. DEFINE c == ContainerRec(p, body, "expanded")
            T == S \cup {c}
<1>1. /\ c.kind = "container" /\ c.at = p /\ c.body = body /\ c.status = "expanded"
      /\ c \in RecordType
  BY RecordsTyped DEF ContainerRec
<1>2. S \subseteq RecordType /\ Sound(S, Len(p) + 1) /\ Len(p) \in Nat
  BY LenProperties DEF Partial, Sound
<1>. HIDE DEF c
<1>3. \A r \in S : r.at \in Seq(Nat) /\ Len(r.at) \in Nat /\ IsStrictPrefix(p, r.at)
  BY <1>2, RecordAt DEF Partial
<1>4. \A r \in S : p # r.at /\ ~IsStrictPrefix(r.at, p) /\ SubSeq(r.at, 1, Len(p)) = p
  BY <1>3, InsideFacts
<1>5. Apart(S, {c})
  BY <1>1, <1>4 DEF Apart, Refused
<1>6. Closed(T) /\ Distinct(T)
  <2>1. Closed({c}) /\ Distinct({c}) BY <1>1 DEF Closed, Distinct, Refused
  <2>. QED BY <1>2, <1>5, <2>1, Merged DEF Sound
<1>7. Rooted(T, Len(p))
  <2>. SUFFICES ASSUME NEW r \in T, NEW n \in Len(p) .. Len(r.at) - 1
                PROVE  Opened(T, SubSeq(r.at, 1, n))
    BY DEF Rooted
  <2>1. r # c BY <1>1, <1>2
  <2>2. r \in S BY <2>1
  <2>3. CASE n = Len(p)
    BY <1>1, <1>4, <2>2, <2>3 DEF Opened
  <2>4. CASE n # Len(p)
    <3>1. n \in Len(p) + 1 .. Len(r.at) - 1 BY <1>2, <1>3, <2>2, <2>4
    <3>. QED BY <1>2, <2>2, <3>1, RootedMore DEF Sound
  <2>. QED BY <2>3, <2>4
<1>8. Complete(T)
  <2>. SUFFICES ASSUME NEW d \in T, d.kind = "container", d.status = "expanded",
                       NEW i \in DOMAIN Parts[d.body]
                PROVE  Has(T, Append(d.at, i))
    BY DEF Complete
  <2>1. CASE d \in S
    <3>1. Has(S, Append(d.at, i)) BY <1>2, <2>1 DEF Sound, Complete
    <3>. QED BY <3>1 DEF Has
  <2>2. CASE d = c
    <3>1. i \in 1 .. Len(Parts[body]) /\ Len(Parts[body]) \in Nat
      <4>1. Parts[body] \in Seq(PartType) BY ExpansionAssumption
      <4>. QED BY <1>1, <2>2, <4>1, LenProperties
    <3>2. i \in 1 .. k BY <3>1
    <3>3. Has(S, Append(p, i)) BY <3>2 DEF Partial
    <3>. QED BY <1>1, <2>2, <3>3 DEF Has
  <2>. QED BY <2>1, <2>2
<1>9. Has(T, p) /\ \A r \in T : r.at = p \/ IsStrictPrefix(p, r.at)
  BY <1>1, <1>3 DEF Has
<1>10. T \subseteq RecordType
  BY <1>1, <1>2
<1>11. Sound(T, Len(p))
  BY <1>6, <1>7, <1>8, <1>10 DEF Sound
<1>. QED BY <1>9, <1>11 DEF Account, c

\* The next part is added to those before.
LEMMA PartialNext ==
    ASSUME NEW S, NEW T, NEW p \in Seq(Nat), NEW k \in Nat,
           Partial(S, p, k), Account(T, Append(p, k + 1))
    PROVE  Partial(S \cup T, p, k + 1)
<1>. DEFINE q == Append(p, k + 1)
            m == Len(p) + 1
            U == S \cup T
<1>1. /\ q \in Seq(Nat) /\ Len(q) = m /\ q[m] = k + 1 /\ Len(p) \in Nat /\ IsStrictPrefix(p, q)
  BY PartFacts
<1>. HIDE DEF q
<1>2. Sound(S, m) /\ Sound(T, m) /\ S \subseteq RecordType /\ T \subseteq RecordType
  BY <1>1 DEF Partial, Account, Sound, q
<1>3. \A r \in S : r.at \in Seq(Nat) /\ IsStrictPrefix(p, r.at) /\ r.at[m] \in 1 .. k
  BY <1>2, RecordAt DEF Partial
<1>4. \A r \in S : Len(r.at) \in Nat /\ m \in 1 .. Len(r.at)
  <2>. SUFFICES ASSUME NEW r \in S PROVE Len(r.at) \in Nat /\ m \in 1 .. Len(r.at) OBVIOUS
  <2>1. Len(r.at) \in Nat /\ Len(p) < Len(r.at) BY <1>3, InsideFacts
  <2>. QED BY <1>1, <2>1
<1>5. \A r \in T : /\ r.at \in Seq(Nat) /\ IsStrictPrefix(p, r.at) /\ r.at[m] = k + 1
                   /\ Len(r.at) \in Nat /\ m \in 1 .. Len(r.at)
  <2>. SUFFICES ASSUME NEW r \in T
                PROVE  /\ r.at \in Seq(Nat) /\ IsStrictPrefix(p, r.at) /\ r.at[m] = k + 1
                       /\ Len(r.at) \in Nat /\ m \in 1 .. Len(r.at)
    OBVIOUS
  <2>1. r.at \in Seq(Nat) /\ Len(r.at) \in Nat BY <1>2, RecordAt
  <2>2. CASE r.at = q
    <3>1. m \in 1 .. Len(q) BY <1>1
    <3>. QED BY <1>1, <2>1, <2>2, <3>1
  <2>3. CASE IsStrictPrefix(q, r.at)
    <3>1. Len(q) < Len(r.at) /\ \A i \in 1 .. Len(q) : r.at[i] = q[i] BY <1>1, <2>1, <2>3, InsideFacts
    <3>2. m \in 1 .. Len(q) /\ m \in 1 .. Len(r.at) BY <1>1, <2>1, <3>1
    <3>3. IsStrictPrefix(p, r.at) BY <1>1, <2>1, <2>3, StrictPrefixTransitive
    <3>. QED BY <1>1, <2>1, <3>1, <3>2, <3>3
  <2>. QED BY <2>2, <2>3 DEF Account, q
<1>6. Apart(S, T)
  <2>. SUFFICES ASSUME NEW r \in S, NEW s \in T
                PROVE  /\ r.at # s.at /\ ~IsStrictPrefix(r.at, s.at) /\ ~IsStrictPrefix(s.at, r.at)
    BY DEF Apart
  <2>1. r.at[m] # s.at[m]
    <3>1. r.at[m] \in 1 .. k /\ s.at[m] = k + 1 BY <1>3, <1>5
    <3>. QED BY <3>1
  <2>2. m \in 1 .. Len(r.at) /\ m \in 1 .. Len(s.at) /\ r.at \in Seq(Nat) /\ s.at \in Seq(Nat)
    BY <1>3, <1>4, <1>5
  <2>3. ASSUME IsStrictPrefix(r.at, s.at) PROVE FALSE
    <3>1. \A i \in 1 .. Len(r.at) : s.at[i] = r.at[i] BY <2>2, <2>3, InsideFacts
    <3>. QED BY <2>1, <2>2, <3>1
  <2>4. ASSUME IsStrictPrefix(s.at, r.at) PROVE FALSE
    <3>1. \A i \in 1 .. Len(s.at) : r.at[i] = s.at[i] BY <2>2, <2>4, InsideFacts
    <3>. QED BY <2>1, <2>2, <3>1
  <2>. QED BY <2>1, <2>3, <2>4
<1>7. Sound(U, m)
  BY <1>2, <1>6, SoundMerged
<1>8. \A i \in 1 .. k + 1 : Has(U, Append(p, i))
  <2>. SUFFICES ASSUME NEW i \in 1 .. k + 1 PROVE Has(U, Append(p, i)) OBVIOUS
  <2>1. CASE i = k + 1 BY <2>1 DEF Account, Has, q
  <2>2. CASE i # k + 1
    <3>1. i \in 1 .. k BY <2>2
    <3>. QED BY <3>1 DEF Partial, Has
  <2>. QED BY <2>1, <2>2
<1>9. \A r \in U : IsStrictPrefix(p, r.at) /\ r.at[m] \in 1 .. k + 1
  <2>. SUFFICES ASSUME NEW r \in U PROVE IsStrictPrefix(p, r.at) /\ r.at[m] \in 1 .. k + 1 OBVIOUS
  <2>1. CASE r \in S
    <3>1. r.at[m] \in 1 .. k BY <1>3, <2>1
    <3>2. r.at[m] \in 1 .. k + 1 BY <3>1
    <3>. QED BY <1>3, <2>1, <3>2
  <2>2. CASE r \in T
    <3>1. k + 1 \in 1 .. k + 1 OBVIOUS
    <3>. QED BY <1>5, <2>2, <3>1
  <2>. QED BY <2>1, <2>2
<1>. QED BY <1>7, <1>8, <1>9 DEF Partial

-----------------------------------------------------------------------------
\* Source files.  New records of the one at hand leave the others as they are.
LEMMA PastMore ==
    ASSUME NEW J, NEW T, NEW t \in Nat, NEW src, NEW k \in Int, Past(J, t, src, k), k < t - 1,
           t - 1 > 0, \A r \in T : r.at # <<>> /\ r.at[1] = t - 1
    PROVE  Past(J \cup T, t, src, k) /\ Of(J \cup T, t - 1) = Of(J, t - 1) \cup T
<1>1. Of(J \cup T, t - 1) = Of(J, t - 1) \cup T
  BY DEF Of
<1>2. \A n \in 1 .. k : Of(J \cup T, n) = Of(J, n)
  <2>. SUFFICES ASSUME NEW n \in 1 .. k PROVE Of(J \cup T, n) = Of(J, n) OBVIOUS
  <2>1. n # t - 1 OBVIOUS
  <2>. QED BY <2>1 DEF Of
<1>3. \A r \in J \cup T : r.at # <<>> /\ r.at[1] \in 1 .. t - 1
  <2>1. t - 1 \in 1 .. t - 1 OBVIOUS
  <2>. QED BY <2>1 DEF Past
<1>. QED BY <1>1, <1>2, <1>3 DEF Past

\* The source file at hand is done.
LEMMA PastLast ==
    ASSUME NEW J, NEW t \in Nat, NEW src, Past(J, t, src, t - 2), Finalized(Of(J, t - 1), t - 1, src)
    PROVE  Past(J, t, src, t - 1)
<1>1. \A n \in 1 .. t - 1 : n = t - 1 \/ n \in 1 .. t - 2
  OBVIOUS
<1>. QED BY <1>1 DEF Past

\* The next one has no records yet.
LEMMA PastNext ==
    ASSUME NEW J, NEW t \in Nat, NEW src, Past(J, t, src, t - 1)
    PROVE  Past(J, t + 1, src, t - 1) /\ Of(J, t) = {}
<1>1. \A n \in 1 .. t - 1 : n # t /\ n \in 1 .. (t + 1) - 1
  OBVIOUS
<1>. QED BY <1>1 DEF Past, Of

\* What is said of a position is said of the source file it lies in.
LEMMA AccountOf ==
    ASSUME NEW q \in Seq(Nat), q # <<>>, NEW T, Account(T, q)
    PROVE  \A r \in T : r.at # <<>> /\ r.at[1] = q[1]
<1>. SUFFICES ASSUME NEW r \in T PROVE r.at # <<>> /\ r.at[1] = q[1] OBVIOUS
<1>1. r.at \in Seq(Nat)
  BY RecordAt DEF Account, Sound
<1>2. CASE r.at = q
  BY <1>2
<1>3. CASE IsStrictPrefix(q, r.at)
  <2>1. Len(q) \in Nat /\ Len(q) > 0 BY LenProperties, EmptySeq
  <2>2. Len(q) < Len(r.at) /\ \A i \in 1 .. Len(q) : r.at[i] = q[i] BY <1>1, <1>3, InsideFacts
  <2>3. 1 \in 1 .. Len(q) BY <2>1
  <2>4. r.at # <<>>
    <3>1. Len(r.at) # 0 BY <1>1, <2>1, <2>2, LenProperties
    <3>. QED BY <3>1, EmptySeq
  <2>. QED BY <2>2, <2>3, <2>4
<1>. QED BY <1>2, <1>3 DEF Account

\* The position of a source file, and of a part of it.
LEMMA SourceAt ==
    ASSUME NEW n \in Nat
    PROVE  /\ <<n>> \in Seq(Nat) /\ <<n>> # <<>> /\ Len(<<n>>) = 1 /\ <<n>>[1] = n
           /\ \A i \in Nat : Append(<<n>>, i) = <<n, i>>
<1>1. <<n>> \in Seq(Nat) /\ <<n>> # <<>> /\ Len(<<n>>) = 1 /\ <<n>>[1] = n
  OBVIOUS
<1>2. ASSUME NEW i \in Nat PROVE Append(<<n>>, i) = <<n, i>>
  <2>. PICK p : p = <<n>> OBVIOUS
  <2>. PICK q : q = <<n, i>> OBVIOUS
  <2>. PICK a : a = Append(p, i) OBVIOUS
  <2>1. p \in Seq(Nat) /\ Len(p) = 1 /\ p[1] = n OBVIOUS
  <2>2. q \in Seq(Nat) /\ Len(q) = 2 /\ q[1] = n /\ q[2] = i OBVIOUS
  <2>3. /\ a \in Seq(Nat) /\ Len(a) = 2 /\ a[2] = i /\ a[1] = p[1]
    BY <2>1, AppendProperties
  <2>4. \A j \in 1 .. 2 : j = 1 \/ j = 2 OBVIOUS
  <2>5. \A j \in 1 .. 2 : a[j] = q[j] BY <2>1, <2>2, <2>3, <2>4
  <2>6. a = q BY <2>2, <2>3, <2>5, SeqEqual
  <2>. QED BY <2>6
<1>. QED BY <1>1, <1>2

\* A source file is done when it is accounted for as a whole, ...
LEMMA FinalizedWhole ==
    ASSUME NEW n \in Nat, NEW S, NEW src, Account(S, <<n>>)
    PROVE  Finalized(S, n, src)
<1>1. Sound(S, 1) /\ Has(S, <<n>>)
  BY SourceAt DEF Account
<1>2. Sound(S, 2)
  BY <1>1, SoundLower
<1>. QED BY <1>1, <1>2 DEF Finalized, Level

\* ... when it is a mailbox and all its parts are, ...
LEMMA FinalizedParts ==
    ASSUME NEW n \in Nat, NEW S, NEW src, NEW k \in Nat, Partial(S, <<n>>, k),
           Shape[src[n]] = "mbox", src[n] \in Content, k >= Len(Parts[src[n]])
    PROVE  Finalized(S, n, src)
<1>1. Sound(S, 2)
  BY SourceAt DEF Partial
<1>2. \A i \in DOMAIN Parts[src[n]] : Has(S, <<n, i>>)
  <2>. SUFFICES ASSUME NEW i \in DOMAIN Parts[src[n]] PROVE Has(S, <<n, i>>) OBVIOUS
  <2>1. i \in 1 .. Len(Parts[src[n]]) /\ Len(Parts[src[n]]) \in Nat
    <3>1. Parts[src[n]] \in Seq(PartType) BY ExpansionAssumption
    <3>. QED BY <3>1, LenProperties
  <2>2. i \in 1 .. k /\ i \in Nat BY <2>1
  <2>3. Has(S, Append(<<n>>, i)) BY <2>2 DEF Partial
  <2>. QED BY <2>2, <2>3, SourceAt
<1>. QED BY <1>1, <1>2 DEF Finalized, Level

\* ... or when it is a mailbox that was given up on the way.
LEMMA FinalizedGivenUp ==
    ASSUME NEW n \in Nat, NEW S, NEW src, NEW k, Partial(S, <<n>>, k), Shape[src[n]] = "mbox",
           NEW r \in RecordType, r.kind = "failure", r.at = <<n>>
    PROVE  Finalized(S \cup {r}, n, src)
<1>1. Sound(S, 2) /\ S \subseteq RecordType
  BY SourceAt DEF Partial, Sound
<1>2. Sound({r}, 2)
  <2>1. Account({r}, <<n>>) BY AccountOne
  <2>2. Sound({r}, 1) BY <2>1, SourceAt DEF Account
  <2>. QED BY <2>2, SoundLower
<1>3. Apart(S, {r})
  <2>1. \A s \in S : s.at \in Seq(Nat) /\ IsStrictPrefix(<<n>>, s.at) BY <1>1, RecordAt DEF Partial
  <2>2. \A s \in S : s.at # <<n>> /\ ~IsStrictPrefix(s.at, <<n>>) BY <2>1, SourceAt, InsideFacts
  <2>3. ~Refused(r) BY DEF Refused
  <2>. QED BY <2>2, <2>3 DEF Apart
<1>4. Sound(S \cup {r}, 2)
  BY <1>1, <1>2, <1>3, SoundMerged
<1>5. Has(S \cup {r}, <<n>>)
  BY DEF Has
<1>. QED BY <1>4, <1>5 DEF Finalized, Level

-----------------------------------------------------------------------------
\* A stack, its innermost frame and those below.
LEMMA FrontFacts ==
    ASSUME NEW s, Nested(s), s # <<>>
    PROVE  /\ Nested(Front(s)) /\ Front(s) \in Seq(FrameType) /\ Len(Front(s)) = Len(s) - 1
           /\ DOMAIN Front(s) = 1 .. Len(s) - 1 /\ DOMAIN s = 1 .. Len(s)
           /\ Len(s) \in Nat /\ Len(s) > 0
           /\ \A i \in 1 .. Len(s) - 1 : Front(s)[i] = s[i]
           /\ Last(s) = s[Len(s)] /\ Last(s) \in FrameType
           /\ Front(s) = <<>> <=> Len(s) = 1
           /\ Front(s) # <<>> => Last(Front(s)) = s[Len(s) - 1] /\ Len(s) - 1 \in 1 .. Len(s) - 1
<1>1. /\ Nested(Front(s)) /\ Len(Front(s)) = Len(s) - 1 /\ \A i \in 1 .. Len(s) - 1 : Front(s)[i] = s[i]
  BY NestedBelow
<1>2. Front(s) \in Seq(FrameType) /\ s \in Seq(FrameType)
  BY <1>1 DEF Nested
<1>3. /\ Len(s) \in Nat /\ Len(s) > 0 /\ DOMAIN s = 1 .. Len(s) /\ DOMAIN Front(s) = 1 .. Len(s) - 1
      /\ Front(s) = <<>> <=> Len(s) - 1 = 0
  BY <1>1, <1>2, LenProperties, EmptySeq
<1>4. Last(s) = s[Len(s)] /\ Last(s) \in FrameType
  BY <1>2, <1>3, FrontLast DEF Last
<1>5. Front(s) # <<>> => Len(s) - 1 \in 1 .. Len(s) - 1
  BY <1>3
<1>6. Front(s) # <<>> => Last(Front(s)) = s[Len(s) - 1]
  <2>1. Last(Front(s)) = Front(s)[Len(s) - 1] BY <1>1 DEF Last
  <2>. QED BY <1>1, <1>5, <2>1
<1>7. Front(s) = <<>> <=> Len(s) = 1
  BY <1>3
<1>. QED BY <1>1, <1>2, <1>3, <1>4, <1>5, <1>6, <1>7

\* A container that waits for a part, on a stack that waits for the container, ...
LEMMA WaitingTop ==
    ASSUME NEW s, Nested(s), s # <<>>, NEW J, NEW t, NEW src,
           IsContainer(Last(s)), Waiting(Front(s), J, t, src), Last(s).at = Position(Front(s), t),
           Last(s).phase = "parts", Last(s).next >= 2,
           Partial(Last(s).buffer, Last(s).at, Last(s).next - 2)
    PROVE  Waiting(s, J, t, src)
<1>. DEFINE b == Front(s)
            n == Len(s)
<1>1. /\ Len(b) = n - 1 /\ DOMAIN b = 1 .. n - 1 /\ DOMAIN s = 1 .. n /\ n \in Nat /\ n > 0
      /\ \A i \in 1 .. n - 1 : b[i] = s[i]
      /\ Last(s) = s[n]
      /\ b = <<>> <=> n = 1
      /\ b # <<>> => Last(b) = s[n - 1]
  BY FrontFacts
<1>2. Waiting(b, J, t, src) /\ s[n].at = Position(b, t) /\ IsContainer(s[n])
      /\ s[n].phase = "parts" /\ s[n].next >= 2 /\ Partial(s[n].buffer, s[n].at, s[n].next - 2)
  BY <1>1
<1>. HIDE DEF b, n
<1>3. Past(J, t, src, t - 2) /\ t - 1 \in DOMAIN src
  BY <1>2 DEF Waiting
<1>4. s = <<>> \/ IsContainer(s[1]) => Of(J, t - 1) = {}
  <2>1. CASE n = 1 BY <1>1, <1>2, <2>1 DEF Waiting
  <2>2. CASE n # 1
    <3>1. 1 \in 1 .. n - 1 BY <1>1, <2>2
    <3>2. b[1] = s[1] BY <1>1, <3>1
    <3>. QED BY <1>2, <3>2 DEF Waiting
  <2>. QED BY <2>1, <2>2
<1>5. ASSUME NEW i \in 1 .. n
      PROVE  /\ s[i].phase = "parts" /\ s[i].next >= 2
             /\ Holds(s[i], J, t, src, s[i].next - 2)
             /\ s[i].at = IF i = 1 THEN <<t - 1>> ELSE Append(s[i - 1].at, s[i - 1].next - 1)
  <2>1. CASE i = n
    <3>1. Holds(s[i], J, t, src, s[i].next - 2) BY <1>2, <2>1 DEF Holds
    <3>2. s[i].at = IF i = 1 THEN <<t - 1>> ELSE Append(s[i - 1].at, s[i - 1].next - 1)
      <4>1. CASE n = 1 BY <1>1, <1>2, <2>1, <4>1 DEF Position
      <4>2. CASE n # 1
        <5>1. b # <<>> /\ Last(b) = s[n - 1] BY <1>1, <4>2
        <5>. QED BY <1>2, <2>1, <4>2, <5>1 DEF Position
      <4>. QED BY <4>1, <4>2
    <3>. QED BY <1>2, <2>1, <3>1, <3>2
  <2>2. CASE i # n
    <3>1. i \in 1 .. n - 1 /\ (i # 1 => i - 1 \in 1 .. n - 1) BY <1>1, <2>2
    <3>2. i \in DOMAIN b /\ b[i] = s[i] /\ (i # 1 => b[i - 1] = s[i - 1]) BY <1>1, <3>1
    <3>. QED BY <1>2, <3>2 DEF Waiting
  <2>. QED BY <2>1, <2>2
<1>. QED BY <1>1, <1>3, <1>4, <1>5 DEF Waiting

\* ... and back.
LEMMA WaitingBelow ==
    ASSUME NEW s, Nested(s), s # <<>>, NEW J, NEW t, NEW src, Waiting(s, J, t, src),
           IsContainer(Last(s))
    PROVE  /\ Waiting(Front(s), J, t, src) /\ Last(s).at = Position(Front(s), t)
           /\ Last(s).phase = "parts" /\ Last(s).next >= 2
           /\ Partial(Last(s).buffer, Last(s).at, Last(s).next - 2)
<1>. DEFINE b == Front(s)
            n == Len(s)
<1>1. /\ Len(b) = n - 1 /\ DOMAIN b = 1 .. n - 1 /\ DOMAIN s = 1 .. n /\ n \in Nat /\ n > 0
      /\ \A i \in 1 .. n - 1 : b[i] = s[i]
      /\ Last(s) = s[n]
      /\ b = <<>> <=> n = 1
      /\ b # <<>> => Last(b) = s[n - 1]
  BY FrontFacts
<1>. HIDE DEF b, n
<1>2. n \in DOMAIN s
  BY <1>1
<1>3. /\ s[n].phase = "parts" /\ s[n].next >= 2 /\ Holds(s[n], J, t, src, s[n].next - 2)
      /\ s[n].at = IF n = 1 THEN <<t - 1>> ELSE Append(s[n - 1].at, s[n - 1].next - 1)
  BY <1>2 DEF Waiting
<1>4. Partial(s[n].buffer, s[n].at, s[n].next - 2)
  BY <1>1, <1>3 DEF Holds
<1>5. s[n].at = Position(b, t)
  <2>1. CASE n = 1 BY <1>1, <1>3, <2>1 DEF Position
  <2>2. CASE n # 1 BY <1>1, <1>3, <2>2 DEF Position
  <2>. QED BY <2>1, <2>2
<1>6. b = <<>> \/ IsContainer(b[1]) => Of(J, t - 1) = {}
  <2>1. CASE n = 1 BY <1>1, <2>1 DEF Waiting
  <2>2. CASE n # 1
    <3>1. 1 \in 1 .. n - 1 BY <1>1, <2>2
    <3>2. b[1] = s[1] /\ b # <<>> BY <1>1, <2>2, <3>1
    <3>. QED BY <3>2 DEF Waiting
  <2>. QED BY <2>1, <2>2
<1>7. ASSUME NEW i \in 1 .. n - 1
      PROVE  /\ b[i].phase = "parts" /\ b[i].next >= 2
             /\ Holds(b[i], J, t, src, b[i].next - 2)
             /\ b[i].at = IF i = 1 THEN <<t - 1>> ELSE Append(b[i - 1].at, b[i - 1].next - 1)
  <2>1. i \in DOMAIN s /\ (i # 1 => i - 1 \in 1 .. n - 1) BY <1>1
  <2>2. b[i] = s[i] /\ (i # 1 => b[i - 1] = s[i - 1]) BY <1>1, <2>1
  <2>. QED BY <2>1, <2>2 DEF Waiting
<1>8. Waiting(b, J, t, src)
  <2>1. Past(J, t, src, t - 2) /\ t - 1 \in DOMAIN src BY DEF Waiting
  <2>2. DOMAIN b = 1 .. n - 1 BY <1>1
  <2>. QED BY <1>6, <1>7, <2>1, <2>2 DEF Waiting
<1>. QED BY <1>1, <1>3, <1>4, <1>5, <1>8 DEF b

\* Frames that have handled the same parts, whatever is charged to them.
SameBooks(s, u) ==
    \A i \in 1 .. Len(s) :
        /\ Alike(s[i], u[i]) /\ u[i].buffer = s[i].buffer /\ Handled(u[i]) = Handled(s[i])
        /\ s[i].phase = "parts" => u[i].phase = "parts" /\ u[i].next = s[i].next

\* Charging a stack that waits changes nothing about that.
LEMMA WaitingAlike ==
    ASSUME NEW s, NEW u, Nested(s), SameFrames(s, u), SameBooks(s, u), NEW J, NEW t, NEW src,
           Waiting(s, J, t, src)
    PROVE  Waiting(u, J, t, src) /\ Position(u, t) = Position(s, t)
<1>1. /\ Len(u) = Len(s) /\ DOMAIN u = 1 .. Len(s) /\ DOMAIN s = 1 .. Len(s) /\ Len(s) \in Nat
      /\ s = <<>> <=> Len(s) = 0
      /\ u = <<>> <=> Len(s) = 0
  BY LenProperties, EmptySeq DEF SameFrames, Nested
<1>2. \A i \in 1 .. Len(s) : s[i].phase = "parts"
  BY <1>1 DEF Waiting
<1>3. \A i \in 1 .. Len(s) : /\ u[i].at = s[i].at /\ u[i].body = s[i].body /\ u[i].kind = s[i].kind
                             /\ u[i].phase = "parts" /\ u[i].next = s[i].next
                             /\ u[i].buffer = s[i].buffer
  BY <1>2 DEF SameBooks, Alike
<1>4. \A i \in 1 .. Len(s) : IsContainer(u[i]) <=> IsContainer(s[i])
  BY <1>3 DEF IsContainer
<1>5. \A i \in 1 .. Len(s) : \A k : Holds(u[i], J, t, src, k) <=> Holds(s[i], J, t, src, k)
  BY <1>3, <1>4 DEF Holds, Mailbox
<1>6. Position(u, t) = Position(s, t)
  <2>1. CASE Len(s) = 0 BY <1>1, <2>1 DEF Position
  <2>2. CASE Len(s) # 0
    <3>1. Len(s) \in 1 .. Len(s) BY <1>1, <2>2
    <3>2. Last(u) = u[Len(s)] /\ Last(s) = s[Len(s)] /\ s # <<>> /\ u # <<>> BY <1>1, <2>2 DEF Last
    <3>. QED BY <1>3, <3>1, <3>2 DEF Position
  <2>. QED BY <2>1, <2>2
<1>7. Past(J, t, src, t - 2) /\ t - 1 \in DOMAIN src
  BY DEF Waiting
<1>8. u = <<>> \/ IsContainer(u[1]) => Of(J, t - 1) = {}
  <2>1. Len(s) # 0 => 1 \in 1 .. Len(s) BY <1>1
  <2>. QED BY <1>1, <1>4, <2>1 DEF Waiting
<1>9. ASSUME NEW i \in 1 .. Len(s)
      PROVE  /\ u[i].phase = "parts" /\ u[i].next >= 2
             /\ Holds(u[i], J, t, src, u[i].next - 2)
             /\ u[i].at = IF i = 1 THEN <<t - 1>> ELSE Append(u[i - 1].at, u[i - 1].next - 1)
  <2>1. i # 1 => i - 1 \in 1 .. Len(s) BY <1>1
  <2>2. i # 1 => u[i - 1].at = s[i - 1].at /\ u[i - 1].next = s[i - 1].next BY <1>3, <2>1
  <2>3. /\ s[i].next >= 2 /\ Holds(s[i], J, t, src, s[i].next - 2)
        /\ s[i].at = IF i = 1 THEN <<t - 1>> ELSE Append(s[i - 1].at, s[i - 1].next - 1)
    BY <1>1 DEF Waiting
  <2>4. Holds(u[i], J, t, src, u[i].next - 2) BY <1>3, <1>5, <2>3
  <2>5. u[i].at = IF i = 1 THEN <<t - 1>> ELSE Append(u[i - 1].at, u[i - 1].next - 1)
    BY <1>3, <2>2, <2>3
  <2>. QED BY <1>3, <2>3, <2>4, <2>5
<1>. QED BY <1>1, <1>6, <1>7, <1>8, <1>9 DEF Waiting

-----------------------------------------------------------------------------
\* What a deposit makes of a stack and the records (Deposit).
Deposited(s, T, J, u, K) ==
    IF s # <<>> /\ IsContainer(Last(s))
      THEN u = Append(Front(s), [Last(s) EXCEPT !.buffer = @ \cup T]) /\ K = J
      ELSE u = s /\ K = J \cup T

\* The innermost frame of a stack that is put together.
LEMMA TopOf ==
    ASSUME NEW b \in Seq(FrameType), NEW f \in FrameType
    PROVE  /\ Append(b, f) # <<>> /\ Append(b, f) \in Seq(FrameType) /\ Len(Append(b, f)) = Len(b) + 1
           /\ Last(Append(b, f)) = f /\ Front(Append(b, f)) = b
<1>. PICK s : s = Append(b, f) OBVIOUS
<1>1. /\ s \in Seq(FrameType) /\ s # <<>> /\ Len(s) = Len(b) + 1 /\ s[Len(b) + 1] = f
      /\ \A i \in 1 .. Len(b) : s[i] = b[i]
      /\ Len(b) \in Nat
  BY AppendProperties, LenProperties
<1>2. Last(s) = f
  BY <1>1 DEF Last
<1>3. Front(s) \in Seq(FrameType) /\ Len(Front(s)) = Len(b) /\ \A i \in 1 .. Len(b) : Front(s)[i] = s[i]
  <2>1. /\ Front(s) \in Seq(FrameType) /\ Len(Front(s)) = Len(s) - 1
        /\ \A i \in 1 .. Len(s) - 1 : Front(s)[i] = s[i]
    BY <1>1, FrontLast
  <2>2. Len(s) - 1 = Len(b) BY <1>1
  <2>. QED BY <2>1, <2>2
<1>4. Front(s) = b
  <2>. PICK c : c = Front(s) OBVIOUS
  <2>1. c \in Seq(FrameType) /\ Len(c) = Len(b) /\ \A i \in 1 .. Len(c) : c[i] = b[i] BY <1>1, <1>3
  <2>2. c = b BY <2>1, SeqEqual
  <2>. QED BY <2>2
<1>. QED BY <1>1, <1>2, <1>4

\* The account of the position at hand closes it.
LEMMA Delivered ==
    ASSUME NEW s, Nested(s), NEW J, NEW t \in Nat, NEW src, Waiting(s, J, t, src), t - 1 > 0,
           NEW T, Account(T, Position(s, t)), NEW u, NEW K, Deposited(s, T, J, u, K)
    PROVE  Ready(u, K, t, src)
<1>1. Past(J, t, src, t - 2) /\ t - 1 \in DOMAIN src /\ t - 2 < t - 1
  BY DEF Waiting
<1>2. t - 1 \in Nat /\ t - 2 \in Int
  OBVIOUS
<1>3. CASE s = <<>>
  <2>1. Account(T, <<t - 1>>) /\ Of(J, t - 1) = {} /\ u = <<>> /\ K = J \cup T
    BY <1>3 DEF Position, Waiting, Deposited
  <2>2. \A r \in T : r.at # <<>> /\ r.at[1] = t - 1
    <3>. PICK q : q = <<t - 1>> OBVIOUS
    <3>1. q \in Seq(Nat) /\ q # <<>> /\ q[1] = t - 1 BY <1>2, SourceAt
    <3>2. Account(T, q) BY <2>1
    <3>. QED BY <3>1, <3>2, AccountOf
  <2>3. Past(K, t, src, t - 2) /\ Of(K, t - 1) = Of(J, t - 1) \cup T
    BY <1>1, <1>2, <2>1, <2>2, PastMore
  <2>4. Finalized(Of(K, t - 1), t - 1, src)
    <3>1. Of(K, t - 1) = T BY <2>1, <2>3
    <3>. QED BY <1>2, <2>1, <3>1, FinalizedWhole
  <2>. QED BY <2>1, <2>3, <2>4, PastLast DEF Ready
<1>4. CASE s # <<>> /\ IsContainer(Last(s))
  <2>. PICK f : f = Last(s) OBVIOUS
  <2>. PICK g : g = [f EXCEPT !.buffer = @ \cup T] OBVIOUS
  <2>. PICK b : b = Front(s) OBVIOUS
  <2>1. /\ Waiting(b, J, t, src) /\ f.at = Position(b, t) /\ f.phase = "parts" /\ f.next >= 2
        /\ Partial(f.buffer, f.at, f.next - 2)
    BY <1>4, WaitingBelow
  <2>2. f \in FrameType /\ b \in Seq(FrameType) /\ s # <<>>
    BY <1>4, FrontFacts
  <2>3. Account(T, Append(f.at, f.next - 1)) BY <2>2 DEF Position
  <2>4. f.at \in Seq(Nat) /\ f.next \in Nat BY <2>2, FrameFields
  <2>5. Partial(f.buffer \cup T, f.at, f.next - 1)
    <3>. PICK k : k = f.next - 2 OBVIOUS
    <3>1. k \in Nat /\ k + 1 = f.next - 1 BY <2>1, <2>4
    <3>2. Partial(f.buffer \cup T, f.at, k + 1) BY <2>1, <2>3, <2>4, <3>1, PartialNext
    <3>. QED BY <3>1, <3>2
  <2>6. T \subseteq RecordType BY DEF Account, Sound
  <2>7. /\ g \in FrameType /\ g.at = f.at /\ g.kind = f.kind
    BY <2>2, <2>6, FrameReceives DEF Alike
  <2>8. g.buffer = f.buffer \cup T /\ g.phase = f.phase /\ g.next = f.next
    BY <2>2 DEF FrameType
  <2>9. u = Append(b, g) /\ K = J BY <1>4 DEF Deposited
  <2>10. u # <<>> /\ Last(u) = g /\ Front(u) = b BY <2>2, <2>7, <2>9, TopOf
  <2>11. IsContainer(g) BY <1>4, <2>7 DEF IsContainer
  <2>12. Holds(g, J, t, src, Handled(g))
    <3>1. Handled(g) = f.next - 1 BY <2>1, <2>8 DEF Handled
    <3>. QED BY <2>5, <2>7, <2>8, <2>11, <3>1 DEF Holds
  <2>13. Working(u, K, t, src)
    BY <2>1, <2>7, <2>9, <2>10, <2>11, <2>12 DEF Working
  <2>. QED BY <2>10, <2>13 DEF Ready
<1>5. CASE s # <<>> /\ ~IsContainer(Last(s))
  <2>. PICK f : f = Last(s) OBVIOUS
  <2>1. Len(s) = 1 /\ f = s[1] /\ f \in FrameType /\ 1 \in DOMAIN s
    <3>1. /\ Len(s) \in Nat /\ Len(s) > 0 /\ f = s[Len(s)] /\ f \in FrameType /\ DOMAIN s = 1 .. Len(s)
      BY <1>5, FrontFacts
    <3>2. Len(s) > 1 => IsContainer(s[Len(s)]) BY <3>1 DEF Nested
    <3>. QED BY <1>5, <3>1, <3>2
  <2>2. /\ f.phase = "parts" /\ f.next >= 2 /\ f.at = <<t - 1>> /\ Mailbox(f, J, t, src, f.next - 2)
    BY <1>5, <2>1 DEF Waiting, Holds
  <2>3. f.at \in Seq(Nat) /\ f.next \in Nat BY <2>1, FrameFields
  <2>4. Account(T, Append(f.at, f.next - 1)) BY <1>5 DEF Position
  <2>5. \A r \in T : r.at # <<>> /\ r.at[1] = t - 1
    <3>. PICK q : q = Append(f.at, f.next - 1) OBVIOUS
    <3>0. f.next - 1 \in Nat BY <2>2, <2>3
    <3>1. q \in Seq(Nat) /\ q # <<>> BY <2>3, <3>0, PartFacts
    <3>2. q[1] = f.at[1]
      <4>1. Len(f.at) = 1 BY <1>2, <2>2, SourceAt
      <4>2. \A i \in 1 .. Len(f.at) : q[i] = f.at[i] BY <2>3, <3>0, AppendProperties
      <4>. QED BY <4>1, <4>2
    <3>3. f.at[1] = t - 1 BY <1>2, <2>2, SourceAt
    <3>. QED BY <2>4, <3>1, <3>2, <3>3, AccountOf
  <2>6. u = s /\ K = J \cup T BY <1>5 DEF Deposited
  <2>7. Past(K, t, src, t - 2) /\ Of(K, t - 1) = Of(J, t - 1) \cup T
    BY <1>1, <1>2, <2>5, <2>6, PastMore
  <2>8. Partial(Of(K, t - 1), f.at, f.next - 1)
    <3>. PICK k : k = f.next - 2 OBVIOUS
    <3>1. k \in Nat /\ k + 1 = f.next - 1 BY <2>2, <2>3
    <3>2. Partial(Of(J, t - 1), f.at, k) BY <2>2 DEF Mailbox
    <3>3. Partial(Of(J, t - 1) \cup T, f.at, k + 1) BY <2>3, <2>4, <3>1, <3>2, PartialNext
    <3>. QED BY <2>7, <3>1, <3>3
  <2>9. Holds(f, K, t, src, Handled(f))
    <3>1. Handled(f) = f.next - 1 BY <2>2 DEF Handled
    <3>. QED BY <1>5, <2>2, <2>8, <3>1 DEF Holds, Mailbox
  <2>10. Working(u, K, t, src)
    BY <1>1, <1>5, <2>1, <2>2, <2>6, <2>7, <2>9 DEF Working
  <2>. QED BY <1>5, <2>6, <2>10 DEF Ready
<1>. QED BY <1>3, <1>4, <1>5

\* The innermost frame of a stack whose cursor has moved on.
LEMMA SteppedTop ==
    ASSUME NEW s, Nested(s), s # <<>>, NEW f, f = Last(s), NEW u, u = Stepped(s)
    PROVE  /\ f \in FrameType /\ f.next \in Nat \ {0} /\ f.at \in Seq(Nat)
           /\ \E g \in FrameType :
                /\ g.at = f.at /\ g.kind = f.kind /\ g.body = f.body /\ g.phase = f.phase
                /\ g.next = f.next + 1 /\ g.buffer = f.buffer
                /\ Nested(u) /\ u # <<>> /\ Last(u) = g /\ Front(u) = Front(s) /\ Len(u) = Len(s)
<1>. PICK g : g = [f EXCEPT !.next = @ + 1] OBVIOUS
<1>. PICK n : n = Len(s) OBVIOUS
<1>1. /\ n \in Nat /\ n > 0 /\ f = s[n] /\ f \in FrameType /\ DOMAIN s = 1 .. n /\ n \in 1 .. n
      /\ s \in Seq(FrameType) /\ Len(s) = n
      /\ Front(s) \in Seq(FrameType) /\ Len(Front(s)) = n - 1
      /\ \A i \in 1 .. n - 1 : Front(s)[i] = s[i]
  <2>1. /\ Len(s) \in Nat /\ Len(s) > 0 /\ DOMAIN s = 1 .. Len(s) /\ Last(s) = s[Len(s)]
        /\ Last(s) \in FrameType
        /\ Front(s) \in Seq(FrameType) /\ Len(Front(s)) = Len(s) - 1
        /\ \A i \in 1 .. Len(s) - 1 : Front(s)[i] = s[i]
    BY FrontFacts
  <2>2. s \in Seq(FrameType) BY DEF Nested
  <2>3. n \in 1 .. n BY <2>1
  <2>. QED BY <2>1, <2>2, <2>3
<1>2. /\ g \in FrameType /\ g.at = f.at /\ g.kind = f.kind /\ g.body = f.body /\ g.phase = f.phase
  BY <1>1, FrameStepped DEF Alike
<1>3. g.next = f.next + 1 /\ g.buffer = f.buffer /\ f.next \in Nat \ {0} /\ f.at \in Seq(Nat)
  BY <1>1 DEF FrameType, Positions
<1>4. u = [s EXCEPT ![n] = g]
  BY <1>1 DEF Stepped
<1>5. /\ u \in Seq(FrameType) /\ Len(u) = n /\ \A i \in 1 .. n : u[i] = IF i = n THEN g ELSE s[i]
  <2>1. n \in 1 .. Len(s) BY <1>1
  <2>2. /\ [s EXCEPT ![n] = g] \in Seq(FrameType) /\ Len([s EXCEPT ![n] = g]) = Len(s)
        /\ \A i \in 1 .. Len(s) : [s EXCEPT ![n] = g][i] = IF i = n THEN g ELSE s[i]
    BY <1>1, <1>2, <2>1, ExceptSeq
  <2>. QED BY <1>1, <1>4, <2>2
<1>6. Nested(u)
  <2>1. SameFrames(s, Stepped(s)) BY SteppedKeeps
  <2>. QED BY <2>1, NestedAlike
<1>7. u # <<>> /\ Last(u) = g
  <2>1. u # <<>> BY <1>1, <1>5, EmptySeq
  <2>. QED BY <1>1, <1>5, <2>1 DEF Last
<1>8. Front(u) = Front(s)
  <2>1. /\ Front(u) \in Seq(FrameType) /\ Len(Front(u)) = n - 1
        /\ \A i \in 1 .. n - 1 : Front(u)[i] = u[i]
    BY <1>5, <1>6, <1>7, FrontFacts
  <2>2. \A i \in 1 .. n - 1 : i \in 1 .. n /\ i # n BY <1>1
  <2>3. \A i \in 1 .. n - 1 : Front(u)[i] = Front(s)[i] BY <1>1, <1>5, <2>1, <2>2
  <2>. PICK a : a = Front(u) OBVIOUS
  <2>. PICK b : b = Front(s) OBVIOUS
  <2>4. /\ a \in Seq(FrameType) /\ b \in Seq(FrameType) /\ Len(a) = Len(b)
        /\ \A i \in 1 .. Len(a) : a[i] = b[i]
    BY <1>1, <2>1, <2>3
  <2>5. a = b BY <2>4, SeqEqual
  <2>. QED BY <2>5
<1>. QED BY <1>1, <1>2, <1>3, <1>5, <1>6, <1>7, <1>8

\* The next part is at hand once the cursor has moved on.
LEMMA Fetched ==
    ASSUME NEW s, Nested(s), s # <<>>, NEW J, NEW t \in Nat, NEW src, Ready(s, J, t, src),
           Last(s).phase = "parts"
    PROVE  /\ Waiting(Stepped(s), J, t, src) /\ Nested(Stepped(s))
           /\ Position(Stepped(s), t) = Append(Last(s).at, Last(s).next)
<1>. PICK u : u = Stepped(s) OBVIOUS
<1>. PICK f : f = Last(s) OBVIOUS
<1>. PICK n : n = Len(s) OBVIOUS
<1>1. /\ f \in FrameType /\ f.next \in Nat \ {0} /\ f.at \in Seq(Nat)
      /\ \E g \in FrameType :
           /\ g.at = f.at /\ g.kind = f.kind /\ g.body = f.body /\ g.phase = f.phase
           /\ g.next = f.next + 1 /\ g.buffer = f.buffer
           /\ Nested(u) /\ u # <<>> /\ Last(u) = g /\ Front(u) = Front(s) /\ Len(u) = Len(s)
  BY SteppedTop
<1>2. PICK g \in FrameType :
        /\ g.at = f.at /\ g.kind = f.kind /\ g.body = f.body /\ g.phase = f.phase
        /\ g.next = f.next + 1 /\ g.buffer = f.buffer
        /\ Nested(u) /\ u # <<>> /\ Last(u) = g /\ Front(u) = Front(s) /\ Len(u) = Len(s)
  BY <1>1
<1>3. g.next = f.next + 1 /\ g.buffer = f.buffer /\ f.next \in Nat \ {0} /\ f.at \in Seq(Nat)
  BY <1>1, <1>2
<1>6. Nested(u)
  BY <1>2
<1>7. u # <<>> /\ Last(u) = g /\ Len(u) = n
  BY <1>2
<1>8. Front(u) = Front(s)
  BY <1>2
<1>9. Position(u, t) = Append(f.at, f.next)
  <2>1. g.next - 1 = f.next BY <1>3
  <2>. QED BY <1>2, <1>7, <2>1 DEF Position
<1>10. Working(s, J, t, src) /\ Handled(f) = f.next - 1 /\ g.next >= 2 /\ g.next - 2 = f.next - 1
  BY <1>3 DEF Ready, Handled
<1>11. CASE IsContainer(f)
  <2>1. /\ Waiting(Front(u), J, t, src) /\ g.at = Position(Front(u), t)
        /\ Partial(f.buffer, f.at, f.next - 1)
    BY <1>2, <1>8, <1>10, <1>11 DEF Working, Holds
  <2>2. IsContainer(g) BY <1>2, <1>11 DEF IsContainer
  <2>3. Partial(g.buffer, g.at, g.next - 2) BY <1>2, <1>3, <1>10, <2>1
  <2>4. g.phase = "parts" BY <1>2
  <2>5. Waiting(u, J, t, src) BY <1>6, <1>7, <1>10, <2>1, <2>2, <2>3, <2>4, WaitingTop
  <2>. QED BY <1>6, <1>9, <2>5
<1>12. CASE ~IsContainer(f)
  <2>1. /\ n = 1 /\ Past(J, t, src, t - 2) /\ t - 1 \in DOMAIN src /\ Mailbox(f, J, t, src, f.next - 1)
    BY <1>10, <1>12 DEF Working, Holds
  <2>2. DOMAIN u = {1} /\ u[1] = g
    <3>1. DOMAIN u = 1 .. n /\ u[n] = g BY <1>6, <1>7, FrontFacts
    <3>. QED BY <2>1, <3>1
  <2>3. ~IsContainer(g) BY <1>2, <1>12 DEF IsContainer
  <2>4. Holds(g, J, t, src, g.next - 2) BY <1>2, <1>10, <2>1, <2>3 DEF Holds, Mailbox
  <2>5. g.phase = "parts" /\ g.at = <<t - 1>> BY <1>2, <2>1 DEF Mailbox
  <2>6. Waiting(u, J, t, src) BY <1>7, <1>10, <2>1, <2>2, <2>3, <2>4, <2>5 DEF Waiting
  <2>. QED BY <1>6, <1>9, <2>6
<1>. QED BY <1>11, <1>12

\* The same of a stack that is ready.
LEMMA ReadyAlike ==
    ASSUME NEW s, NEW u, Nested(s), SameFrames(s, u), SameBooks(s, u), NEW J, NEW t, NEW src,
           Ready(s, J, t, src)
    PROVE  Ready(u, J, t, src)
<1>1. /\ Len(u) = Len(s) /\ Len(s) \in Nat /\ u \in Seq(FrameType) /\ s \in Seq(FrameType)
      /\ s = <<>> <=> Len(s) = 0
      /\ u = <<>> <=> Len(s) = 0
      /\ Nested(u)
  BY LenProperties, EmptySeq, NestedAlike DEF SameFrames, Nested
<1>2. CASE s = <<>>
  BY <1>1, <1>2 DEF Ready
<1>3. CASE s # <<>>
  <2>. PICK n : n = Len(s) OBVIOUS
  <2>. PICK f : f = Last(s) OBVIOUS
  <2>. PICK g : g = Last(u) OBVIOUS
  <2>1. u # <<>> /\ n \in 1 .. n /\ f = s[n] /\ g = u[n] /\ n \in Nat /\ Len(s) = n
    BY <1>1, <1>3 DEF Last
  <2>2. /\ g.at = f.at /\ g.body = f.body /\ g.kind = f.kind
        /\ g.buffer = f.buffer /\ Handled(g) = Handled(f)
        /\ f.phase = "parts" => g.phase = "parts"
    BY <2>1 DEF SameBooks, Alike
  <2>3. /\ Front(s) \in Seq(FrameType) /\ Len(Front(s)) = n - 1 /\ Nested(Front(s))
        /\ \A i \in 1 .. n - 1 : Front(s)[i] = s[i]
        /\ Front(u) \in Seq(FrameType) /\ Len(Front(u)) = n - 1
        /\ \A i \in 1 .. n - 1 : Front(u)[i] = u[i]
    BY <1>1, <1>3, <2>1, FrontFacts
  <2>4. SameFrames(Front(s), Front(u)) /\ SameBooks(Front(s), Front(u))
    <3>1. \A i \in 1 .. n - 1 : i \in 1 .. n BY <2>1
    <3>2. \A i \in 1 .. n - 1 :
            /\ Alike(Front(s)[i], Front(u)[i]) /\ Front(u)[i].buffer = Front(s)[i].buffer
            /\ Handled(Front(u)[i]) = Handled(Front(s)[i])
            /\ Front(s)[i].phase = "parts" =>
                 Front(u)[i].phase = "parts" /\ Front(u)[i].next = Front(s)[i].next
      BY <2>1, <2>3, <3>1 DEF SameBooks
    <3>. QED BY <2>3, <3>2 DEF SameFrames, SameBooks
  <2>5. Working(s, J, t, src) BY <1>3 DEF Ready
  <2>6. IsContainer(g) <=> IsContainer(f) BY <2>2 DEF IsContainer
  <2>7. Holds(g, J, t, src, Handled(g)) BY <2>2, <2>5, <2>6 DEF Holds, Mailbox, Working
  <2>8. CASE IsContainer(f)
    <3>1. Waiting(Front(s), J, t, src) /\ f.at = Position(Front(s), t) BY <2>5, <2>8 DEF Working
    <3>2. Waiting(Front(u), J, t, src) /\ g.at = Position(Front(u), t)
      BY <2>2, <2>3, <2>4, <3>1, WaitingAlike
    <3>3. Working(u, J, t, src) BY <2>6, <2>7, <2>8, <3>2 DEF Working
    <3>. QED BY <2>1, <3>3 DEF Ready
  <2>9. CASE ~IsContainer(f)
    <3>1. Len(u) = 1 /\ g.phase = "parts" /\ Past(J, t, src, t - 2) /\ t - 1 \in DOMAIN src
      BY <1>1, <2>2, <2>5, <2>9 DEF Working
    <3>2. Working(u, J, t, src) BY <2>6, <2>7, <2>9, <3>1 DEF Working
    <3>. QED BY <2>1, <3>2 DEF Ready
  <2>. QED BY <2>8, <2>9
<1>. QED BY <1>2, <1>3

\* The source file at hand has no records yet, or those of the first parts of a mailbox.
Begun(J, t, src) ==
    /\ Past(J, t, src, t - 2) /\ t - 1 \in DOMAIN src
    /\ \/ Of(J, t - 1) = {}
       \/ Shape[src[t - 1]] = "mbox" /\ \E k : Partial(Of(J, t - 1), <<t - 1>>, k)

\* So it is when a mailbox is at the bottom of the stack, ...
LEMMA MailboxBegun ==
    ASSUME NEW f, NEW J, NEW t, NEW src, NEW k, Mailbox(f, J, t, src, k),
           Past(J, t, src, t - 2), t - 1 \in DOMAIN src
    PROVE  Begun(J, t, src)
<1>1. Shape[src[t - 1]] = "mbox" /\ Partial(Of(J, t - 1), <<t - 1>>, k)
  BY DEF Mailbox
<1>. QED BY <1>1 DEF Begun

\* ... whenever the stack waits, ...
LEMMA WaitingBegun ==
    ASSUME NEW s, Nested(s), NEW J, NEW t, NEW src, Waiting(s, J, t, src)
    PROVE  Begun(J, t, src)
<1>1. CASE s = <<>> \/ IsContainer(s[1])
  BY <1>1 DEF Begun, Waiting
<1>2. CASE s # <<>> /\ ~IsContainer(s[1])
  <2>1. 1 \in DOMAIN s
    <3>1. Len(s) > 0 /\ DOMAIN s = 1 .. Len(s) /\ Len(s) \in Nat BY <1>2, FrontFacts
    <3>. QED BY <3>1
  <2>2. Mailbox(s[1], J, t, src, s[1].next - 2) BY <1>2, <2>1 DEF Waiting, Holds
  <2>3. Past(J, t, src, t - 2) /\ t - 1 \in DOMAIN src BY DEF Waiting
  <2>. QED BY <2>2, <2>3, MailboxBegun
<1>. QED BY <1>1, <1>2

\* ... and when it works.
LEMMA WorkingBegun ==
    ASSUME NEW s, Nested(s), s # <<>>, NEW J, NEW t, NEW src, Working(s, J, t, src)
    PROVE  Begun(J, t, src)
<1>1. CASE IsContainer(Last(s))
  <2>1. Waiting(Front(s), J, t, src) /\ Nested(Front(s)) BY <1>1, FrontFacts DEF Working
  <2>. QED BY <2>1, WaitingBegun
<1>2. CASE ~IsContainer(Last(s))
  <2>1. /\ Mailbox(Last(s), J, t, src, Handled(Last(s))) /\ Past(J, t, src, t - 2)
        /\ t - 1 \in DOMAIN src
    BY <1>2 DEF Working, Holds
  <2>. QED BY <2>1, MailboxBegun
<1>. QED BY <1>1, <1>2

\* In any state the records of each source file are sound.
LEMMA BegunSound ==
    ASSUME NEW J, NEW t \in Nat, NEW src, Begun(J, t, src), NEW n \in 1 .. t - 1
    PROVE  Sound(Of(J, n), Level(n, src))
<1>1. CASE n # t - 1
  <2>1. n \in 1 .. t - 2 BY <1>1
  <2>. QED BY <2>1 DEF Begun, Past, Finalized
<1>2. CASE n = t - 1 /\ Of(J, t - 1) = {}
  BY <1>2, SoundEmpty
<1>3. CASE n = t - 1 /\ Of(J, t - 1) # {}
  <2>1. PICK k : Shape[src[n]] = "mbox" /\ Partial(Of(J, n), <<n>>, k) BY <1>3 DEF Begun
  <2>2. Sound(Of(J, n), Len(<<n>>) + 1) /\ Len(<<n>>) + 1 = 2 BY <2>1, SourceAt DEF Partial
  <2>. QED BY <2>1, <2>2 DEF Level
<1>. QED BY <1>1, <1>2, <1>3

-----------------------------------------------------------------------------
\* The ledger after a step, in the three situations it knows.
LEMMA IdleNext ==
    ASSUME item' = {}, failing' = {}, Ready(stack', Records', todo', source')
    PROVE  Ledger'
BY DEF Ledger

\* A failure unwinds and the rest of the stack waits for its container.
LEMMA FailingNext ==
    ASSUME item' = {}, failing' # {}, outgoing' = {}, stack' # <<>>, NEW b, b = Front(stack'),
           Waiting(b, Records', todo', source'), Last(stack').at = Position(b, todo')
    PROVE  Ledger'
BY DEF Ledger, Below, Top

\* A blob is at hand and the stack waits for it.
LEMMA ItemNext ==
    ASSUME NEW x, item' = {x}, failing' = {}, Waiting(stack', Records', todo', source'),
           x.at = Position(stack', todo')
    PROVE  Ledger'
BY DEF Ledger

\* What the invariants say when nothing is at hand.
LEMMA IdleFacts ==
    ASSUME Shaped, Ledger, Idle
    PROVE  /\ Ready(stack, journal, todo, source) /\ Records = journal /\ Nested(stack)
           /\ todo \in Nat /\ source \in Seq(Content) /\ DOMAIN source = 1 .. Len(source)
<1>1. Records = journal
  BY DEF Idle, Records
<1>2. Ready(stack, Records, todo, source)
  BY DEF Ledger, Idle
<1>3. source \in Seq(Content)
  BY ExpansionAssumption DEF Shaped
<1>4. todo \in Nat /\ DOMAIN source = 1 .. Len(source)
  <2>1. Len(source) \in Nat BY <1>3, LenProperties
  <2>. QED BY <1>3, <2>1, LenProperties DEF Shaped
<1>. QED BY <1>1, <1>2, <1>3, <1>4 DEF Shaped

\* A container at the top: the rest of the stack waits for it.
LEMMA TopWaits ==
    ASSUME NEW s, Nested(s), s # <<>>, IsContainer(Last(s)), NEW J, NEW t, NEW src, Ready(s, J, t, src)
    PROVE  /\ Waiting(Front(s), J, t, src) /\ Last(s).at = Position(Front(s), t) /\ Nested(Front(s))
           /\ Partial(Last(s).buffer, Last(s).at, Handled(Last(s)))
<1>1. Nested(Front(s))
  BY FrontFacts
<1>. QED BY <1>1 DEF Ready, Working, Holds

\* A deposit of all there is to say of the position at hand.
LEMMA DepositNext ==
    ASSUME NEW s, Nested(s), NEW t \in Nat, t - 1 > 0, Waiting(s, journal, t, source),
           NEW T, Account(T, Position(s, t)), Deposit(s, T), outgoing = {},
           journal' = journal, source' = source, todo' = t, item' = {}, failing' = {}
    PROVE  Ledger'
<1>1. Deposited(s, T, journal, stack', Records')
  BY DEF Deposit, Deposited, Records
<1>2. Ready(stack', Records', t, source)
  BY <1>1, Delivered
<1>. QED BY <1>2, IdleNext

\* Nothing was handled: the frames hold what they held.
LEMMA IdleStays ==
    ASSUME Shaped, Ledger, Idle, SameFrames(stack, stack'), SameBooks(stack, stack'),
           item' = item, failing' = failing, UNCHANGED <<source, todo, outgoing, journal>>
    PROVE  Ledger'
<1>1. Ready(stack, journal, todo, source) /\ Records' = journal /\ Nested(stack)
  BY IdleFacts DEF Records, Idle
<1>2. Ready(stack', journal, todo, source)
  BY <1>1, ReadyAlike
<1>3. item' = {} /\ failing' = {}
  BY DEF Idle
<1>. QED BY <1>1, <1>2, <1>3, IdleNext

\* A container fails.
LEMMA IdleFails ==
    ASSUME Shaped, Ledger, Idle, stack # <<>>, IsContainer(Top), NEW x, Fail(x),
           SameFrames(stack, stack'), SameBooks(stack, stack'),
           UNCHANGED <<source, todo, item, outgoing, journal>>
    PROVE  Ledger'
<1>1. Ready(stack, journal, todo, source) /\ Records' = journal /\ Nested(stack)
  BY IdleFacts DEF Records, Idle
<1>. PICK s : s = stack' OBVIOUS
<1>2. Ready(s, journal, todo, source) /\ Nested(s)
  BY <1>1, ReadyAlike, NestedAlike
<1>3. s # <<>> /\ IsContainer(Last(s))
  <2>1. /\ Len(stack) \in Nat /\ Top = stack[Len(stack)] /\ Len(stack) \in 1 .. Len(stack)
    BY TopFacts
  <2>2. /\ s \in Seq(FrameType) /\ Len(s) = Len(stack) /\ Alike(stack[Len(stack)], s[Len(stack)])
    BY <2>1 DEF SameFrames
  <2>3. s # <<>> BY <2>1, <2>2, EmptySeq
  <2>4. Last(s) = s[Len(stack)] BY <2>2 DEF Last
  <2>5. Last(s).kind = Top.kind BY <2>1, <2>2, <2>4 DEF Alike
  <2>. QED BY <2>3, <2>5 DEF IsContainer
<1>. PICK b : b = Front(s) OBVIOUS
<1>4. Waiting(b, journal, todo, source) /\ Last(s).at = Position(b, todo)
  BY <1>2, <1>3, TopWaits
<1>5. failing' # {} /\ item' = {} /\ outgoing' = {}
  BY DEF Fail, Idle
<1>. QED BY <1>1, <1>3, <1>4, <1>5, FailingNext

-----------------------------------------------------------------------------
\* What the operations on the stack do to its books.
LEMMA BooksSame ==
    ASSUME NEW s, Nested(s)
    PROVE  SameFrames(s, s) /\ SameBooks(s, s)
BY DEF SameFrames, SameBooks, Alike, Nested

\* A charge changes what a frame has spent and nothing else.
LEMMA FrameBooks ==
    ASSUME NEW f \in FrameType, NEW n
    PROVE  LET g == [f EXCEPT !.spent = n] IN
           /\ g.kind = f.kind /\ g.at = f.at /\ g.body = f.body /\ g.depth = f.depth
           /\ g.buffer = f.buffer /\ g.phase = f.phase /\ g.next = f.next
BY DEF FrameType

\* Charging all containers, or those outside one, moves no cursor.
LEMMA BooksCharged ==
    ASSUME Nested(stack), NEW bytes \in Nat, NEW owner
    PROVE  /\ SameFrames(stack, ChargedStack(bytes)) /\ SameBooks(stack, ChargedStack(bytes))
           /\ SameFrames(stack, ChargedOutside(owner, bytes))
           /\ SameBooks(stack, ChargedOutside(owner, bytes))
<1>1. /\ Len(stack) \in Nat /\ DOMAIN stack = 1 .. Len(stack)
      /\ \A i \in 1 .. Len(stack) : stack[i] \in FrameType
  BY StackFacts DEF Nested
<1>2. ASSUME NEW u, NEW i \in 1 .. Len(stack), NEW n, u = [stack[i] EXCEPT !.spent = n]
      PROVE  /\ Alike(stack[i], u) /\ u.buffer = stack[i].buffer /\ Handled(u) = Handled(stack[i])
             /\ stack[i].phase = "parts" => u.phase = "parts" /\ u.next = stack[i].next
  <2>1. stack[i] \in FrameType BY <1>1
  <2>2. /\ u.kind = stack[i].kind /\ u.at = stack[i].at /\ u.body = stack[i].body
        /\ u.depth = stack[i].depth
        /\ u.buffer = stack[i].buffer /\ u.phase = stack[i].phase /\ u.next = stack[i].next
    BY <1>2, <2>1, FrameBooks
  <2>. QED BY <2>2 DEF Alike, Handled
<1>3. SameBooks(stack, ChargedStack(bytes))
  <2>. SUFFICES ASSUME NEW i \in 1 .. Len(stack), NEW u, u = ChargedStack(bytes)[i]
                PROVE  /\ Alike(stack[i], u) /\ u.buffer = stack[i].buffer
                       /\ Handled(u) = Handled(stack[i])
                       /\ stack[i].phase = "parts" => u.phase = "parts" /\ u.next = stack[i].next
    BY DEF SameBooks
  <2>1. PICK n : u = [stack[i] EXCEPT !.spent = n] BY <1>1 DEF ChargedStack
  <2>. QED BY <1>2, <2>1
<1>4. SameBooks(stack, ChargedOutside(owner, bytes))
  <2>. SUFFICES ASSUME NEW i \in 1 .. Len(stack), NEW u, u = ChargedOutside(owner, bytes)[i]
                PROVE  /\ Alike(stack[i], u) /\ u.buffer = stack[i].buffer
                       /\ Handled(u) = Handled(stack[i])
                       /\ stack[i].phase = "parts" => u.phase = "parts" /\ u.next = stack[i].next
    BY DEF SameBooks
  <2>1. PICK n : u = [stack[i] EXCEPT !.spent = n] BY <1>1 DEF ChargedOutside
  <2>. QED BY <1>2, <2>1
<1>. QED BY <1>3, <1>4, ChargeKeeps, OutsideKeeps

\* Before the parts of an archive are processed its cursor and phase do not count.
LEMMA BooksAdvanced ==
    ASSUME Nested(stack), stack # <<>>, Top.phase # "parts",
           NEW phase \in {"listing", "extracting", "staging", "parts"}
    PROVE  SameFrames(stack, Advance(phase)) /\ SameBooks(stack, Advance(phase))
<1>1. SameFrames(stack, Advance(phase))
  BY AdvanceKeeps
<1>. PICK n : n = Len(stack) OBVIOUS
<1>. PICK f : f = stack[n] OBVIOUS
<1>. PICK g : g = [f EXCEPT !.phase = phase, !.next = 1] OBVIOUS
<1>2. /\ n \in 1 .. n /\ Len(stack) = n /\ f \in FrameType /\ Top = f /\ DOMAIN stack = 1 .. n
  BY StackFacts DEF Top
<1>3. g.phase = phase /\ g.next = 1 /\ g.buffer = f.buffer
  BY <1>2 DEF FrameType
<1>4. Handled(g) = 0 /\ Handled(f) = 0 /\ f.phase # "parts"
  BY <1>2, <1>3 DEF Handled
<1>5. \A i \in 1 .. n : Advance(phase)[i] = IF i = n THEN g ELSE stack[i]
  BY <1>2 DEF Advance
<1>6. \A i \in 1 .. n : Alike(stack[i], Advance(phase)[i])
  BY <1>1, <1>2 DEF SameFrames
<1>7. \A i \in 1 .. n :
        LET u == Advance(phase)[i] IN
        /\ u.buffer = stack[i].buffer /\ Handled(u) = Handled(stack[i])
        /\ stack[i].phase = "parts" => u.phase = "parts" /\ u.next = stack[i].next
  <2>. SUFFICES ASSUME NEW i \in 1 .. n, NEW u, u = Advance(phase)[i]
                PROVE  /\ u.buffer = stack[i].buffer /\ Handled(u) = Handled(stack[i])
                       /\ stack[i].phase = "parts" => u.phase = "parts" /\ u.next = stack[i].next
    OBVIOUS
  <2>1. CASE i = n BY <1>3, <1>4, <1>5, <2>1
  <2>2. CASE i # n BY <1>5, <2>2
  <2>. QED BY <2>1, <2>2
<1>. QED BY <1>1, <1>2, <1>6, <1>7 DEF SameBooks

\* Nor does staging, which steps the cursor of an archive before its parts are processed.
LEMMA BooksStepped ==
    ASSUME NEW s, Nested(s), s # <<>>, Last(s).phase # "parts"
    PROVE  SameFrames(s, Stepped(s)) /\ SameBooks(s, Stepped(s))
<1>1. SameFrames(s, Stepped(s))
  BY SteppedKeeps
<1>. PICK n : n = Len(s) OBVIOUS
<1>. PICK f : f = s[n] OBVIOUS
<1>. PICK g : g = [f EXCEPT !.next = @ + 1] OBVIOUS
<1>2. /\ n \in 1 .. n /\ Len(s) = n /\ f \in FrameType /\ Last(s) = f /\ DOMAIN s = 1 .. n
  BY StackFacts
<1>3. g.phase = f.phase /\ g.buffer = f.buffer
  BY <1>2 DEF FrameType
<1>4. Handled(g) = 0 /\ Handled(f) = 0 /\ f.phase # "parts"
  BY <1>2, <1>3 DEF Handled
<1>5. \A i \in 1 .. n : Stepped(s)[i] = IF i = n THEN g ELSE s[i]
  BY <1>2 DEF Stepped
<1>6. \A i \in 1 .. n : Alike(s[i], Stepped(s)[i])
  BY <1>1, <1>2 DEF SameFrames
<1>7. ASSUME NEW i \in 1 .. n, NEW u, u = Stepped(s)[i]
      PROVE  /\ u.buffer = s[i].buffer /\ Handled(u) = Handled(s[i])
             /\ s[i].phase = "parts" => u.phase = "parts" /\ u.next = s[i].next
  <2>1. CASE i = n BY <1>3, <1>4, <1>5, <1>7, <2>1
  <2>2. CASE i # n BY <1>5, <1>7, <2>2
  <2>. QED BY <2>1, <2>2
<1>. QED BY <1>1, <1>2, <1>6, <1>7 DEF SameBooks

\* Two such steps make one.
LEMMA BooksCompose ==
    ASSUME NEW s, NEW u, NEW w, SameFrames(s, u), SameBooks(s, u), SameFrames(u, w), SameBooks(u, w)
    PROVE  SameFrames(s, w) /\ SameBooks(s, w)
<1>1. Len(u) = Len(s) /\ Len(w) = Len(s) /\ w \in Seq(FrameType)
  BY DEF SameFrames
<1>. QED BY <1>1 DEF SameFrames, SameBooks, Alike

\* Charging a member that is staged, and going on to the next.
LEMMA StagedBooks ==
    ASSUME Nested(stack), stack # <<>>, Last(stack).phase # "parts", NEW bytes \in Nat
    PROVE  LET u == Stepped(ChargedStack(bytes)) IN SameFrames(stack, u) /\ SameBooks(stack, u)
<1>. PICK u : u = ChargedStack(bytes) OBVIOUS
<1>1. SameFrames(stack, u) /\ SameBooks(stack, u) /\ Nested(u)
  <2>1. SameFrames(stack, u) /\ SameBooks(stack, u) BY BooksCharged
  <2>. QED BY <2>1, NestedAlike
<1>2. u # <<>> /\ Last(u).phase # "parts"
  <2>1. /\ Len(stack) \in 1 .. Len(stack) /\ Last(stack) = stack[Len(stack)] BY StackFacts
  <2>2. u[Len(stack)].phase = stack[Len(stack)].phase BY <2>1, ChargeKeeps
  <2>3. Len(u) = Len(stack) /\ u \in Seq(FrameType) BY <1>1 DEF SameFrames
  <2>4. u # <<>> BY <2>1, <2>3, EmptySeq
  <2>. QED BY <2>1, <2>2, <2>3, <2>4 DEF Last
<1>3. SameFrames(u, Stepped(u)) /\ SameBooks(u, Stepped(u))
  BY <1>1, <1>2, BooksStepped
<1>4. SameFrames(stack, Stepped(u)) /\ SameBooks(stack, Stepped(u))
  BY <1>1, <1>3, BooksCompose
<1>. QED BY <1>4

-----------------------------------------------------------------------------
\* Sources.  At the beginning nothing has to be accounted for.
LEMMA InitLedger == Init => Ledger
<1>. SUFFICES ASSUME Init PROVE Ledger OBVIOUS
<1>1. Records = {} /\ stack = <<>> /\ todo = 1 /\ item = {} /\ failing = {}
  BY DEF Init, Records
<1>2. Past({}, 1, source, 0)
  BY DEF Past
<1>3. Ready(<<>>, {}, 1, source)
  BY <1>2 DEF Ready
<1>. QED BY <1>1, <1>3 DEF Ledger

\* The next source file, before it is read.
LEMMA SourceWaits ==
    ASSUME Shaped, Ledger, AtSource
    PROVE  /\ Waiting(<<>>, journal, todo + 1, source) /\ Position(<<>>, todo + 1) = <<todo>>
           /\ Past(journal, todo + 1, source, (todo + 1) - 2) /\ (todo + 1) - 1 = todo
           /\ Of(journal, todo) = {} /\ todo \in DOMAIN source /\ todo \in Nat /\ todo > 0
           /\ source[todo] \in Content
<1>1. /\ Ready(stack, journal, todo, source) /\ todo \in Nat /\ stack = <<>> /\ todo \in DOMAIN source
      /\ source \in Seq(Content) /\ DOMAIN source = 1 .. Len(source)
  BY IdleFacts DEF AtSource
<1>2. Past(journal, todo, source, todo - 1)
  BY <1>1 DEF Ready
<1>3. Past(journal, todo + 1, source, todo - 1) /\ Of(journal, todo) = {}
  BY <1>1, <1>2, PastNext
<1>. PICK t : t = todo + 1 OBVIOUS
<1>4. t - 1 = todo /\ t - 2 = todo - 1 /\ todo > 0
  <2>1. Len(source) \in Nat BY <1>1, LenProperties
  <2>. QED BY <1>1, <2>1
<1>5. Past(journal, t, source, t - 2) /\ Of(journal, t - 1) = {} /\ t - 1 \in DOMAIN source
  BY <1>1, <1>3, <1>4
<1>6. Waiting(<<>>, journal, t, source)
  <2>1. DOMAIN <<>> = {} OBVIOUS
  <2>. QED BY <1>5, <2>1 DEF Waiting
<1>7. Position(<<>>, t) = <<todo>>
  BY <1>4 DEF Position
<1>8. source[todo] \in Content
  BY <1>1, ElementOfSeq
<1>. QED BY <1>1, <1>3, <1>4, <1>5, <1>6, <1>7, <1>8

\* A failure is all there is to say of a position.
LEMMA FailureAccount ==
    ASSUME NEW pos \in Seq(Nat), NEW reason \in {"unreadable", "depth", "undecoded"} \cup LimitReasons,
           Content # {}
    PROVE  /\ Account({FailureRec(pos, reason)}, pos)
           /\ FailureRec(pos, reason) \in RecordType
           /\ FailureRec(pos, reason).kind = "failure" /\ FailureRec(pos, reason).at = pos
<1>. PICK r : r = FailureRec(pos, reason) OBVIOUS
<1>1. r \in RecordType
  BY RecordsTyped
<1>2. r.kind = "failure" /\ r.at = pos
  BY DEF FailureRec
<1>3. Account({r}, pos)
  BY <1>1, <1>2, AccountOne
<1>. QED BY <1>1, <1>2, <1>3

\* A mailbox is opened with none of its parts handled.
LEMMA OpenMailboxLedger ==
    ASSUME Shaped, Ledger, OpenMailbox
    PROVE  Ledger'
<1>. PICK f : f = Frame("source", <<todo>>, source[todo], 0, "parts") OBVIOUS
<1>1. /\ AtSource /\ Shape[source[todo]] = "mbox" /\ stack' = <<f>> /\ todo' = todo + 1
      /\ UNCHANGED <<source, item, failing, outgoing, journal>>
  BY DEF OpenMailbox
<1>. PICK t : t = todo + 1 OBVIOUS
<1>2. /\ Past(journal, t, source, t - 2) /\ t - 1 = todo /\ Of(journal, todo) = {}
      /\ todo \in DOMAIN source
  BY <1>1, SourceWaits
<1>3. /\ f.kind = "source" /\ f.at = <<todo>> /\ f.body = source[todo] /\ f.phase = "parts"
      /\ f.next = 1
  BY DEF Frame
<1>4. Handled(f) = 0 /\ ~IsContainer(f)
  BY <1>3 DEF Handled, IsContainer
<1>5. Partial({}, f.at, 0)
  BY SoundEmpty DEF Partial
<1>6. Holds(f, journal, t, source, Handled(f))
  BY <1>1, <1>2, <1>3, <1>4, <1>5 DEF Holds, Mailbox
<1>7. <<f>> # <<>> /\ Last(<<f>>) = f /\ Len(<<f>>) = 1
  BY DEF Last
<1>8. Ready(<<f>>, journal, t, source)
  BY <1>2, <1>3, <1>4, <1>6, <1>7 DEF Ready, Working
<1>9. Records' = journal /\ item' = {} /\ failing' = {}
  BY <1>1 DEF Records, AtSource, Idle
<1>. QED BY <1>1, <1>8, <1>9, IdleNext

\* A source file is staged, or its failure recorded.
LEMMA ReadSourceLedger ==
    ASSUME Shaped, Ledger, ReadSource
    PROVE  Ledger'
<1>1. AtSource /\ todo' = todo + 1 /\ UNCHANGED <<source, failing, journal>>
  BY DEF ReadSource
<1>. PICK t : t = todo + 1 OBVIOUS
<1>2. /\ Waiting(<<>>, journal, t, source) /\ Position(<<>>, t) = <<todo>>
      /\ todo \in Nat /\ todo > 0 /\ source[todo] \in Content
  BY <1>1, SourceWaits
<1>3. t \in Nat /\ t - 1 > 0 /\ <<todo>> \in Seq(Nat)
  BY <1>2, SourceAt
<1>4. item = {} /\ failing = {} /\ outgoing = {} /\ Nested(<<>>)
  BY <1>1, EmptyNested DEF AtSource, Idle
<1>5. CASE \E reason \in {"unreadable"} \cup LimitReasons :
             Deposit(<<>>, {FailureRec(<<todo>>, reason)}) /\ UNCHANGED item
  <2>1. PICK reason \in {"unreadable"} \cup LimitReasons :
             Deposit(<<>>, {FailureRec(<<todo>>, reason)}) /\ UNCHANGED item
    BY <1>5
  <2>. PICK T : T = {FailureRec(<<todo>>, reason)} OBVIOUS
  <2>2. Account(T, Position(<<>>, t))
    <3>1. Account({FailureRec(<<todo>>, reason)}, <<todo>>) BY <1>2, <1>3, FailureAccount
    <3>. QED BY <1>2, <3>1
  <2>3. Deposit(<<>>, T) /\ item' = {} /\ failing' = {} BY <1>1, <1>4, <2>1
  <2>. QED BY <1>1, <1>2, <1>3, <1>4, <2>2, <2>3, DepositNext
<1>6. CASE /\ item' = Pick(<<todo>>, source[todo], 0, FALSE) /\ UNCHANGED <<stack, outgoing>>
  <2>. PICK x : x = [at |-> <<todo>>, body |-> source[todo], depth |-> 0, whole |-> FALSE] OBVIOUS
  <2>1. item' = {x} /\ x.at = <<todo>> BY <1>6 DEF Pick
  <2>2. Records' = journal /\ failing' = {} /\ stack' = <<>>
    BY <1>1, <1>4, <1>6 DEF Records, AtSource
  <2>. QED BY <1>1, <1>2, <2>1, <2>2, ItemNext
<1>. QED
  <2>1. \A x \in PayloadLimits(Size[source[todo]]) : x.reason \in LimitReasons
    BY PayloadOwned DEF Shaped
  <2>. QED BY <1>5, <1>6, <2>1 DEF ReadSource

-----------------------------------------------------------------------------
\* The records of a source file are sound at any time but while a failure unwinds,
\* when nothing is written.
LEMMA RecordsSound ==
    ASSUME Shaped, Ledger, failing = {}
    PROVE  /\ \A r \in Records : r.at # <<>> /\ r.at[1] \in 1 .. todo - 1
           /\ \A n \in 1 .. todo - 1 : Sound(Of(Records, n), Level(n, source))
           /\ todo \in Nat
<1>1. Nested(stack) /\ todo \in Nat
  <2>1. source \in Seq(Content) BY ExpansionAssumption DEF Shaped
  <2>2. Len(source) \in Nat BY <2>1, LenProperties
  <2>. QED BY <2>2 DEF Shaped
<1>2. ASSUME Begun(Records, todo, source)
      PROVE  /\ \A r \in Records : r.at # <<>> /\ r.at[1] \in 1 .. todo - 1
             /\ \A n \in 1 .. todo - 1 : Sound(Of(Records, n), Level(n, source))
  <2>1. \A n \in 1 .. todo - 1 : Sound(Of(Records, n), Level(n, source)) BY <1>1, <1>2, BegunSound
  <2>2. \A r \in Records : r.at # <<>> /\ r.at[1] \in 1 .. todo - 1 BY <1>2 DEF Begun, Past
  <2>. QED BY <2>1, <2>2
<1>3. CASE item # {}
  <2>1. Begun(Records, todo, source) BY <1>1, <1>3, WaitingBegun DEF Ledger
  <2>. QED BY <1>1, <1>2, <2>1
<1>4. CASE item = {} /\ stack # <<>>
  <2>1. Working(stack, Records, todo, source) BY <1>4 DEF Ledger, Ready
  <2>2. Begun(Records, todo, source) BY <1>1, <1>4, <2>1, WorkingBegun
  <2>. QED BY <1>1, <1>2, <2>2
<1>5. CASE item = {} /\ stack = <<>>
  <2>1. Past(Records, todo, source, todo - 1) BY <1>5 DEF Ledger, Ready
  <2>2. \A n \in 1 .. todo - 1 : Sound(Of(Records, n), Level(n, source)) BY <2>1 DEF Past, Finalized
  <2>3. \A r \in Records : r.at # <<>> /\ r.at[1] \in 1 .. todo - 1 BY <2>1 DEF Past
  <2>. QED BY <1>1, <2>2, <2>3
<1>. QED BY <1>3, <1>4, <1>5

\* No two records have one id.
LEMMA RecordsDistinct ==
    ASSUME Shaped, Ledger, failing = {}
    PROVE  Distinct(Records)
<1>. SUFFICES ASSUME NEW r \in Records, NEW s \in Records, SameId(r, s) PROVE r = s
  BY DEF Distinct
<1>1. r.at = s.at
  BY DEF SameId
<1>. PICK n : n = r.at[1] OBVIOUS
<1>2. n \in 1 .. todo - 1 /\ r \in Of(Records, n) /\ s \in Of(Records, n)
  BY <1>1, RecordsSound DEF Of
<1>3. Distinct(Of(Records, n))
  BY <1>2, RecordsSound DEF Sound
<1>. QED BY <1>2, <1>3 DEF Distinct

\* What is at hand stays, and so do the records, wherever they are.
LEMMA LedgerSame ==
    ASSUME Ledger, UNCHANGED <<source, todo, stack, item, failing>>, Records' = Records,
           failing # {} => outgoing' = {}
    PROVE  Ledger'
<1>. PICK K : K = Records' OBVIOUS
<1>1. K = Records /\ K = Records'
  OBVIOUS
<1>. QED BY <1>1 DEF Ledger, Below, Top

\* A record on its way is written: it replaces nothing but itself.
LEMMA WriteRecordLedger ==
    ASSUME Shaped, Ledger, NEW r \in outgoing, WriteRecord(r)
    PROVE  Ledger'
<1>1. failing = {}
  BY DEF Ledger
<1>2. /\ journal' = {s \in journal : ~SameId(r, s)} \cup {r} /\ outgoing' = outgoing \ {r}
      /\ UNCHANGED <<source, todo, stack, item, failing>>
  BY DEF WriteRecord, Upsert
<1>3. \A s \in journal : SameId(r, s) => s = r
  BY <1>1, RecordsDistinct DEF Distinct, Records
<1>4. Records' = Records
  BY <1>2, <1>3 DEF Records
<1>. QED BY <1>1, <1>2, <1>4, LedgerSame

-----------------------------------------------------------------------------
\* One blob.
LEMMA ItemFacts ==
    ASSUME Shaped, Ledger, NEW x, item = {x}, outgoing = {}
    PROVE  /\ Waiting(stack, journal, todo, source) /\ x.at = Position(stack, todo)
           /\ Nested(stack) /\ Records = journal /\ failing = {}
           /\ todo \in Nat /\ todo - 1 > 0
           /\ x.at \in Seq(Nat) /\ x.body \in Content
<1>1. Records = journal
  BY DEF Records
<1>2. Waiting(stack, journal, todo, source) /\ x.at = Position(stack, todo)
  BY <1>1 DEF Ledger
<1>3. source \in Seq(Content)
  BY ExpansionAssumption DEF Shaped
<1>4. todo \in Nat /\ todo - 1 > 0
  <2>1. Len(source) \in Nat /\ DOMAIN source = 1 .. Len(source) BY <1>3, LenProperties
  <2>2. todo - 1 \in DOMAIN source /\ todo \in 1 .. Len(source) + 1 BY <1>2 DEF Waiting, Shaped
  <2>. QED BY <2>1, <2>2
<1>5. StagedHere(x) /\ failing = {}
  BY DEF Shaped, ItemHeld
<1>6. x.at \in Seq(Nat) /\ x.body \in Content
  BY <1>5 DEF StagedHere, ItemType, Positions
<1>. QED BY <1>1, <1>2, <1>4, <1>5, <1>6 DEF Shaped

\* It is kept, refused as a container, ...
LEMMA RecordedLedger ==
    ASSUME Shaped, Ledger, NEW x, Classify(x), NEW T, Account(T, x.at), Deposit(stack, T),
           UNCHANGED <<source, todo, failing, journal>>
    PROVE  Ledger'
<1>1. item = {x} /\ outgoing = {} /\ item' = {}
  BY DEF Classify
<1>2. /\ Waiting(stack, journal, todo, source) /\ x.at = Position(stack, todo)
      /\ Nested(stack) /\ todo \in Nat /\ todo - 1 > 0 /\ failing = {}
  BY <1>1, ItemFacts
<1>. PICK t : t = todo OBVIOUS
<1>3. /\ Waiting(stack, journal, t, source) /\ t \in Nat /\ t - 1 > 0 /\ Account(T, Position(stack, t))
      /\ todo' = t /\ source' = source /\ journal' = journal /\ failing' = {}
  BY <1>2
<1>. QED BY <1>1, <1>2, <1>3, DepositNext

\* The blob is what there is to say of its position.
LEMMA KeepBlobLedger ==
    ASSUME Shaped, Ledger, NEW x, KeepBlob(x)
    PROVE  Ledger'
<1>. PICK r : r = BlobRec(x.at, x.body, "kept") OBVIOUS
<1>1. Classify(x) /\ Deposit(stack, {r}) /\ UNCHANGED <<source, todo, failing, journal>>
  BY DEF KeepBlob
<1>2. x.at \in Seq(Nat) /\ x.body \in Content
  BY <1>1, ItemFacts DEF Classify
<1>3. r \in RecordType /\ r.kind = "blob" /\ r.at = x.at
  BY <1>2, RecordsTyped DEF BlobRec
<1>4. Account({r}, x.at)
  BY <1>3, AccountOne
<1>. QED BY <1>1, <1>4, RecordedLedger

\* So are the two records of a refused container.
LEMMA RefuseContainerLedger ==
    ASSUME Shaped, Ledger, NEW x, RefuseContainer(x)
    PROVE  Ledger'
<1>1. /\ Classify(x) /\ Deposit(stack, Rejection(x.at, x.body))
      /\ UNCHANGED <<source, todo, failing, journal>>
  BY DEF RefuseContainer
<1>2. x.at \in Seq(Nat) /\ x.body \in Content
  BY <1>1, ItemFacts DEF Classify
<1>3. Account(Rejection(x.at, x.body), x.at)
  BY <1>2, AccountRefused
<1>. QED BY <1>1, <1>3, RecordedLedger

\* ... or entered.
LEMMA EnterContainerLedger ==
    ASSUME Shaped, Ledger, NEW x, EnterContainer(x)
    PROVE  Ledger'
<1>. DEFINE shape == Shape[x.body]
            kind == IF shape \in ArchiveShapes THEN "archive" ELSE "mail"
            phase == IF kind = "archive" THEN (IF shape = "zst" THEN "unpacking" ELSE "listing") ELSE "parts"
<1>. PICK f : f = Frame(kind, x.at, x.body, x.depth, phase) OBVIOUS
<1>1. Classify(x) /\ stack' = Append(stack, f) /\ UNCHANGED <<source, todo, failing, outgoing, journal>>
  BY DEF EnterContainer
<1>2. x.depth \in Nat /\ outgoing = {} /\ item = {x} /\ item' = {}
  BY <1>1, ClassifyFacts DEF Classify
<1>3. /\ Waiting(stack, journal, todo, source) /\ x.at = Position(stack, todo)
      /\ Nested(stack) /\ failing = {} /\ x.at \in Seq(Nat) /\ x.body \in Content
  BY <1>2, ItemFacts
<1>4. f \in FrameType /\ f.kind = kind /\ f.at = x.at
  BY <1>2, <1>3, FrameMade
<1>5. f.next = 1 /\ f.buffer = {} /\ IsContainer(f)
  <2>1. f.next = 1 /\ f.buffer = {} BY DEF Frame
  <2>. QED BY <1>4, <2>1 DEF IsContainer
<1>6. Handled(f) = 0
  BY <1>5 DEF Handled
<1>. PICK s : s = stack' OBVIOUS
<1>7. s # <<>> /\ Last(s) = f /\ Front(s) = stack
  <2>1. stack \in Seq(FrameType) BY <1>3 DEF Nested
  <2>. QED BY <1>1, <1>4, <2>1, TopOf
<1>8. Holds(f, journal, todo, source, Handled(f))
  <2>1. Partial({}, f.at, 0) BY SoundEmpty DEF Partial
  <2>. QED BY <1>5, <1>6, <2>1 DEF Holds
<1>9. Working(s, journal, todo, source)
  BY <1>3, <1>4, <1>5, <1>7, <1>8 DEF Working
<1>10. Ready(s, journal, todo, source)
  BY <1>7, <1>9 DEF Ready
<1>11. Records' = journal /\ failing' = {}
  BY <1>1, <1>2, <1>3 DEF Records
<1>. QED BY <1>1, <1>2, <1>10, <1>11, IdleNext

-----------------------------------------------------------------------------
\* Archives.  What is read and staged changes no books.
LEMMA FrameIdle ==
    ASSUME Shaped, NEW kinds, NEW phase, InFrame(kinds, phase)
    PROVE  /\ Idle /\ stack # <<>> /\ Nested(stack) /\ Top.kind \in kinds /\ Top.phase = phase
           /\ Top = Last(stack)
BY DEF InFrame, Shaped, Top

\* A failure of members(), whatever was charged before it.
LEMMA ArchiveFails ==
    ASSUME Shaped, Ledger, NEW phase, InFrame({"archive"}, phase), NEW x, FailMembers(x),
           SameFrames(stack, stack'), SameBooks(stack, stack'),
           UNCHANGED <<source, todo, item, outgoing, journal>>
    PROVE  Ledger'
<1>1. Idle /\ stack # <<>> /\ IsContainer(Top)
  BY ArchiveFacts DEF InFrame
<1>2. Fail(x)
  BY DEF FailMembers
<1>. QED BY <1>1, <1>2, IdleFails

\* members() goes on to its next phase.
LEMMA ArchiveAdvances ==
    ASSUME Shaped, Ledger, NEW phase, InFrame({"archive"}, phase), phase # "parts",
           NEW next \in {"listing", "extracting", "staging", "parts"}, stack' = Advance(next),
           UNCHANGED <<source, todo, item, failing, outgoing, journal>>
    PROVE  Ledger'
<1>1. Idle /\ stack # <<>> /\ Nested(stack) /\ Top.phase # "parts"
  BY FrameIdle
<1>2. SameFrames(stack, stack') /\ SameBooks(stack, stack')
  BY <1>1, BooksAdvanced
<1>. QED BY <1>1, <1>2, IdleStays

\* A stack that is left alone keeps its books.
LEMMA StackSame ==
    ASSUME Shaped, stack' = stack
    PROVE  SameFrames(stack, stack') /\ SameBooks(stack, stack')
BY BooksSame DEF Shaped

\* _open_tar unpacks or fails.
LEMMA UnpackStreamLedger ==
    ASSUME Shaped, Ledger, UnpackStream
    PROVE  Ledger'
<1>1. /\ InFrame({"archive"}, "unpacking") /\ UNCHANGED <<source, todo, item, outgoing, journal>>
  BY DEF UnpackStream
<1>2. CASE FailMembers(Failure("container size", None)) /\ UNCHANGED stack
  BY <1>1, <1>2, StackSame, ArchiveFails
<1>3. CASE stack' = Advance("listing") /\ UNCHANGED failing
  BY <1>1, <1>3, ArchiveAdvances
<1>. QED BY <1>2, <1>3 DEF UnpackStream

\* The listing is accepted or fails.
LEMMA ListArchiveLedger ==
    ASSUME Shaped, Ledger, ListArchive
    PROVE  Ledger'
<1>1. /\ InFrame({"archive"}, "listing") /\ UNCHANGED <<source, todo, item, outgoing, journal>>
  BY DEF ListArchive
<1>2. CASE (\E x \in ListingLimits : FailMembers(x)) /\ UNCHANGED stack
  <2>1. PICK x \in ListingLimits : FailMembers(x) BY <1>2
  <2>. QED BY <1>1, <1>2, <2>1, StackSame, ArchiveFails
<1>3. CASE stack' = Advance("staging") /\ UNCHANGED failing
  BY <1>1, <1>3, ArchiveAdvances
<1>4. CASE stack' = Advance("extracting") /\ UNCHANGED failing
  BY <1>1, <1>4, ArchiveAdvances
<1>. QED BY <1>2, <1>3, <1>4 DEF ListArchive

\* The threads of an extraction touch private files only; its end advances or fails.
LEMMA ExtractionLedger ==
    ASSUME Shaped, Ledger, NEW p \in private,
           \/ \E i \in DOMAIN p.written : CheckChunk(p, i)
           \/ \E c \in p.pending : WriteChunk(p, c)
           \/ EndExtraction(p)
    PROVE  Ledger'
<1>1. CASE UNCHANGED <<source, todo, stack, item, failing, outgoing, journal>>
  <2>1. Records' = Records BY <1>1 DEF Records
  <2>2. failing # {} => outgoing' = {} BY <1>1 DEF Ledger
  <2>. QED BY <1>1, <2>1, <2>2, LedgerSame
<1>2. CASE EndExtraction(p)
  <2>1. /\ InFrame({"archive"}, "extracting") /\ UNCHANGED <<source, todo, item, outgoing, journal>>
    BY <1>2 DEF EndExtraction
  <2>2. CASE (\E x : FailMembers(x)) /\ UNCHANGED stack
    <3>1. PICK x : FailMembers(x) BY <2>2
    <3>. QED BY <2>1, <2>2, <3>1, StackSame, ArchiveFails
  <2>3. CASE stack' = Advance("staging") /\ UNCHANGED failing
    BY <2>1, <2>3, ArchiveAdvances
  <2>. QED BY <1>2, <2>2, <2>3 DEF EndExtraction
<1>. QED BY <1>1, <1>2 DEF CheckChunk, WriteChunk

\* A member is staged and charged, or fails, with or without charges outside its archive.
LEMMA StageMemberLedger ==
    ASSUME Shaped, Ledger, StageMember
    PROVE  Ledger'
<1>. DEFINE bytes == Size[Inside[Top.next].body]
<1>1. /\ InFrame({"archive"}, "staging") /\ Top.next <= Len(Inside)
      /\ UNCHANGED <<source, todo, item, outgoing, journal>>
  BY DEF StageMember
<1>2. /\ Idle /\ stack # <<>> /\ Nested(stack) /\ Last(stack).phase # "parts" /\ Top.kind = "archive"
  BY <1>1, FrameIdle
<1>3. bytes \in Nat
  <2>1. /\ Top.next \in DOMAIN Inside /\ Inside = Parts[Top.body] /\ Top.body \in Content
        /\ Shape[Top.body] \in ArchiveShapes
    BY <1>1, <1>2, TopFacts DEF Inside
  <2>2. Inside[Top.next].body \in Content BY <2>1, ExpansionAssumption
  <2>. QED BY <2>2, ExpansionAssumption
<1>4. \/ (\E x : FailMembers(x)) /\ UNCHANGED stack
      \/ \E x : FailMembers(x) /\ stack' = ChargedOutside(x.owner, bytes)
      \/ stack' = Stepped(ChargedStack(bytes)) /\ UNCHANGED failing
  BY DEF StageMember
<1>. HIDE DEF bytes
<1>5. CASE (\E x : FailMembers(x)) /\ UNCHANGED stack
  <2>1. PICK x : FailMembers(x) BY <1>5
  <2>. QED BY <1>1, <1>5, <2>1, StackSame, ArchiveFails
<1>6. CASE \E x : FailMembers(x) /\ stack' = ChargedOutside(x.owner, bytes)
  <2>1. PICK x : FailMembers(x) /\ stack' = ChargedOutside(x.owner, bytes) BY <1>6
  <2>2. SameFrames(stack, stack') /\ SameBooks(stack, stack') BY <1>2, <1>3, <2>1, BooksCharged
  <2>. QED BY <1>1, <2>1, <2>2, ArchiveFails
<1>7. CASE stack' = Stepped(ChargedStack(bytes)) /\ UNCHANGED failing
  <2>1. SameFrames(stack, stack') /\ SameBooks(stack, stack') BY <1>2, <1>3, <1>7, StagedBooks
  <2>. QED BY <1>1, <1>2, <1>7, <2>1, IdleStays
<1>. QED BY <1>4, <1>5, <1>6, <1>7

\* The last check of an archive.
LEMMA CheckArchiveLedger ==
    ASSUME Shaped, Ledger, CheckArchive
    PROVE  Ledger'
<1>1. /\ InFrame({"archive"}, "staging") /\ private' = {}
      /\ UNCHANGED <<source, todo, item, outgoing, journal>>
  BY DEF CheckArchive
<1>2. CASE Fail(Failure("corrupt", None)) /\ UNCHANGED stack
  <2>1. FailMembers(Failure("corrupt", None)) BY <1>1, <1>2 DEF FailMembers, RemovePrivate
  <2>. QED BY <1>1, <1>2, <2>1, StackSame, ArchiveFails
<1>3. CASE stack' = Advance("parts") /\ UNCHANGED failing
  BY <1>1, <1>3, ArchiveAdvances
<1>. QED BY <1>2, <1>3 DEF CheckArchive

\* An OSError while an archive is read.
LEMMA FailArchiveLedger ==
    ASSUME Shaped, Ledger, FailArchive
    PROVE  Ledger'
<1>1. FailMembers(Failure("corrupt", None)) /\ UNCHANGED <<source, todo, stack, item, outgoing, journal>>
  BY DEF FailArchive
<1>2. PICK phase \in {"unpacking", "listing", "staging"} : InFrame({"archive"}, phase)
  BY DEF FailArchive
<1>. QED BY <1>1, <1>2, StackSame, ArchiveFails

-----------------------------------------------------------------------------
\* Parts.  The next one is at hand, whatever is charged on the way.
LEMMA PartWaits ==
    ASSUME Shaped, Ledger, Idle, stack # <<>>, Top.phase = "parts",
           NEW s, SameFrames(stack, s), SameBooks(stack, s)
    PROVE  /\ Waiting(Stepped(s), journal, todo, source) /\ Nested(Stepped(s))
           /\ Position(Stepped(s), todo) = PartAt
           /\ todo \in Nat /\ todo - 1 > 0 /\ Records = journal
<1>1. /\ Ready(stack, journal, todo, source) /\ Records = journal /\ Nested(stack) /\ todo \in Nat
      /\ source \in Seq(Content) /\ DOMAIN source = 1 .. Len(source)
  BY IdleFacts
<1>2. Ready(s, journal, todo, source) /\ Nested(s)
  BY <1>1, ReadyAlike, NestedAlike
<1>3. s # <<>> /\ Last(s).phase = "parts" /\ Last(s).at = Top.at /\ Last(s).next = Top.next
  <2>. PICK n : n = Len(stack) OBVIOUS
  <2>1. n \in Nat /\ Top = stack[n] /\ n \in 1 .. n /\ Len(stack) = n BY TopFacts
  <2>2. /\ Len(s) = n /\ s \in Seq(FrameType) /\ s[n].at = Top.at
        /\ s[n].phase = "parts" /\ s[n].next = Top.next
    BY <2>1 DEF SameFrames, SameBooks, Alike
  <2>3. s # <<>> BY <2>1, <2>2, EmptySeq
  <2>. QED BY <2>2, <2>3 DEF Last
<1>4. /\ Waiting(Stepped(s), journal, todo, source) /\ Nested(Stepped(s))
      /\ Position(Stepped(s), todo) = PartAt
  BY <1>1, <1>2, <1>3, Fetched DEF PartAt
<1>5. todo - 1 > 0
  <2>1. todo - 1 \in DOMAIN source BY <1>4 DEF Waiting
  <2>2. Len(source) \in Nat BY <1>1, LenProperties
  <2>. QED BY <1>1, <2>1, <2>2
<1>. QED BY <1>1, <1>4, <1>5

\* It is staged, ...
LEMMA PartStagedLedger ==
    ASSUME Shaped, Ledger, Idle, stack # <<>>, Top.phase = "parts",
           NEW s, SameFrames(stack, s), SameBooks(stack, s), stack' = Stepped(s),
           NEW body, NEW depth, NEW whole, item' = Pick(PartAt, body, depth, whole),
           UNCHANGED <<source, todo, failing, outgoing, journal>>
    PROVE  Ledger'
<1>1. /\ Waiting(stack', journal, todo, source) /\ Position(stack', todo) = PartAt
      /\ Records = journal
  BY PartWaits
<1>. PICK x : x = [at |-> PartAt, body |-> body, depth |-> depth, whole |-> whole] OBVIOUS
<1>2. item' = {x} /\ x.at = PartAt
  BY DEF Pick
<1>3. Records' = journal /\ failing' = {}
  BY <1>1 DEF Records, Idle
<1>. QED BY <1>1, <1>2, <1>3, ItemNext

\* A staged member is handed on.
LEMMA NextMemberLedger ==
    ASSUME Shaped, Ledger, NextMember
    PROVE  Ledger'
<1>1. /\ InFrame({"archive"}, "parts") /\ stack' = Stepped(stack)
      /\ item' = Pick(PartAt, Inside[Top.next].body, Top.depth + 1, FALSE)
      /\ UNCHANGED <<source, todo, failing, outgoing, journal>>
  BY DEF NextMember
<1>2. /\ Idle /\ stack # <<>> /\ Top.phase = "parts" /\ Nested(stack)
  BY <1>1, FrameIdle
<1>3. SameFrames(stack, stack) /\ SameBooks(stack, stack)
  BY <1>2, BooksSame
<1>. QED BY <1>1, <1>2, <1>3, PartStagedLedger

\* ... or its failure is all there is to say.
LEMMA LeafRecordedLedger ==
    ASSUME Shaped, Ledger, AtLeaf, NEW reason \in {"unreadable", "depth", "undecoded"} \cup LimitReasons,
           Deposit(Stepped(stack), {FailureRec(PartAt, reason)}),
           UNCHANGED <<source, todo, item, failing, journal>>
    PROVE  Ledger'
<1>1. /\ Idle /\ stack # <<>> /\ Top.phase = "parts" /\ Nested(stack)
  BY FrameIdle DEF AtLeaf
<1>2. SameFrames(stack, stack) /\ SameBooks(stack, stack)
  BY <1>1, BooksSame
<1>. PICK s : s = Stepped(stack) OBVIOUS
<1>. PICK T : T = {FailureRec(PartAt, reason)} OBVIOUS
<1>. PICK t : t = todo OBVIOUS
<1>3. /\ Waiting(s, journal, t, source) /\ Nested(s) /\ Position(s, t) = PartAt
      /\ t \in Nat /\ t - 1 > 0
  BY <1>1, <1>2, PartWaits
<1>4. Account(T, Position(s, t))
  <2>1. Content # {} BY <1>1, TopFacts
  <2>2. PartAt \in Seq(Nat) BY LeafFacts
  <2>3. Account({FailureRec(PartAt, reason)}, PartAt) BY <2>1, <2>2, FailureAccount
  <2>. QED BY <1>3, <2>3
<1>5. /\ Deposit(s, T) /\ outgoing = {} /\ journal' = journal /\ source' = source /\ todo' = t
      /\ item' = {} /\ failing' = {}
  BY <1>1 DEF Idle
<1>. QED BY <1>3, <1>4, <1>5, DepositNext

\* A message with too many leaves fails as a whole.
LEMMA TooManyLeavesLedger ==
    ASSUME Shaped, Ledger, TooManyLeaves
    PROVE  Ledger'
<1>1. /\ AtLeaf /\ Fail(Failure("member count", None)) /\ IsContainer(Top)
      /\ UNCHANGED <<source, todo, stack, item, outgoing, journal>>
  BY DEF TooManyLeaves, Overfull, IsContainer
<1>2. Idle /\ stack # <<>>
  BY <1>1, FrameIdle DEF AtLeaf
<1>. QED BY <1>1, <1>2, StackSame, IdleFails

\* A leaf that is too deep or undecoded is recorded and passed.
LEMMA PassLeafLedger ==
    ASSUME Shaped, Ledger, PassLeaf
    PROVE  Ledger'
<1>. DEFINE reason == IF LeafTooDeep THEN "depth" ELSE "undecoded"
<1>1. /\ AtLeaf /\ Deposit(Stepped(stack), {FailureRec(PartAt, reason)})
      /\ UNCHANGED <<source, todo, item, failing, journal>>
  BY DEF PassLeaf, LeafFailure
<1>2. reason \in {"unreadable", "depth", "undecoded"} \cup LimitReasons
  OBVIOUS
<1>. HIDE DEF reason
<1>. QED BY <1>1, <1>2, LeafRecordedLedger

\* A leaf is recorded with the limit it exceeds, fails its container, or is staged.
LEMMA StageLeafLedger ==
    ASSUME Shaped, Ledger, StageLeaf
    PROVE  Ledger'
<1>1. /\ AtLeaf /\ Leaf.body # NoBody /\ UNCHANGED <<source, todo, journal>>
  BY DEF StageLeaf
<1>2. /\ Idle /\ stack # <<>> /\ Top.phase = "parts" /\ Nested(stack)
  BY <1>1, FrameIdle DEF AtLeaf
<1>. PICK bytes : bytes = Size[Leaf.body] OBVIOUS
<1>3. bytes \in Nat
  BY <1>1, LeafFacts, ExpansionAssumption
<1>4. CASE /\ \E x \in PayloadLimits(bytes) : Deposit(Stepped(stack), {FailureRec(PartAt, x.reason)})
           /\ UNCHANGED <<item, failing>>
  <2>1. PICK x \in PayloadLimits(bytes) : Deposit(Stepped(stack), {FailureRec(PartAt, x.reason)})
    BY <1>4
  <2>2. x.reason \in LimitReasons BY <1>2, <2>1, PayloadOwned
  <2>. QED BY <1>1, <1>4, <2>1, <2>2, LeafRecordedLedger
<1>5. CASE /\ Containers # {} /\ \E x \in PayloadLimits(bytes) : Fail(x)
           /\ UNCHANGED <<stack, item, outgoing>>
  <2>1. PICK x \in PayloadLimits(bytes) : Fail(x) BY <1>5
  <2>2. IsContainer(Top)
    <3>1. PICK i \in DOMAIN stack : IsContainer(stack[i]) BY <1>5 DEF Containers
    <3>2. /\ Top = stack[Len(stack)] /\ DOMAIN stack = 1 .. Len(stack)
          /\ ~IsContainer(Top) => Len(stack) = 1
      BY <1>2, TopFacts
    <3>. QED BY <3>1, <3>2
  <2>. QED BY <1>1, <1>2, <1>5, <2>1, <2>2, StackSame, IdleFails
<1>6. CASE /\ stack' = Stepped(ChargedStack(bytes))
           /\ item' = Pick(PartAt, Leaf.body, Top.depth + Leaf.hops, Leaf.whole)
           /\ UNCHANGED <<failing, outgoing>>
  <2>. PICK s : s = ChargedStack(bytes) OBVIOUS
  <2>1. SameFrames(stack, s) /\ SameBooks(stack, s) BY <1>2, <1>3, BooksCharged
  <2>2. stack' = Stepped(s) BY <1>6
  <2>. QED BY <1>1, <1>2, <1>6, <2>1, <2>2, PartStagedLedger
<1>. QED BY <1>4, <1>5, <1>6 DEF StageLeaf

\* A source file that is given up is accounted for by its failure.
LEMMA GivenUpPast ==
    ASSUME NEW J, NEW t \in Nat, t - 1 > 0, NEW src, Begun(J, t, src),
           NEW r \in RecordType, r.kind = "failure", r.at = <<t - 1>>
    PROVE  Past(J \cup {r}, t, src, t - 1)
<1>. PICK n : n = t - 1 OBVIOUS
<1>1. n \in Nat /\ t - 2 \in Int /\ t - 2 < t - 1 /\ r.at = <<n>>
  OBVIOUS
<1>2. r.at # <<>> /\ r.at[1] = t - 1
  BY <1>1, SourceAt
<1>3. Past(J, t, src, t - 2)
  BY DEF Begun
<1>4. Past(J \cup {r}, t, src, t - 2) /\ Of(J \cup {r}, t - 1) = Of(J, t - 1) \cup {r}
  <2>1. \A s \in {r} : s.at # <<>> /\ s.at[1] = t - 1 BY <1>2
  <2>2. PICK T : T = {r} OBVIOUS
  <2>3. PICK k \in Int : k = t - 2 BY <1>1
  <2>4. Past(J, t, src, k) /\ k < t - 1 /\ t - 1 > 0 /\ \A s \in T : s.at # <<>> /\ s.at[1] = t - 1
    BY <1>1, <1>3, <2>1, <2>2, <2>3
  <2>5. Past(J \cup T, t, src, k) /\ Of(J \cup T, t - 1) = Of(J, t - 1) \cup T
    BY ONLY <2>4, t \in Nat, PastMore
  <2>. QED BY <2>2, <2>3, <2>5
<1>5. Finalized(Of(J, n) \cup {r}, n, src)
  <2>1. CASE Of(J, n) = {}
    <3>1. Account({r}, <<n>>) BY <1>1, AccountOne
    <3>2. Of(J, n) \cup {r} = {r} BY <2>1
    <3>. QED BY <1>1, <3>1, <3>2, FinalizedWhole
  <2>2. CASE Of(J, n) # {}
    <3>1. PICK k : Shape[src[n]] = "mbox" /\ Partial(Of(J, n), <<n>>, k) BY <2>2 DEF Begun
    <3>. QED BY <1>1, <3>1, FinalizedGivenUp
  <2>. QED BY <2>1, <2>2
<1>. QED BY <1>4, <1>5, PastLast

\* A source file that cannot be read on is given up, with all that is on the stack.
LEMMA GiveUpSourceLedger ==
    ASSUME Shaped, Ledger, GiveUpSource
    PROVE  Ledger'
<1>1. /\ AtLeaf \/ (item # {} /\ outgoing = {})
      /\ Deposit(<<>>, {FailureRec(<<todo - 1>>, "unreadable")}) /\ item' = {}
      /\ UNCHANGED <<source, todo, failing, journal>>
  BY DEF GiveUpSource
<1>2. /\ Begun(journal, todo, source) /\ failing = {} /\ outgoing = {} /\ Content # {}
      /\ todo \in Nat /\ todo - 1 > 0
  <2>1. CASE AtLeaf
    <3>1. Idle /\ stack # <<>> /\ Nested(stack) BY <2>1, FrameIdle DEF AtLeaf
    <3>2. /\ Ready(stack, journal, todo, source) /\ todo \in Nat /\ source \in Seq(Content)
          /\ DOMAIN source = 1 .. Len(source)
      BY <3>1, IdleFacts
    <3>3. Begun(journal, todo, source) BY <3>1, <3>2, WorkingBegun DEF Ready
    <3>4. todo - 1 > 0
      <4>1. todo - 1 \in DOMAIN source BY <3>3 DEF Begun
      <4>2. Len(source) \in Nat BY <3>2, LenProperties
      <4>. QED BY <3>2, <4>1, <4>2
    <3>. QED BY <3>1, <3>2, <3>3, <3>4, TopFacts DEF Idle
  <2>2. CASE item # {} /\ outgoing = {}
    <3>1. PICK x : item = {x} BY <2>2 DEF Shaped, ItemHeld
    <3>2. /\ Waiting(stack, journal, todo, source) /\ Nested(stack) /\ failing = {}
          /\ todo \in Nat /\ todo - 1 > 0 /\ x.body \in Content
      BY <2>2, <3>1, ItemFacts
    <3>. QED BY <2>2, <3>2, WaitingBegun
  <2>. QED BY <1>1, <2>1, <2>2
<1>. PICK n : n = todo - 1 OBVIOUS
<1>. PICK r : r = FailureRec(<<n>>, "unreadable") OBVIOUS
<1>3. r \in RecordType /\ r.kind = "failure" /\ r.at = <<todo - 1>>
  <2>. PICK q : q = <<n>> OBVIOUS
  <2>1. q \in Seq(Nat) BY <1>2, SourceAt
  <2>2. r = FailureRec(q, "unreadable") /\ r.at = <<todo - 1>> BY DEF FailureRec
  <2>3. \E reason \in {"unreadable", "depth", "undecoded"} \cup LimitReasons : r = FailureRec(q, reason)
    BY <2>2
  <2>4. r \in RecordType /\ r.kind = "failure" BY <1>2, <2>1, <2>3, FailureAccount
  <2>. QED BY <2>2, <2>4
<1>4. Past(journal \cup {r}, todo, source, todo - 1)
  BY <1>2, <1>3, GivenUpPast
<1>5. stack' = <<>> /\ Records' = journal \cup {r}
  BY <1>1 DEF Deposit, Records
<1>6. Ready(stack', Records', todo, source)
  BY <1>4, <1>5 DEF Ready
<1>. QED BY <1>1, <1>2, <1>6, IdleNext

-----------------------------------------------------------------------------
\* Containers.  One whose parts are all accounted for is itself.
LEMMA CloseContainerLedger ==
    ASSUME Shaped, Ledger, CloseContainer
    PROVE  Ledger'
<1>1. /\ InFrame({"archive", "mail", "source"}, "parts") /\ Top.next > Len(Inside) /\ IsContainer(Top)
      /\ Deposit(Below, Top.buffer \cup {ContainerRec(Top.at, Top.body, "expanded")})
      /\ UNCHANGED <<source, todo, item, failing, journal>>
  BY DEF CloseContainer, AtEnd
<1>2. /\ Idle /\ stack # <<>> /\ Nested(stack) /\ Top.phase = "parts" /\ Top = Last(stack)
  BY <1>1, FrameIdle
<1>3. /\ Ready(stack, journal, todo, source) /\ todo \in Nat /\ source \in Seq(Content)
      /\ DOMAIN source = 1 .. Len(source)
  BY <1>2, IdleFacts
<1>. PICK s : s = Below OBVIOUS
<1>. PICK t : t = todo OBVIOUS
<1>4. /\ Waiting(s, journal, t, source) /\ Top.at = Position(s, t) /\ Nested(s)
      /\ Partial(Top.buffer, Top.at, Handled(Top))
  BY <1>1, <1>2, <1>3, TopWaits DEF Below
<1>5. t \in Nat /\ t - 1 > 0
  <2>1. t - 1 \in DOMAIN source BY <1>4 DEF Waiting
  <2>2. Len(source) \in Nat BY <1>3, LenProperties
  <2>. QED BY <1>3, <2>1, <2>2
<1>. PICK T : T = Top.buffer \cup {ContainerRec(Top.at, Top.body, "expanded")} OBVIOUS
<1>6. Account(T, Position(s, t))
  <2>1. /\ Top.at \in Seq(Nat) /\ Top.body \in Content /\ Top.next \in Nat \ {0} /\ Len(Inside) \in Nat
        /\ Inside = Parts[Top.body]
    BY <1>2, TopFacts DEF Inside
  <2>. PICK k : k = Handled(Top) OBVIOUS
  <2>2. k \in Nat /\ k >= Len(Parts[Top.body]) BY <1>1, <1>2, <2>1 DEF Handled
  <2>3. Partial(Top.buffer, Top.at, k) BY <1>4
  <2>4. Account(Top.buffer \cup {ContainerRec(Top.at, Top.body, "expanded")}, Top.at)
    BY <2>1, <2>2, <2>3, AccountExpanded
  <2>. QED BY <1>4, <2>4
<1>7. /\ Deposit(s, T) /\ outgoing = {} /\ journal' = journal /\ source' = source /\ todo' = t
      /\ item' = {} /\ failing' = {}
  BY <1>1, <1>2 DEF Idle
<1>. QED BY <1>4, <1>5, <1>6, <1>7, DepositNext

\* A mailbox among the source files ends, and the source file with it.
LEMMA CloseMailboxLedger ==
    ASSUME Shaped, Ledger, CloseMailbox
    PROVE  Ledger'
<1>1. /\ InFrame({"archive", "mail", "source"}, "parts") /\ Top.next > Len(Inside) /\ ~IsContainer(Top)
      /\ stack' = Below /\ UNCHANGED <<source, todo, item, failing, outgoing, journal>>
  BY DEF CloseMailbox, AtEnd
<1>2. /\ Idle /\ stack # <<>> /\ Nested(stack) /\ Top.phase = "parts" /\ Top = Last(stack)
  BY <1>1, FrameIdle
<1>3. /\ Ready(stack, journal, todo, source) /\ todo \in Nat /\ source \in Seq(Content)
      /\ DOMAIN source = 1 .. Len(source) /\ Records = journal
  BY <1>2, IdleFacts
<1>4. /\ Len(stack) = 1 /\ Past(journal, todo, source, todo - 2) /\ todo - 1 \in DOMAIN source
      /\ Mailbox(Top, journal, todo, source, Handled(Top))
  BY <1>1, <1>2, <1>3 DEF Ready, Working, Holds
<1>5. stack' = <<>>
  BY <1>1, <1>2, <1>4, FrontFacts DEF Below
<1>. PICK n : n = todo - 1 OBVIOUS
<1>6. n \in Nat /\ source[n] \in Content /\ n \in DOMAIN source
  <2>1. Len(source) \in Nat BY <1>3, LenProperties
  <2>2. n \in 1 .. Len(source) BY <1>3, <1>4
  <2>. QED BY <1>3, <1>4, <2>1, <2>2, ElementOfSeq
<1>7. Finalized(Of(journal, n), n, source)
  <2>1. /\ Top.at = <<n>> /\ Top.body = source[n] /\ Shape[source[n]] = "mbox"
        /\ Partial(Of(journal, n), <<n>>, Handled(Top))
    BY <1>4 DEF Mailbox
  <2>2. /\ Top.next \in Nat \ {0} /\ Len(Inside) \in Nat /\ Inside = Parts[source[n]]
    BY <1>2, <2>1, TopFacts DEF Inside
  <2>. PICK k : k = Handled(Top) OBVIOUS
  <2>3. k \in Nat /\ k >= Len(Parts[source[n]]) BY <1>1, <1>2, <2>2 DEF Handled
  <2>4. Partial(Of(journal, n), <<n>>, k) BY <2>1
  <2>. QED BY <1>6, <2>1, <2>3, <2>4, FinalizedParts
<1>8. Past(journal, todo, source, todo - 1)
  BY <1>3, <1>4, <1>7, PastLast
<1>9. Ready(stack', journal, todo, source)
  BY <1>5, <1>8 DEF Ready
<1>10. Records' = journal /\ item' = {} /\ failing' = {}
  BY <1>1, <1>2, <1>3 DEF Idle, Records
<1>. QED BY <1>1, <1>9, <1>10, IdleNext

\* A failure leaves a container behind, or has found its own, which is refused.
LEMMA UnwindLedger ==
    ASSUME Shaped, Ledger, Unwind
    PROVE  Ledger'
<1>1. /\ failing # {} /\ stack # <<>> /\ IsContainer(Top)
      /\ UNCHANGED <<source, todo, item, journal>>
  BY DEF Unwind
<1>2. PICK x : failing = {x} /\ x.owner \in Places(stack) /\ item = {}
  BY <1>1, PrivateFacts DEF Shaped, FailureHeld
<1>. PICK b : b = Below OBVIOUS
<1>. PICK t : t = todo OBVIOUS
<1>3. outgoing = {} /\ Records = journal /\ Waiting(b, journal, t, source) /\ Top.at = Position(b, t)
  BY <1>1 DEF Ledger, Records
<1>4. Nested(stack) /\ Nested(b) /\ Places(stack) \subseteq Places(b) \cup {Top.at}
  BY <1>1, NestedBelow DEF Shaped, Below, Top
<1>5. CASE x.owner # Top.at /\ stack' = Below /\ UNCHANGED <<failing, outgoing>>
  <2>1. x.owner \in Places(b) BY <1>2, <1>4, <1>5
  <2>2. PICK i \in DOMAIN b : IsContainer(b[i]) BY <2>1 DEF Places
  <2>3. b # <<>> BY <2>2
  <2>4. IsContainer(Last(b))
    <3>1. DOMAIN b = 1 .. Len(b) /\ Last(b) = b[Len(b)] /\ Len(b) \in Nat /\ Len(b) > 0
      BY <1>4, <2>3, FrontFacts
    <3>2. Len(b) > 1 => IsContainer(b[Len(b)]) BY <1>4, <3>1 DEF Nested
    <3>. QED BY <2>2, <3>1, <3>2
  <2>5. Waiting(Front(b), journal, t, source) /\ Last(b).at = Position(Front(b), t)
    BY <1>3, <1>4, <2>3, <2>4, WaitingBelow
  <2>. PICK c : c = Front(b) OBVIOUS
  <2>6. /\ item' = {} /\ failing' # {} /\ outgoing' = {} /\ stack' # <<>> /\ c = Front(stack')
        /\ Waiting(c, Records', todo', source') /\ Last(stack').at = Position(c, todo')
    BY <1>1, <1>2, <1>3, <1>5, <2>3, <2>5 DEF Records
  <2>. QED BY <2>6, FailingNext
<1>6. CASE Deposit(Below, Rejection(Top.at, Top.body)) /\ failing' = {}
  <2>. PICK T : T = Rejection(Top.at, Top.body) OBVIOUS
  <2>1. Account(T, Position(b, t))
    <3>1. Top.at \in Seq(Nat) /\ Top.body \in Content BY <1>1, TopFacts
    <3>2. Account(Rejection(Top.at, Top.body), Top.at) BY <3>1, AccountRefused
    <3>. QED BY <1>3, <3>2
  <2>2. t \in Nat /\ t - 1 > 0
    <3>1. t - 1 \in DOMAIN source BY <1>3 DEF Waiting
    <3>2. source \in Seq(Content) BY ExpansionAssumption DEF Shaped
    <3>3. Len(source) \in Nat /\ DOMAIN source = 1 .. Len(source) BY <3>2, LenProperties
    <3>4. t \in 1 .. Len(source) + 1 BY DEF Shaped
    <3>. QED BY <3>1, <3>3, <3>4
  <2>3. /\ Deposit(b, T) /\ journal' = journal /\ source' = source /\ todo' = t
        /\ item' = {} /\ failing' = {}
    BY <1>1, <1>2, <1>6
  <2>. QED BY <1>3, <1>4, <2>1, <2>2, <2>3, DepositNext
<1>. QED BY <1>2, <1>5, <1>6 DEF Unwind, OnlyRejection

-----------------------------------------------------------------------------
\* No step of a run that is not restarted loses track.
LEMMA NextLedger ==
    ASSUME Shaped, Ledger, [Next /\ ~Restart]_vars
    PROVE  Ledger'
<1>1. CASE \E r \in outgoing : WriteRecord(r)
  BY <1>1, WriteRecordLedger
<1>2. CASE OpenMailbox \/ ReadSource
  BY <1>2, OpenMailboxLedger, ReadSourceLedger
<1>3. CASE \E x \in item : KeepBlob(x) \/ RefuseContainer(x) \/ EnterContainer(x)
  BY <1>3, KeepBlobLedger, RefuseContainerLedger, EnterContainerLedger
<1>4. CASE UnpackStream \/ ListArchive
  BY <1>4, UnpackStreamLedger, ListArchiveLedger
<1>5. CASE \E p \in private :
             \/ \E i \in DOMAIN p.written : CheckChunk(p, i)
             \/ \E c \in p.pending : WriteChunk(p, c)
             \/ EndExtraction(p)
  BY <1>5, ExtractionLedger
<1>6. CASE StageMember \/ CheckArchive \/ FailArchive \/ NextMember
  BY <1>6, StageMemberLedger, CheckArchiveLedger, FailArchiveLedger, NextMemberLedger
<1>7. CASE TooManyLeaves \/ PassLeaf \/ StageLeaf \/ GiveUpSource
  BY <1>7, TooManyLeavesLedger, PassLeafLedger, StageLeafLedger, GiveUpSourceLedger
<1>8. CASE CloseContainer \/ CloseMailbox \/ Unwind
  BY <1>8, CloseContainerLedger, CloseMailboxLedger, UnwindLedger
<1>9. CASE UNCHANGED vars
  <2>1. /\ UNCHANGED <<source, todo, stack, item, failing>> /\ Records' = Records
        /\ failing # {} => outgoing' = {}
    BY <1>9 DEF vars, Records, Ledger
  <2>. QED BY <2>1, LedgerSame
<1>. QED BY <1>1, <1>2, <1>3, <1>4, <1>5, <1>6, <1>7, <1>8, <1>9 DEF Next

-----------------------------------------------------------------------------
\* One attempt at discovery: any read may fail, but the process lives.
Attempt == Init /\ [][Next /\ ~Restart]_vars

\* An attempt keeps the ledger, for all contents, policies, failed reads and
\* interleavings.
THEOREM LedgerKept == Attempt => [](Shaped /\ Ledger)
<1>1. Init => Shaped /\ Ledger
  BY InitShaped, InitLedger
<1>2. Shaped /\ Ledger /\ [Next /\ ~Restart]_vars => Shaped' /\ Ledger'
  BY NextShaped, NextLedger
<1>. QED BY <1>1, <1>2, PTL DEF Attempt

\* What is written of a source file, and what surrounds each record of it.
LEMMA SurroundedBy ==
    ASSUME Shaped, Ledger, failing = {}, NEW r \in Records, NEW i \in 1 .. Len(r.at) - 1
    PROVE  \/ i = 1 /\ Shape[source[r.at[1]]] = "mbox"
           \/ Opened(Records, SubSeq(r.at, 1, i))
<1>. PICK n : n = r.at[1] OBVIOUS
<1>1. n \in 1 .. todo - 1 /\ r \in Of(Records, n)
  BY RecordsSound DEF Of
<1>2. Rooted(Of(Records, n), Level(n, source)) /\ r \in RecordType
  BY <1>1, RecordsSound DEF Sound
<1>3. Len(r.at) \in Nat
  BY <1>2, RecordAt
<1>4. CASE i >= Level(n, source)
  <2>1. Level(n, source) \in Nat BY DEF Level
  <2>2. i \in Level(n, source) .. Len(r.at) - 1 BY <1>3, <1>4, <2>1
  <2>3. Opened(Of(Records, n), SubSeq(r.at, 1, i)) BY <1>1, <1>2, <2>2 DEF Rooted
  <2>. QED BY <2>3 DEF Opened, Of
<1>5. CASE ~(i >= Level(n, source))
  <2>1. Shape[source[n]] = "mbox" /\ i = 1
    <3>1. CASE Shape[source[n]] = "mbox" BY <1>3, <1>5, <3>1 DEF Level
    <3>2. CASE Shape[source[n]] # "mbox" BY <1>3, <1>5, <3>2 DEF Level
    <3>. QED BY <3>1, <3>2
  <2>. QED BY <2>1
<1>. QED BY <1>4, <1>5

\* The journal changes by writing a record and in no other way.
LEMMA JournalOrWritten ==
    ASSUME [Next]_vars
    PROVE  source' = source /\ (journal' = journal \/ \E r \in outgoing : WriteRecord(r))
BY DEF Next, vars, OpenMailbox, ReadSource, KeepBlob, RefuseContainer, EnterContainer, UnpackStream,
       ListArchive, CheckChunk, WriteChunk, EndExtraction, StageMember, CheckArchive, FailArchive,
       NextMember, TooManyLeaves, PassLeaf, StageLeaf, GiveUpSource, CloseContainer, CloseMailbox,
       Unwind, WriteRecord, Restart

\* The order in which records are written keeps what surrounds them first.
LEMMA InsideNext ==
    ASSUME Shaped, Ledger, InsideExpanded, [Next /\ ~Restart]_vars
    PROVE  InsideExpanded'
<1>1. source' = source /\ (journal' = journal \/ \E r \in outgoing : WriteRecord(r))
  BY JournalOrWritten
<1>2. CASE journal' = journal
  BY <1>1, <1>2 DEF InsideExpanded
<1>3. CASE \E r \in outgoing : WriteRecord(r)
  <2>1. PICK r \in outgoing : WriteRecord(r) BY <1>3
  <2>2. failing = {} BY <2>1 DEF Ledger
  <2>3. \A s \in journal : SameId(r, s) => s = r BY <2>2, RecordsDistinct DEF Distinct, Records
  <2>4. journal' = journal \cup {r} BY <2>1, <2>3 DEF WriteRecord, Upsert
  <2>5. ASSUME NEW s \in journal', s.kind # "container", NEW n \in 1 .. Len(s.at) - 1
        PROVE  \/ n = 1 /\ Shape[source[s.at[1]]] = "mbox"
               \/ Opened(journal', SubSeq(s.at, 1, n))
    <3>1. CASE s \in journal
      <4>1. \/ n = 1 /\ Shape[source[s.at[1]]] = "mbox"
            \/ Opened(journal, SubSeq(s.at, 1, n))
        BY <2>5, <3>1 DEF InsideExpanded, Opened
      <4>. QED BY <2>4, <4>1 DEF Opened
    <3>2. CASE s = r
      <4>1. \/ n = 1 /\ Shape[source[s.at[1]]] = "mbox"
            \/ Opened(Records, SubSeq(s.at, 1, n))
        BY <2>2, <2>5, <3>2, SurroundedBy DEF Records
      <4>2. \A c \in outgoing : c.kind # "container"
        BY <2>1, <2>5, <3>2 DEF WriteRecord, ContainersFirst
      <4>. QED BY <2>4, <4>1, <4>2 DEF Opened, Records
    <3>. QED BY <2>4, <3>1, <3>2
  <2>. QED BY <1>1, <2>5 DEF InsideExpanded, Opened
<1>. QED BY <1>1, <1>2, <1>3

\* Whoever reads the journal of an attempt, at any moment, finds each occurrence
\* after the containers around it, all of them recorded as expanded.
THEOREM WrittenInside == Attempt => []InsideExpanded
<1>1. Init => InsideExpanded
  BY DEF Init, InsideExpanded
<1>2. (Shaped /\ Ledger) /\ InsideExpanded /\ [Next /\ ~Restart]_vars => InsideExpanded'
  BY InsideNext
<1>. QED BY <1>1, <1>2, LedgerKept, PTL DEF Attempt

\* The journal when discovery ends.
LEMMA AtTheEnd ==
    ASSUME Shaped, Ledger, Finished
    PROVE  /\ \A n \in DOMAIN source : Finalized(Of(journal, n), n, source)
           /\ \A r \in journal : /\ r.at \in Seq(Nat) /\ r.at # <<>>
                                 /\ r.at[1] \in DOMAIN source /\ r \in Of(journal, r.at[1])
<1>1. /\ Ready(stack, journal, todo, source) /\ todo \in Nat /\ stack = <<>> /\ source \in Seq(Content)
      /\ DOMAIN source = 1 .. Len(source) /\ todo > Len(source)
  BY IdleFacts DEF Finished
<1>2. todo - 1 = Len(source)
  <2>1. Len(source) \in Nat /\ todo \in 1 .. Len(source) + 1 BY <1>1, LenProperties DEF Shaped
  <2>. QED BY <1>1, <2>1
<1>3. Past(journal, todo, source, todo - 1)
  BY <1>1 DEF Ready
<1>4. \A n \in DOMAIN source : Finalized(Of(journal, n), n, source)
  BY <1>1, <1>2, <1>3 DEF Past
<1>5. \A r \in journal : r.at \in Seq(Nat)
  BY RecordAt DEF Shaped
<1>. QED BY <1>1, <1>2, <1>3, <1>4, <1>5 DEF Past, Of

\* A container that could not be processed is kept whole, with nothing of what it
\* contains in the journal, wherever inside it the failure arose.
THEOREM KeptOrExpanded == Attempt => []AllOrNothing
<1>1. Shaped /\ Ledger => AllOrNothing
  <2>. SUFFICES ASSUME Shaped, Ledger, Finished, NEW c \in journal,
                       c.kind = "container", c.status = "unprocessed"
                PROVE  /\ BlobRec(c.at, c.body, "unprocessed") \in journal
                       /\ \A r \in journal : ~IsStrictPrefix(c.at, r.at)
    BY DEF AllOrNothing
  <2>. PICK n : n = c.at[1] OBVIOUS
  <2>1. /\ c.at \in Seq(Nat) /\ c.at # <<>> /\ c \in Of(journal, n) /\ Closed(Of(journal, n))
    BY AtTheEnd DEF Finalized, Sound
  <2>2. /\ BlobRec(c.at, c.body, "unprocessed") \in Of(journal, n)
        /\ \A r \in Of(journal, n) : ~IsStrictPrefix(c.at, r.at)
    BY <2>1 DEF Closed, Refused
  <2>3. ASSUME NEW r \in journal, IsStrictPrefix(c.at, r.at) PROVE FALSE
    <3>1. r.at \in Seq(Nat) BY AtTheEnd
    <3>2. r.at[1] = n
      <4>1. \A i \in 1 .. Len(c.at) : r.at[i] = c.at[i] BY <2>1, <2>3, <3>1, InsideFacts
      <4>2. Len(c.at) \in Nat /\ Len(c.at) > 0 BY <2>1, LenProperties, EmptySeq
      <4>3. 1 \in 1 .. Len(c.at) BY <4>2
      <4>. QED BY <4>1, <4>3
    <3>. QED BY <2>2, <2>3, <3>2 DEF Of
  <2>. QED BY <2>2, <2>3 DEF Of
<1>. QED BY <1>1, LedgerKept, PTL

\* Every member and leaf of what was expanded has a record when an attempt ends,
\* whatever failed on the way.
THEOREM EverythingRecorded == Attempt => []NothingLost
<1>1. Shaped /\ Ledger => NothingLost
  <2>. SUFFICES ASSUME Shaped, Ledger, Finished, NEW c \in journal,
                       c.kind = "container", c.status = "expanded", NEW i \in DOMAIN Parts[c.body]
                PROVE  Recorded(Append(c.at, i))
    BY DEF NothingLost
  <2>. PICK n : n = c.at[1] OBVIOUS
  <2>1. c \in Of(journal, n) /\ Complete(Of(journal, n)) BY AtTheEnd DEF Finalized, Sound
  <2>2. Has(Of(journal, n), Append(c.at, i)) BY <2>1 DEF Complete
  <2>. QED BY <2>2 DEF Has, Of, Recorded
<1>. QED BY <1>1, LedgerKept, PTL

\* A record is added to the journal of an attempt and replaces nothing in it.
THEOREM NothingOverwritten == Attempt => RecordsStay
<1>1. Shaped /\ Ledger /\ [Next /\ ~Restart]_vars => journal \subseteq journal'
  <2>. SUFFICES ASSUME Shaped, Ledger, [Next /\ ~Restart]_vars PROVE journal \subseteq journal' OBVIOUS
  <2>1. CASE \E r \in outgoing : WriteRecord(r)
    <3>1. PICK r \in outgoing : WriteRecord(r) BY <2>1
    <3>2. failing = {} BY <3>1 DEF Ledger
    <3>3. \A s \in journal : SameId(r, s) => s = r BY <3>2, RecordsDistinct DEF Distinct, Records
    <3>. QED BY <3>1, <3>3 DEF WriteRecord, Upsert
  <2>. QED BY <2>1, JournalOrWritten
<1>2. (Shaped /\ Ledger) /\ [Next /\ ~Restart]_vars => [journal \subseteq journal']_vars
  BY <1>1
<1>. QED BY <1>2, LedgerKept, PTL DEF Attempt, RecordsStay
=============================================================================
