---------------------------- MODULE RestartProofs -----------------------------
(***************************************************************************)
(* What the journal of the expansion says however often the process dies   *)
(* and discovery begins again, with other faults each time: every source   *)
(* file has its record in the end, a record names the content its place    *)
(* leads to and is alone of its kind there, and an occurrence is found     *)
(* with all the containers around it.                                      *)
(***************************************************************************)
EXTENDS LedgerProofs

\* A record that names what its place leads to; one that is found in S with the
\* containers around it, from level m on.
True(r, src) == r.kind # "failure" => r.body = BodyAt(src, r.at)
Surrounds(S, pos) == \E c \in S : c.kind = "container" /\ c.at = pos
Found(r, S, m) == r.kind # "container" => \A n \in m .. Len(r.at) - 1 : Surrounds(S, SubSeq(r.at, 1, n))

\* An open container and its tentative records.
Tentative(f, src) ==
    /\ f.body = BodyAt(src, f.at)
    /\ \A r \in f.buffer : IsStrictPrefix(f.at, r.at) /\ True(r, src) /\ Found(r, f.buffer, Len(f.at) + 1)

\* The i-th frame of a stack s on source file t - 1: it is the part that the frame
\* below is at.
InPlace(s, i, t, src) ==
    /\ Tentative(s[i], src) /\ Len(s[i].at) = i
    /\ s[i].at = IF i = 1 THEN <<t - 1>> ELSE Append(s[i - 1].at, s[i - 1].next - 1)
    /\ i < Len(s) \/ ~IsContainer(s[i]) => s[i].phase = "parts"
    /\ ~IsContainer(s[i]) => Shape[s[i].body] = "mbox"
InOrder(s, t, src) == \A i \in DOMAIN s : InPlace(s, i, t, src)

Kept(K, src) == \A r \in K : True(r, src) /\ Found(r, K, Level(r.at[1], src))

\* There is a record for source file n, or for each message of it.
Told(K, n, src) ==
    \/ Has(K, <<n>>)
    \/ Shape[src[n]] = "mbox" /\ \A i \in DOMAIN Parts[src[n]] : Has(K, <<n, i>>)

\* The source files that are done; the messages of the mailbox at the bottom that are,
\* one less while something is on its way in it.
Done(s, busy, t) == IF s = <<>> /\ ~busy THEN t - 1 ELSE t - 2
Passed(s, busy) == s[1].next - (IF busy \/ Len(s) > 1 THEN 2 ELSE 1)
Covered(s, busy, K, t, src) ==
    /\ \A n \in 1 .. Done(s, busy, t) : Told(K, n, src)
    /\ s # <<>> /\ ~IsContainer(s[1]) => \A j \in 1 .. Passed(s, busy) : Has(K, <<t - 1, j>>)

\* The inductive invariant.
Standing ==
    /\ InOrder(stack, todo, source)
    /\ \A x \in item : x.at = Position(stack, todo) /\ x.body = BodyAt(source, x.at)
    /\ item # {} /\ stack # <<>> => Top.phase = "parts"
    /\ failing # {} => outgoing = {} /\ stack # <<>> /\ IsContainer(Top)
    /\ Kept(Records, source) /\ Surrounded /\ Distinct(journal)
    /\ Covered(stack, item # {}, Records, todo, source)

-----------------------------------------------------------------------------
\* What a path leads to: at is the function that BodyAt evaluates, on 1 .. n.
Leads(at, src, p, n) ==
    at = [i \in 1 .. n |-> IF i = 1 THEN src[p[1]] ELSE Parts[at[i - 1]][p[i]].body]

\* Such a function exists.
LEMMA LeadsExists ==
    ASSUME NEW src, NEW p, NEW n \in Nat
    PROVE  \E at : Leads(at, src, p, n)
<1>. DEFINE T == {m \in Nat : ~\E at : Leads(at, src, p, m)}
<1>. SUFFICES ASSUME T # {} PROVE FALSE OBVIOUS
<1>1. PICK m \in T : \A k \in T : m <= k
  <2>1. T \subseteq Nat OBVIOUS
  <2>. HIDE DEF T
  <2>. QED BY <2>1, LeastNumber
<1>2. m \in Nat /\ ~\E at : Leads(at, src, p, m) OBVIOUS
<1>3. CASE m = 0
  <2>. DEFINE g == [i \in 1 .. m |-> 0]
              r(i) == IF i = 1 THEN src[p[1]] ELSE Parts[g[i - 1]][p[i]].body
  <2>1. 1 .. m = {} BY <1>3
  <2>2. g = [i \in 1 .. m |-> r(i)] BY <2>1
  <2>3. Leads(g, src, p, m) BY ONLY <2>2 DEF Leads
  <2>. QED BY <1>2, <2>3
<1>4. CASE m # 0
  <2>1. m - 1 \in Nat /\ m - 1 \notin T BY <1>1, <1>2, <1>4
  <2>2. PICK f : Leads(f, src, p, m - 1) BY <2>1
  <2>3. f = [i \in 1 .. m - 1 |-> IF i = 1 THEN src[p[1]] ELSE Parts[f[i - 1]][p[i]].body]
    BY <2>2 DEF Leads
  <2>4. \A i \in 1 .. m - 1 : f[i] = IF i = 1 THEN src[p[1]] ELSE Parts[f[i - 1]][p[i]].body
    BY ONLY <2>3
  <2>. DEFINE to(i) == IF i = 1 THEN src[p[1]] ELSE Parts[f[i - 1]][p[i]].body
              g == [i \in 1 .. m |-> to(i)]
              r(i) == IF i = 1 THEN src[p[1]] ELSE Parts[g[i - 1]][p[i]].body
  <2>5. ASSUME NEW i \in 1 .. m PROVE to(i) = r(i)
    <3>1. CASE i = 1 BY <3>1
    <3>2. CASE i # 1
      <4>1. i - 1 \in 1 .. m /\ i - 1 \in 1 .. m - 1 BY <3>2, <1>2
      <4>2. g[i - 1] = to(i - 1) BY <4>1
      <4>3. f[i - 1] = to(i - 1) BY <4>1, <2>4
      <4>4. g[i - 1] = f[i - 1] BY ONLY <4>2, <4>3
      <4>. QED BY <3>2, <4>4
    <3>. QED BY <3>1, <3>2
  <2>6. g = [i \in 1 .. m |-> r(i)]
    <3>. HIDE DEF to, r
    <3>. QED BY <2>5
  <2>7. Leads(g, src, p, m) BY ONLY <2>6 DEF Leads
  <2>. QED BY <2>7, <1>2
<1>. QED BY <1>3, <1>4

\* A path leads step by step from a source file.
LEMMA BodyBySteps ==
    ASSUME NEW src, NEW p, Len(p) \in Nat
    PROVE  \E at : /\ \A i \in 1 .. Len(p) :
                        at[i] = IF i = 1 THEN src[p[1]] ELSE Parts[at[i - 1]][p[i]].body
                   /\ BodyAt(src, p) = at[Len(p)]
<1>. DEFINE at == CHOOSE f : Leads(f, src, p, Len(p))
<1>1. BodyAt(src, p) = at[Len(p)] BY DEF BodyAt, Leads
<1>2. Leads(at, src, p, Len(p))
  <2>1. \E f : Leads(f, src, p, Len(p)) BY LeadsExists
  <2>. QED BY <2>1
<1>. HIDE DEF at
<1>3. \A i \in 1 .. Len(p) : at[i] = IF i = 1 THEN src[p[1]] ELSE Parts[at[i - 1]][p[i]].body
  <2>1. at = [i \in 1 .. Len(p) |-> IF i = 1 THEN src[p[1]] ELSE Parts[at[i - 1]][p[i]].body]
    BY <1>2 DEF Leads
  <2>. QED BY ONLY <2>1
<1>. QED BY <1>1, <1>3

\* The position of a source file leads to its content, ...
LEMMA BodyAtSource ==
    ASSUME NEW src, NEW n \in Nat
    PROVE  BodyAt(src, <<n>>) = src[n]
<1>. PICK p : p = <<n>> OBVIOUS
<1>1. Len(p) = 1 /\ p[1] = n
  OBVIOUS
<1>2. PICK f : /\ \A i \in 1 .. Len(p) : f[i] = IF i = 1 THEN src[p[1]] ELSE Parts[f[i - 1]][p[i]].body
               /\ BodyAt(src, p) = f[Len(p)]
  BY <1>1, BodyBySteps
<1>3. 1 \in 1 .. Len(p)
  BY <1>1
<1>4. f[1] = src[p[1]]
  BY <1>2, <1>3
<1>5. BodyAt(src, p) = src[n]
  BY <1>1, <1>2, <1>4
<1>. QED BY <1>5

\* ... and one more index to a part of that.
LEMMA BodyAtPart ==
    ASSUME NEW src, NEW p \in Seq(Nat), p # <<>>, NEW n \in Nat
    PROVE  BodyAt(src, Append(p, n)) = Parts[BodyAt(src, p)][n].body
<1>1. Len(p) \in Nat /\ Len(p) # 0
  BY LenProperties, EmptySeq
<1>2. PICK q : q = Append(p, n) OBVIOUS
<1>3. /\ Len(q) = Len(p) + 1 /\ q[Len(p) + 1] = n
      /\ \A i \in 1 .. Len(p) : q[i] = p[i]
  BY <1>2, AppendProperties
<1>4. PICK f : /\ \A i \in 1 .. Len(p) : f[i] = IF i = 1 THEN src[p[1]] ELSE Parts[f[i - 1]][p[i]].body
               /\ BodyAt(src, p) = f[Len(p)]
  BY <1>1, BodyBySteps
<1>5. Len(q) \in Nat
  BY <1>1, <1>3
<1>6. PICK g : /\ \A i \in 1 .. Len(q) : g[i] = IF i = 1 THEN src[q[1]] ELSE Parts[g[i - 1]][q[i]].body
               /\ BodyAt(src, q) = g[Len(q)]
  BY <1>5, BodyBySteps
<1>7. \A i \in 1 .. Len(p) : f[i] = g[i]
  <2>. DEFINE T == {m \in 1 .. Len(p) : f[m] # g[m]}
  <2>. SUFFICES ASSUME T # {} PROVE FALSE OBVIOUS
  <2>1. PICK m \in T : \A k \in T : m <= k
    <3>1. T \subseteq Nat BY <1>1
    <3>. HIDE DEF T
    <3>. QED BY <3>1, LeastNumber
  <2>2. m \in 1 .. Len(p) /\ m \in 1 .. Len(q) /\ f[m] # g[m] /\ q[m] = p[m] /\ q[1] = p[1]
    <3>1. m \in 1 .. Len(p) /\ f[m] # g[m] OBVIOUS
    <3>2. 1 \in 1 .. Len(p) BY <1>1
    <3>. QED BY <1>1, <1>3, <3>1, <3>2
  <2>3. m # 1 => m - 1 \in 1 .. Len(p) /\ m - 1 \notin T BY <1>1, <2>1, <2>2
  <2>4. m # 1 => f[m - 1] = g[m - 1] BY <2>3
  <2>5. f[m] = (IF m = 1 THEN src[p[1]] ELSE Parts[f[m - 1]][p[m]].body) BY <1>4, <2>2
  <2>6. g[m] = (IF m = 1 THEN src[q[1]] ELSE Parts[g[m - 1]][q[m]].body) BY <1>6, <2>2
  <2>. HIDE DEF T
  <2>7. CASE m = 1 BY <2>2, <2>5, <2>6, <2>7
  <2>8. CASE m # 1 BY <2>2, <2>4, <2>5, <2>6, <2>8
  <2>. QED BY <2>7, <2>8
<1>8. f[Len(p)] = g[Len(p)]
  <2>1. Len(p) \in 1 .. Len(p) BY <1>1
  <2>. QED BY <1>7, <2>1
<1>9. Len(q) \in 1 .. Len(q) /\ Len(q) # 1 /\ Len(q) - 1 = Len(p) /\ q[Len(q)] = n
  BY <1>1, <1>3
<1>10. g[Len(q)] = Parts[g[Len(q) - 1]][q[Len(q)]].body
  BY <1>6, <1>9
<1>11. BodyAt(src, q) = Parts[BodyAt(src, p)][n].body
  BY <1>4, <1>6, <1>8, <1>9, <1>10
<1>. QED BY <1>2, <1>11

-----------------------------------------------------------------------------
\* A stack in order, its innermost frame and those below.
LEMMA OrderBelow ==
    ASSUME NEW s, Nested(s), s # <<>>, NEW t, NEW src, InOrder(s, t, src)
    PROVE  /\ InOrder(Front(s), t, src) /\ Last(s).at = Position(Front(s), t)
           /\ Tentative(Last(s), src) /\ Len(Last(s).at) = Len(s)
           /\ ~IsContainer(Last(s)) => Last(s).phase = "parts" /\ Shape[Last(s).body] = "mbox"
           /\ Front(s) # <<>> => Last(Front(s)).phase = "parts"
<1>. PICK b : b = Front(s) OBVIOUS
<1>. PICK n : n = Len(s) OBVIOUS
<1>1. /\ Len(b) = n - 1 /\ DOMAIN b = 1 .. n - 1 /\ DOMAIN s = 1 .. n /\ n \in Nat /\ n > 0
      /\ \A i \in 1 .. n - 1 : b[i] = s[i]
      /\ Last(s) = s[n]
      /\ b = <<>> <=> n = 1
      /\ b # <<>> => Last(b) = s[n - 1] /\ n - 1 \in 1 .. n - 1
  BY FrontFacts
<1>2. \A i \in 1 .. n : InPlace(s, i, t, src)
  BY <1>1 DEF InOrder
<1>3. InPlace(s, n, t, src)
  <2>1. n \in 1 .. n BY <1>1
  <2>. QED BY <1>2, <2>1
<1>4. b # <<>> => b[n - 1] = s[n - 1] /\ s[n - 1].phase = "parts"
  <2>. SUFFICES ASSUME b # <<>> PROVE b[n - 1] = s[n - 1] /\ s[n - 1].phase = "parts" OBVIOUS
  <2>1. n - 1 \in 1 .. n - 1 /\ n - 1 \in 1 .. n /\ n - 1 < n BY <1>1
  <2>2. InPlace(s, n - 1, t, src) BY <1>2, <2>1
  <2>. QED BY <1>1, <2>1, <2>2 DEF InPlace
<1>5. s[n].at = Position(b, t)
  <2>1. CASE n = 1 BY <1>1, <1>3, <2>1 DEF Position, InPlace
  <2>2. CASE n # 1
    <3>1. s[n].at = Append(s[n - 1].at, s[n - 1].next - 1) BY <1>3, <2>2 DEF InPlace
    <3>. QED BY <1>1, <2>2, <3>1 DEF Position
  <2>. QED BY <2>1, <2>2
<1>6. InOrder(b, t, src)
  <2>. SUFFICES ASSUME NEW i \in 1 .. n - 1 PROVE InPlace(b, i, t, src) BY <1>1 DEF InOrder
  <2>1. i \in 1 .. n /\ i < n /\ (i # 1 => i - 1 \in 1 .. n - 1) /\ i < Len(s) BY <1>1
  <2>2. b[i] = s[i] /\ (i # 1 => b[i - 1] = s[i - 1]) BY <1>1, <2>1
  <2>3. InPlace(s, i, t, src) BY <1>2, <2>1
  <2>. QED BY <2>1, <2>2, <2>3 DEF InPlace
<1>. QED BY <1>1, <1>3, <1>4, <1>5, <1>6 DEF InPlace

\* The position a stack in order is busy with.
LEMMA PositionFacts ==
    ASSUME NEW s, Nested(s), NEW t \in Nat, t - 1 \in Nat, NEW src, InOrder(s, t, src)
    PROVE  /\ Position(s, t) \in Seq(Nat) /\ Position(s, t) # <<>> /\ Len(Position(s, t)) = Len(s) + 1
           /\ s # <<>> => IsStrictPrefix(Last(s).at, Position(s, t))
<1>1. CASE s = <<>>
  <2>. PICK q : q = <<t - 1>> OBVIOUS
  <2>1. Position(s, t) = q /\ Len(s) = 0 BY <1>1 DEF Position
  <2>2. q \in Seq(Nat) /\ q # <<>> /\ Len(q) = 1 BY SourceAt
  <2>3. Len(q) = Len(s) + 1 BY <2>1, <2>2
  <2>4. Position(s, t) \in Seq(Nat) /\ Position(s, t) # <<>> /\ Len(Position(s, t)) = Len(s) + 1
    BY ONLY <2>1, <2>2, <2>3
  <2>. QED BY <1>1, <2>4
<1>2. CASE s # <<>>
  <2>. PICK f : f = Last(s) OBVIOUS
  <2>1. Position(s, t) = Append(f.at, f.next - 1) BY <1>2 DEF Position
  <2>2. f \in FrameType BY <1>2, FrontFacts
  <2>3. f.at \in Seq(Nat) /\ f.next - 1 \in Nat
    <3>1. f.at \in Seq(Nat) /\ f.next \in Nat \ {0} BY <2>2, FrameFields
    <3>. QED BY <3>1
  <2>4. Len(f.at) = Len(s) BY <1>2, OrderBelow
  <2>. PICK k : k = f.next - 1 OBVIOUS
  <2>5. /\ Append(f.at, k) \in Seq(Nat) /\ Append(f.at, k) # <<>> /\ Len(Append(f.at, k)) = Len(f.at) + 1
        /\ IsStrictPrefix(f.at, Append(f.at, k))
    BY <2>3, PartFacts
  <2>. QED BY <2>1, <2>4, <2>5
<1>. QED BY <1>1, <1>2

\* A stack whose innermost frame is put in its place is in order.
LEMMA OrderTop ==
    ASSUME NEW u, Nested(u), u # <<>>, NEW t \in Nat, t - 1 \in Nat, NEW src, NEW b, b = Front(u),
           InOrder(b, t, src), b # <<>> => Last(b).phase = "parts",
           NEW f, f = Last(u), Tentative(f, src), f.at = Position(b, t),
           ~IsContainer(f) => f.phase = "parts" /\ Shape[f.body] = "mbox"
    PROVE  InOrder(u, t, src)
<1>. PICK n : n = Len(u) OBVIOUS
<1>1. /\ Len(b) = n - 1 /\ DOMAIN b = 1 .. n - 1 /\ DOMAIN u = 1 .. n /\ n \in Nat /\ n > 0
      /\ \A i \in 1 .. n - 1 : b[i] = u[i]
      /\ f = u[n]
      /\ b = <<>> <=> n = 1
      /\ b # <<>> => Last(b) = u[n - 1] /\ n - 1 \in 1 .. n - 1
      /\ Nested(b)
  BY FrontFacts
<1>2. \A i \in 1 .. n - 1 : InPlace(b, i, t, src)
  BY <1>1 DEF InOrder
<1>3. Len(f.at) = n
  <2>1. Len(f.at) = Len(b) + 1 BY <1>1, PositionFacts
  <2>. QED BY <1>1, <2>1
<1>4. InPlace(u, n, t, src)
  <2>1. u[n].at = IF n = 1 THEN <<t - 1>> ELSE Append(u[n - 1].at, u[n - 1].next - 1)
    <3>1. CASE n = 1 BY <1>1, <3>1 DEF Position
    <3>2. CASE n # 1 BY <1>1, <3>2 DEF Position
    <3>. QED BY <3>1, <3>2
  <2>2. ~(n < Len(u)) BY <1>1
  <2>. QED BY <1>1, <1>3, <2>1, <2>2 DEF InPlace
<1>5. ASSUME NEW i \in 1 .. n - 1 PROVE InPlace(u, i, t, src)
  <2>1. InPlace(b, i, t, src) /\ b[i] = u[i] BY <1>1, <1>2
  <2>2. i # 1 => b[i - 1] = u[i - 1]
    <3>1. i # 1 => i - 1 \in 1 .. n - 1 BY <1>1
    <3>. QED BY <1>1, <3>1
  <2>3. u[i].phase = "parts"
    <3>1. CASE i = n - 1 BY <1>1, <3>1
    <3>2. CASE i # n - 1
      <4>1. i < Len(b) BY <1>1, <3>2
      <4>. QED BY <2>1, <4>1 DEF InPlace
    <3>. QED BY <3>1, <3>2
  <2>. QED BY <2>1, <2>2, <2>3 DEF InPlace
<1>6. \A i \in 1 .. n : i = n \/ i \in 1 .. n - 1
  BY <1>1
<1>. QED BY <1>1, <1>4, <1>5, <1>6 DEF InOrder

\* Charging moves nothing out of place.
LEMMA OrderAlike ==
    ASSUME NEW s, NEW u, Nested(s), SameFrames(s, u), SameBooks(s, u), NEW t, NEW src,
           InOrder(s, t, src)
    PROVE  /\ InOrder(u, t, src)
           /\ s # <<>> /\ Last(s).phase = "parts" => Last(u).phase = "parts" /\ Position(u, t) = Position(s, t)
           /\ \A busy, K : Covered(s, busy, K, t, src) => Covered(u, busy, K, t, src)
           /\ s = <<>> <=> u = <<>>
<1>. PICK n : n = Len(s) OBVIOUS
<1>1. /\ Len(u) = n /\ DOMAIN u = 1 .. n /\ DOMAIN s = 1 .. n /\ n \in Nat /\ Len(s) = n
      /\ s = <<>> <=> n = 0
      /\ u = <<>> <=> n = 0
  BY LenProperties, EmptySeq DEF SameFrames, Nested
<1>2. \A i \in 1 .. n : InPlace(s, i, t, src)
  BY <1>1 DEF InOrder
<1>3. \A i \in 1 .. n : /\ u[i].at = s[i].at /\ u[i].body = s[i].body /\ u[i].kind = s[i].kind
                        /\ u[i].buffer = s[i].buffer
                        /\ s[i].phase = "parts" => u[i].phase = "parts" /\ u[i].next = s[i].next
  BY <1>1 DEF SameBooks, Alike
<1>4. \A i \in 1 .. n : (IsContainer(u[i]) <=> IsContainer(s[i])) /\ (Tentative(u[i], src) <=> Tentative(s[i], src))
  BY <1>3 DEF IsContainer, Tentative
<1>5. ASSUME NEW i \in 1 .. n PROVE InPlace(u, i, t, src)
  <2>1. InPlace(s, i, t, src) BY <1>2
  <2>2. i # 1 => s[i - 1].phase = "parts" /\ i - 1 \in 1 .. n
    <3>. SUFFICES ASSUME i # 1 PROVE s[i - 1].phase = "parts" /\ i - 1 \in 1 .. n OBVIOUS
    <3>1. i - 1 \in 1 .. n /\ i - 1 < n BY <1>1
    <3>2. InPlace(s, i - 1, t, src) BY <1>2, <3>1
    <3>. QED BY <1>1, <3>1, <3>2 DEF InPlace
  <2>3. i # 1 => u[i - 1].at = s[i - 1].at /\ u[i - 1].next = s[i - 1].next BY <1>3, <2>2
  <2>4. u[i].at = IF i = 1 THEN <<t - 1>> ELSE Append(u[i - 1].at, u[i - 1].next - 1)
    BY <1>3, <2>1, <2>3 DEF InPlace
  <2>. QED BY <1>1, <1>3, <1>4, <2>1, <2>4 DEF InPlace
<1>6. s # <<>> /\ Last(s).phase = "parts" => Last(u).phase = "parts" /\ Position(u, t) = Position(s, t)
  <2>. SUFFICES ASSUME s # <<>>, Last(s).phase = "parts"
                PROVE  Last(u).phase = "parts" /\ Position(u, t) = Position(s, t)
    OBVIOUS
  <2>1. n \in 1 .. n /\ Last(s) = s[n] /\ Last(u) = u[n] /\ u # <<>> BY <1>1 DEF Last
  <2>. QED BY <1>3, <2>1 DEF Position
<1>7. ASSUME NEW busy, NEW K, Covered(s, busy, K, t, src) PROVE Covered(u, busy, K, t, src)
  <2>1. Done(u, busy, t) = Done(s, busy, t) BY <1>1 DEF Done
  <2>2. s # <<>> /\ ~IsContainer(s[1]) => ~IsContainer(u[1]) /\ Passed(u, busy) = Passed(s, busy)
    <3>. SUFFICES ASSUME s # <<>>, ~IsContainer(s[1])
                  PROVE  ~IsContainer(u[1]) /\ Passed(u, busy) = Passed(s, busy)
      OBVIOUS
    <3>1. 1 \in 1 .. n BY <1>1
    <3>2. s[1].phase = "parts" BY <1>2, <3>1 DEF InPlace
    <3>. QED BY <1>1, <1>3, <1>4, <3>1, <3>2 DEF Passed
  <2>3. u # <<>> /\ ~IsContainer(u[1]) => s # <<>> /\ ~IsContainer(s[1])
    <3>1. u # <<>> => 1 \in 1 .. n BY <1>1
    <3>. QED BY <1>1, <1>4, <3>1
  <2>. QED BY <1>7, <2>1, <2>2, <2>3 DEF Covered
<1>. QED BY <1>1, <1>5, <1>6, <1>7 DEF InOrder

\* The outermost frame of a stack and of what is left below its innermost.
LEMMA FirstFrame ==
    ASSUME NEW s, Nested(s), s # <<>>
    PROVE  /\ Len(s) \in Nat /\ Len(s) > 0 /\ Len(Front(s)) = Len(s) - 1
           /\ Front(s) = <<>> <=> Len(s) = 1
           /\ Len(s) = 1 => s[1] = Last(s)
           /\ Len(s) > 1 => Front(s)[1] = s[1] /\ IsContainer(Last(s))
<1>1. /\ Len(s) \in Nat /\ Len(s) > 0 /\ Len(Front(s)) = Len(s) - 1 /\ DOMAIN s = 1 .. Len(s)
      /\ Front(s) = <<>> <=> Len(s) = 1
      /\ \A i \in 1 .. Len(s) - 1 : Front(s)[i] = s[i]
      /\ Last(s) = s[Len(s)]
  BY FrontFacts
<1>2. Len(s) > 1 => 1 \in 1 .. Len(s) - 1 /\ Len(s) \in DOMAIN s
  BY <1>1
<1>3. Len(s) > 1 => IsContainer(s[Len(s)])
  BY <1>1, <1>2 DEF Nested
<1>. QED BY <1>1, <1>2, <1>3

\* How many messages are passed.
LEMMA PassedIs ==
    ASSUME NEW s
    PROVE  /\ Passed(s, TRUE) = s[1].next - 2
           /\ Len(s) > 1 => Passed(s, FALSE) = s[1].next - 2
           /\ ~(Len(s) > 1) => Passed(s, FALSE) = s[1].next - 1
BY DEF Passed

\* More records tell more.
LEMMA ToldMore ==
    ASSUME NEW K, NEW L, \A pos : Has(K, pos) => Has(L, pos), NEW src, NEW n, Told(K, n, src)
    PROVE  Told(L, n, src)
<1>1. CASE Has(K, <<n>>)
  BY <1>1 DEF Told
<1>2. CASE Shape[src[n]] = "mbox" /\ \A i \in DOMAIN Parts[src[n]] : Has(K, <<n, i>>)
  BY <1>2 DEF Told
<1>. QED BY <1>1, <1>2 DEF Told

\* What is covered stays so when the stack, the file at hand and the records change,
\* but not the files that are done.
LEMMA CoveredMove ==
    ASSUME NEW s, NEW u, NEW busy, NEW still, NEW K, NEW L, NEW t, NEW v, NEW src,
           Covered(s, busy, K, t, src), \A pos : Has(K, pos) => Has(L, pos),
           Done(u, still, v) = Done(s, busy, t),
           u # <<>> /\ ~IsContainer(u[1]) =>
             s # <<>> /\ ~IsContainer(s[1]) /\ Passed(u, still) = Passed(s, busy) /\ v = t
    PROVE  Covered(u, still, L, v, src)
<1>1. \A n \in 1 .. Done(u, still, v) : Told(L, n, src)
  BY ToldMore DEF Covered
<1>2. u # <<>> /\ ~IsContainer(u[1]) => \A j \in 1 .. Passed(u, still) : Has(L, <<v - 1, j>>)
  BY DEF Covered
<1>. QED BY <1>1, <1>2 DEF Covered

\* The cursor of the innermost frame moves on: its next part is at hand.
LEMMA OrderStepped ==
    ASSUME NEW s, Nested(s), s # <<>>, Last(s).phase = "parts",
           NEW t \in Nat, t - 1 \in Nat, NEW src, InOrder(s, t, src)
    PROVE  /\ InOrder(Stepped(s), t, src) /\ Nested(Stepped(s)) /\ Stepped(s) # <<>>
           /\ Last(Stepped(s)).phase = "parts"
           /\ Position(Stepped(s), t) = Append(Last(s).at, Last(s).next)
           /\ \A K : Covered(s, FALSE, K, t, src) => Covered(Stepped(s), TRUE, K, t, src)
<1>. PICK u : u = Stepped(s) OBVIOUS
<1>. PICK f : f = Last(s) OBVIOUS
<1>. PICK b : b = Front(s) OBVIOUS
<1>1. PICK g \in FrameType :
        /\ g.at = f.at /\ g.kind = f.kind /\ g.body = f.body /\ g.phase = f.phase
        /\ g.next = f.next + 1 /\ g.buffer = f.buffer
        /\ Nested(u) /\ u # <<>> /\ Last(u) = g /\ Front(u) = b /\ Len(u) = Len(s)
  BY SteppedTop
<1>2. f.next \in Nat \ {0} /\ g.next - 1 = f.next
  <2>1. f.next \in Nat \ {0} BY SteppedTop
  <2>. QED BY <1>1, <2>1
<1>3. /\ InOrder(b, t, src) /\ f.at = Position(b, t) /\ Tentative(f, src)
      /\ ~IsContainer(f) => Shape[f.body] = "mbox"
      /\ b # <<>> => Last(b).phase = "parts"
  BY OrderBelow
<1>4. IsContainer(g) <=> IsContainer(f)
  BY <1>1 DEF IsContainer
<1>5. Tentative(g, src) /\ g.at = Position(b, t) /\ g.phase = "parts"
  BY <1>1, <1>3 DEF Tentative
<1>6. InOrder(u, t, src)
  <2>1. ~IsContainer(g) => g.phase = "parts" /\ Shape[g.body] = "mbox" BY <1>1, <1>3, <1>4, <1>5
  <2>2. Nested(u) /\ u # <<>> /\ b = Front(u) /\ g = Last(u) BY <1>1
  <2>. QED BY <1>3, <1>5, <2>1, <2>2, OrderTop
<1>7. Position(u, t) = Append(f.at, f.next)
  BY <1>1, <1>2 DEF Position
<1>8. ASSUME NEW K, Covered(s, FALSE, K, t, src) PROVE Covered(u, TRUE, K, t, src)
  <2>1. Done(u, TRUE, t) = Done(s, FALSE, t) BY <1>1 DEF Done
  <2>2. ~IsContainer(u[1]) => ~IsContainer(s[1]) /\ Passed(u, TRUE) = Passed(s, FALSE)
    <3>1. /\ Len(s) = 1 \/ Len(s) > 1
          /\ Len(s) = 1 => s[1] = f
          /\ Len(s) > 1 => b[1] = s[1]
      BY FirstFrame
    <3>2. (Len(u) = 1 => u[1] = g) /\ (Len(u) > 1 => b[1] = u[1]) BY <1>1, FirstFrame
    <3>3. CASE Len(s) = 1
      <4>1. s[1] = f /\ u[1] = g /\ ~(Len(s) > 1) BY <1>1, <3>1, <3>2, <3>3
      <4>2. Passed(u, TRUE) = g.next - 2 /\ Passed(s, FALSE) = f.next - 1 BY <4>1, PassedIs
      <4>3. Passed(u, TRUE) = Passed(s, FALSE)
        <5>1. g.next - 2 = f.next - 1 BY <1>1, <1>2
        <5>. QED BY ONLY <4>2, <5>1
      <4>. QED BY <1>4, <4>1, <4>3
    <3>4. CASE Len(s) > 1
      <4>1. u[1] = s[1] BY <1>1, <3>1, <3>2, <3>4
      <4>2. Passed(u, TRUE) = Passed(s, FALSE) BY <3>4, <4>1, PassedIs
      <4>. QED BY <4>1, <4>2
    <3>. QED BY <3>1, <3>3, <3>4
  <2>3. \A pos : Has(K, pos) => Has(K, pos) OBVIOUS
  <2>. QED BY <1>8, <2>1, <2>2, <2>3, CoveredMove
<1>. QED BY <1>1, <1>5, <1>6, <1>7, <1>8

\* Numbers of frames.
LEMMA Several ==
    ASSUME NEW n \in Nat, n > 0, n # 1
    PROVE  n > 1
OBVIOUS

\* An innermost container is left: the one around it is at its position.
LEMMA CoveredBelow ==
    ASSUME NEW s, Nested(s), s # <<>>, IsContainer(Last(s)), NEW t, NEW K, NEW src,
           Covered(s, FALSE, K, t, src)
    PROVE  /\ Covered(Front(s), TRUE, K, t, src)
           /\ Front(s) # <<>> /\ IsContainer(Last(Front(s))) => Covered(Front(s), FALSE, K, t, src)
<1>. PICK b : b = Front(s) OBVIOUS
<1>1. ASSUME b # <<>> PROVE Len(s) > 1 /\ b[1] = s[1]
  <2>1. Len(s) \in Nat /\ Len(s) > 0 /\ Len(s) # 1 BY <1>1, FirstFrame
  <2>2. Len(s) > 1 BY ONLY <2>1, Several
  <2>. QED BY <2>2, FirstFrame
<1>2. ASSUME b # <<>>, IsContainer(Last(b)), ~IsContainer(b[1]) PROVE Len(b) > 1
  <2>1. Nested(b) BY FrontFacts
  <2>2. Len(b) \in Nat /\ Len(b) > 0 /\ (Len(b) = 1 => b[1] = Last(b)) BY <1>2, <2>1, FirstFrame
  <2>3. Len(b) # 1 BY <1>2, <2>2
  <2>. QED BY ONLY <2>2, <2>3, Several
<1>3. Done(b, TRUE, t) = Done(s, FALSE, t) /\ (b # <<>> => Done(b, FALSE, t) = Done(s, FALSE, t))
  BY DEF Done
<1>4. ASSUME b # <<>>, ~IsContainer(b[1])
      PROVE  ~IsContainer(s[1]) /\ Passed(b, TRUE) = Passed(s, FALSE)
  <2>1. Len(s) > 1 /\ b[1] = s[1] BY <1>1, <1>4
  <2>2. Passed(b, TRUE) = b[1].next - 2 /\ Passed(s, FALSE) = s[1].next - 2 BY <2>1, PassedIs
  <2>. QED BY ONLY <1>4, <2>1, <2>2
<1>5. ASSUME b # <<>>, IsContainer(Last(b)), ~IsContainer(b[1])
      PROVE  Passed(b, FALSE) = Passed(s, FALSE)
  <2>1. Passed(b, FALSE) = b[1].next - 2 /\ Passed(b, TRUE) = b[1].next - 2 BY <1>2, <1>5, PassedIs
  <2>. QED BY <1>4, <1>5, <2>1
<1>6. \A pos : Has(K, pos) => Has(K, pos)
  OBVIOUS
<1>7. Covered(b, TRUE, K, t, src)
  BY <1>3, <1>4, <1>6, CoveredMove
<1>8. b # <<>> /\ IsContainer(Last(b)) => Covered(b, FALSE, K, t, src)
  BY <1>3, <1>4, <1>5, <1>6, CoveredMove
<1>. QED BY <1>7, <1>8

-----------------------------------------------------------------------------
\* What is found of position p and inside.
Report(T, p, src) ==
    /\ T \subseteq RecordType /\ Has(T, p)
    /\ \A r \in T : /\ r.at = p \/ IsStrictPrefix(p, r.at)
                    /\ True(r, src) /\ Found(r, T, Len(p))

\* A blob with the content of its place, or a failure, ...
LEMMA ReportOne ==
    ASSUME NEW r \in RecordType, r.kind # "container", NEW src,
           r.kind # "failure" => r.body = BodyAt(src, r.at)
    PROVE  Report({r}, r.at, src)
<1>1. Found(r, {r}, Len(r.at))
  <2>1. Len(r.at) \in Nat BY RecordAt
  <2>2. \A n \in Len(r.at) .. Len(r.at) - 1 : FALSE BY <2>1
  <2>. QED BY <2>2 DEF Found
<1>2. True(r, src)
  BY DEF True
<1>. QED BY <1>1, <1>2 DEF Report, Has

\* ... a refused container, ...
LEMMA ReportRefused ==
    ASSUME NEW p \in Seq(Nat), NEW body \in Content, NEW src, body = BodyAt(src, p)
    PROVE  Report(Rejection(p, body), p, src)
<1>. DEFINE c == ContainerRec(p, body, "unprocessed")
            b == BlobRec(p, body, "unprocessed")
            S == Rejection(p, body)
<1>1. S = {c, b} /\ S \subseteq RecordType
  BY RecordsTyped DEF Rejection
<1>2. c.at = p /\ c.body = body /\ b.at = p /\ b.body = body
  BY DEF ContainerRec, BlobRec
<1>. HIDE DEF c, b, S
<1>3. \A r \in S : r.at = p /\ r.body = body
  BY <1>1, <1>2
<1>4. Len(p) \in Nat
  BY LenProperties
<1>5. \A n \in Len(p) .. Len(p) - 1 : FALSE
  BY <1>4
<1>6. Has(S, p)
  BY <1>1, <1>2 DEF Has
<1>7. ASSUME NEW r \in S PROVE r.at = p /\ True(r, src) /\ Found(r, S, Len(p))
  <2>1. r.at = p /\ r.body = body BY <1>3
  <2>2. True(r, src) BY <2>1 DEF True
  <2>3. Found(r, S, Len(p)) BY <1>5, <2>1 DEF Found
  <2>. QED BY <2>1, <2>2, <2>3
<1>8. Report(S, p, src)
  BY <1>1, <1>6, <1>7 DEF Report
<1>. QED BY <1>8 DEF S

\* Records that are found among some are found among more, and further in.
LEMMA FoundMore ==
    ASSUME NEW r \in RecordType, NEW S, NEW T, S \subseteq T, NEW m \in Nat, NEW k \in Nat, m <= k, Found(r, S, m)
    PROVE  Found(r, T, k)
<1>. SUFFICES ASSUME r.kind # "container", NEW n \in k .. Len(r.at) - 1
              PROVE  Surrounds(T, SubSeq(r.at, 1, n))
  BY DEF Found
<1>1. n \in m .. Len(r.at) - 1
  <2>1. Len(r.at) \in Nat BY RecordAt
  <2>. QED BY <2>1
<1>2. Surrounds(S, SubSeq(r.at, 1, n))
  BY <1>1 DEF Found
<1>. QED BY <1>2 DEF Surrounds

\* ... and an expanded container with what is in it.
LEMMA ReportExpanded ==
    ASSUME NEW f \in FrameType, NEW src, Tentative(f, src)
    PROVE  Report(f.buffer \cup {ContainerRec(f.at, f.body, "expanded")}, f.at, src)
<1>. PICK c : c = ContainerRec(f.at, f.body, "expanded") OBVIOUS
<1>. PICK p : p = f.at OBVIOUS
<1>. PICK S : S = f.buffer OBVIOUS
<1>. PICK T : T = S \cup {c} OBVIOUS
<1>0. p \in Seq(Nat) /\ f.body \in Content /\ S \subseteq RecordType
  BY FrameFields
<1>1. c.kind = "container" /\ c.at = p /\ c.body = f.body /\ c \in RecordType
  BY <1>0, RecordsTyped DEF ContainerRec
<1>2. f.body = BodyAt(src, p) /\ \A r \in S : IsStrictPrefix(p, r.at) /\ True(r, src) /\ Found(r, S, Len(p) + 1)
  BY DEF Tentative
<1>3. T \subseteq RecordType /\ Has(T, p) /\ Len(p) \in Nat
  BY <1>0, <1>1, LenProperties DEF Has
<1>4. True(c, src) /\ Found(c, T, Len(p))
  BY <1>1, <1>2 DEF True, Found
<1>5. ASSUME NEW r \in S PROVE Found(r, T, Len(p))
  <2>. SUFFICES ASSUME r.kind # "container", NEW n \in Len(p) .. Len(r.at) - 1
                PROVE  Surrounds(T, SubSeq(r.at, 1, n))
    BY DEF Found
  <2>1. r.at \in Seq(Nat) /\ Len(r.at) \in Nat BY <1>0, RecordAt
  <2>2. CASE n = Len(p)
    <3>1. SubSeq(r.at, 1, Len(p)) = p BY <1>0, <1>2, <2>1, InsideFacts
    <3>. QED BY <1>1, <2>2, <3>1 DEF Surrounds
  <2>3. CASE n # Len(p)
    <3>1. n \in Len(p) + 1 .. Len(r.at) - 1 BY <1>3, <2>1, <2>3
    <3>2. Found(r, S, Len(p) + 1) BY <1>2
    <3>. QED BY <3>1, <3>2 DEF Found, Surrounds
  <2>. QED BY <2>2, <2>3
<1>6. Report(T, p, src)
  BY <1>1, <1>2, <1>3, <1>4, <1>5 DEF Report
<1>. QED BY <1>6

-----------------------------------------------------------------------------
\* Records that are told more of cover no less.
LEMMA HasMore ==
    ASSUME NEW J, NEW T
    PROVE  /\ \A pos : Has(J, pos) => Has(J \cup T, pos)
           /\ \A pos : Has(T, pos) => Has(J \cup T, pos)
BY DEF Has

\* A report is kept with the records before it.
LEMMA KeptMore ==
    ASSUME NEW J, J \subseteq RecordType, NEW src, Kept(J, src), NEW T, NEW p \in Seq(Nat), Report(T, p, src),
           p # <<>>, Len(p) <= Level(p[1], src)
    PROVE  Kept(J \cup T, src)
<1>. PICK K : K = J \cup T OBVIOUS
<1>0. \A n : Level(n, src) \in Nat
  BY DEF Level
<1>1. ASSUME NEW r \in J PROVE True(r, src) /\ Found(r, K, Level(r.at[1], src))
  <2>1. True(r, src) /\ Found(r, J, Level(r.at[1], src)) BY DEF Kept
  <2>2. r \in RecordType /\ J \subseteq K OBVIOUS
  <2>. PICK m : m = Level(r.at[1], src) OBVIOUS
  <2>3. m \in Nat /\ m <= m BY <1>0
  <2>4. Found(r, K, m) BY <2>1, <2>2, <2>3, FoundMore
  <2>. QED BY <2>1, <2>4
<1>2. ASSUME NEW r \in T PROVE True(r, src) /\ Found(r, K, Level(r.at[1], src))
  <2>1. /\ True(r, src) /\ Found(r, T, Len(p)) /\ r \in RecordType
        /\ r.at = p \/ IsStrictPrefix(p, r.at)
    BY DEF Report
  <2>2. r.at[1] = p[1]
    <3>1. CASE r.at = p BY <3>1
    <3>2. CASE IsStrictPrefix(p, r.at)
      <4>1. r.at \in Seq(Nat) BY <2>1, RecordAt
      <4>2. \A i \in 1 .. Len(p) : r.at[i] = p[i] BY <3>2, <4>1, InsideFacts
      <4>3. Len(p) \in Nat /\ Len(p) # 0 BY LenProperties, EmptySeq
      <4>4. 1 \in 1 .. Len(p) BY <4>3
      <4>. QED BY <4>2, <4>4
    <3>. QED BY <2>1, <3>1, <3>2
  <2>. PICK m : m = Level(p[1], src) OBVIOUS
  <2>3. m \in Nat /\ Len(p) \in Nat /\ Len(p) <= m BY <1>0, LenProperties
  <2>4. Found(r, K, m) BY <2>1, <2>3, FoundMore
  <2>. QED BY <2>1, <2>2, <2>4
<1>3. \A r \in K : True(r, src) /\ Found(r, K, Level(r.at[1], src))
  BY <1>1, <1>2
<1>4. Kept(K, src)
  BY <1>3 DEF Kept
<1>. QED BY <1>4

\* The report of a part is deposited in the container that has it.
LEMMA TentativeMore ==
    ASSUME NEW f \in FrameType, NEW src, Tentative(f, src), NEW k \in Nat,
           NEW T, Report(T, Append(f.at, k), src), NEW g, g = [f EXCEPT !.buffer = @ \cup T]
    PROVE  /\ g \in FrameType /\ Tentative(g, src)
           /\ g.at = f.at /\ g.kind = f.kind /\ g.body = f.body /\ g.phase = f.phase /\ g.next = f.next
<1>. PICK S : S = f.buffer OBVIOUS
<1>. PICK q : q = f.at OBVIOUS
<1>. PICK p : p = Append(q, k) OBVIOUS
<1>. PICK U : U = S \cup T OBVIOUS
<1>1. q \in Seq(Nat) /\ S \subseteq RecordType /\ T \subseteq RecordType
  BY FrameFields DEF Report
<1>2. g \in FrameType
  BY <1>1, FrameReceives
<1>3. /\ g.buffer = U /\ g.at = f.at /\ g.kind = f.kind /\ g.body = f.body
      /\ g.phase = f.phase /\ g.next = f.next
  BY DEF FrameType
<1>4. p \in Seq(Nat) /\ Len(p) = Len(q) + 1 /\ IsStrictPrefix(q, p) /\ Len(q) \in Nat
  BY <1>1, PartFacts
<1>. PICK m : m = Len(q) + 1 OBVIOUS
<1>5. m \in Nat /\ m <= m
  BY <1>4
<1>6. ASSUME NEW r \in S PROVE IsStrictPrefix(q, r.at) /\ True(r, src) /\ Found(r, U, m)
  <2>1. IsStrictPrefix(q, r.at) /\ True(r, src) /\ Found(r, S, m) BY DEF Tentative
  <2>2. r \in RecordType /\ S \subseteq U BY <1>1
  <2>3. Found(r, U, m) BY ONLY <1>5, <2>1, <2>2, FoundMore
  <2>. QED BY <2>1, <2>3
<1>7. ASSUME NEW r \in T PROVE IsStrictPrefix(q, r.at) /\ True(r, src) /\ Found(r, U, m)
  <2>1. True(r, src) /\ Found(r, T, m) /\ (r.at = p \/ IsStrictPrefix(p, r.at))
    BY <1>4 DEF Report
  <2>2. r \in RecordType /\ T \subseteq U BY <1>1
  <2>3. Found(r, U, m) BY <1>5, <2>1, <2>2, FoundMore
  <2>4. IsStrictPrefix(q, r.at)
    <3>1. r.at \in Seq(Nat) BY <2>2, RecordAt
    <3>2. CASE r.at = p BY <1>4, <3>2
    <3>3. CASE IsStrictPrefix(p, r.at) BY <1>1, <1>4, <3>1, <3>3, StrictPrefixTransitive
    <3>. QED BY <2>1, <3>2, <3>3
  <2>. QED BY <2>1, <2>3, <2>4
<1>8. \A r \in U : IsStrictPrefix(q, r.at) /\ True(r, src) /\ Found(r, U, m)
  BY <1>6, <1>7
<1>9. Tentative(g, src)
  BY <1>3, <1>8 DEF Tentative
<1>. QED BY <1>2, <1>3, <1>9

\* A report of the part at hand is filed: what stood still stands, and the part is covered.
LEMMA Filed ==
    ASSUME NEW s, Nested(s), NEW t \in Nat, t - 1 \in Nat, NEW src, InOrder(s, t, src),
           s # <<>> => Last(s).phase = "parts",
           NEW J, J \subseteq RecordType, Kept(J, src), Covered(s, TRUE, J, t, src),
           NEW T, Report(T, Position(s, t), src), NEW u, NEW K, Deposited(s, T, J, u, K), Nested(u)
    PROVE  InOrder(u, t, src) /\ Kept(K, src) /\ Covered(u, FALSE, K, t, src)
<1>0. (\A pos : Has(J, pos) => Has(J \cup T, pos)) /\ \A pos : Has(T, pos) => Has(J \cup T, pos)
  BY HasMore
<1>1. CASE s = <<>>
  <2>1. u = s /\ K = J \cup T BY <1>1 DEF Deposited
  <2>. PICK p : p = <<t - 1>> OBVIOUS
  <2>2. p \in Seq(Nat) /\ p # <<>> /\ Len(p) = 1 /\ p[1] = t - 1 BY SourceAt
  <2>3. Report(T, p, src) BY <1>1 DEF Position
  <2>4. Kept(K, src)
    <3>1. Len(p) <= Level(p[1], src) BY <2>2 DEF Level
    <3>. QED BY <2>1, <2>2, <2>3, <3>1, KeptMore
  <2>5. \A n \in 1 .. t - 1 : Told(K, n, src)
    <3>1. Has(K, <<t - 1>>) BY <1>0, <2>1, <2>3 DEF Report
    <3>2. Told(K, t - 1, src) BY <3>1 DEF Told
    <3>3. \A n \in 1 .. t - 2 : Told(J, n, src) BY DEF Covered, Done
    <3>4. \A n \in 1 .. t - 2 : Told(K, n, src) BY <1>0, <2>1, <3>3, ToldMore
    <3>5. \A n \in 1 .. t - 1 : n = t - 1 \/ n \in 1 .. t - 2 OBVIOUS
    <3>. QED BY <3>2, <3>4, <3>5
  <2>6. Covered(u, FALSE, K, t, src) BY <1>1, <2>1, <2>5 DEF Covered, Done
  <2>. QED BY <2>1, <2>4, <2>6
<1>2. CASE s # <<>> /\ IsContainer(Last(s))
  <2>. PICK f : f = Last(s) OBVIOUS
  <2>. PICK b : b = Front(s) OBVIOUS
  <2>. PICK g : g = [f EXCEPT !.buffer = @ \cup T] OBVIOUS
  <2>1. u = Append(b, g) /\ K = J BY <1>2 DEF Deposited
  <2>2. /\ InOrder(b, t, src) /\ f.at = Position(b, t) /\ Tentative(f, src)
        /\ b # <<>> => Last(b).phase = "parts"
    BY <1>2, OrderBelow
  <2>3. f \in FrameType /\ b \in Seq(FrameType) /\ f.next \in Nat \ {0}
    <3>1. f \in FrameType /\ b \in Seq(FrameType) BY <1>2, FrontFacts
    <3>. QED BY <3>1, FrameFields
  <2>. PICK k : k = f.next - 1 OBVIOUS
  <2>4. k \in Nat /\ Report(T, Append(f.at, k), src)
    <3>1. Position(s, t) = Append(f.at, k) BY <1>2 DEF Position
    <3>. QED BY <2>3, <3>1
  <2>5. /\ g \in FrameType /\ Tentative(g, src)
        /\ g.at = f.at /\ g.kind = f.kind /\ g.body = f.body /\ g.phase = f.phase /\ g.next = f.next
    <3>1. /\ f \in FrameType /\ Tentative(f, src) /\ k \in Nat /\ Report(T, Append(f.at, k), src)
          /\ g = [f EXCEPT !.buffer = @ \cup T]
      BY <2>2, <2>3, <2>4
    <3>. QED BY ONLY <3>1, TentativeMore
  <2>6. u # <<>> /\ Last(u) = g /\ Front(u) = b BY <2>1, <2>3, <2>5, TopOf
  <2>7. IsContainer(g) BY <1>2, <2>5 DEF IsContainer
  <2>8. InOrder(u, t, src)
    <3>1. b = Front(u) /\ g = Last(u) /\ g.at = Position(b, t) BY <2>2, <2>5, <2>6
    <3>. QED BY <2>2, <2>5, <2>6, <2>7, <3>1, OrderTop
  <2>9. Covered(u, FALSE, K, t, src)
    <3>1. Done(u, FALSE, t) = Done(s, TRUE, t) BY <2>6 DEF Done
    <3>2. ASSUME ~IsContainer(u[1]) PROVE ~IsContainer(s[1]) /\ Passed(u, FALSE) = Passed(s, TRUE)
      <4>1. /\ Len(u) \in Nat /\ Len(u) > 0 /\ (Len(u) = 1 => u[1] = g)
            /\ Len(u) > 1 => b[1] = u[1]
            /\ b = <<>> <=> Len(u) = 1
        <5>1. Nested(u) /\ u # <<>> BY <2>6
        <5>2. /\ Len(u) \in Nat /\ Len(u) > 0 /\ (Len(u) = 1 => u[1] = Last(u))
              /\ Len(u) > 1 => Front(u)[1] = u[1]
              /\ Front(u) = <<>> <=> Len(u) = 1
          BY <5>1, FirstFrame
        <5>. QED BY <2>6, <5>2
      <4>2. Len(u) # 1 BY <2>7, <3>2, <4>1
      <4>3. Len(u) > 1 BY ONLY <4>1, <4>2, Several
      <4>4. /\ b = <<>> <=> Len(s) = 1
            /\ Len(s) > 1 => b[1] = s[1]
            /\ Len(s) \in Nat /\ Len(s) > 0
        BY <1>2, FirstFrame
      <4>5. Len(s) # 1 BY <4>1, <4>2, <4>4
      <4>6. Len(s) > 1 BY ONLY <4>4, <4>5, Several
      <4>7. u[1] = s[1] BY <4>1, <4>3, <4>4, <4>6
      <4>8. Passed(u, FALSE) = u[1].next - 2 /\ Passed(s, TRUE) = s[1].next - 2 BY <4>3, PassedIs
      <4>. QED BY ONLY <3>2, <4>7, <4>8
    <3>3. \A pos : Has(J, pos) => Has(K, pos) BY <2>1
    <3>. QED BY <1>2, <2>6, <3>1, <3>2, <3>3, CoveredMove
  <2>. QED BY <2>1, <2>8, <2>9
<1>3. CASE s # <<>> /\ ~IsContainer(Last(s))
  <2>. PICK f : f = Last(s) OBVIOUS
  <2>1. Len(s) = 1 /\ f = s[1] /\ f \in FrameType /\ Front(s) = <<>>
    <3>1. Len(s) \in Nat /\ Len(s) > 0 /\ (Len(s) = 1 => s[1] = f) /\ (Len(s) > 1 => IsContainer(f))
      BY <1>3, FirstFrame
    <3>2. ~(Len(s) > 1) BY <1>3, <3>1
    <3>3. Len(s) = 1 BY <3>1, <3>2, Several
    <3>. QED BY <1>3, <3>1, <3>3, FrontFacts
  <2>2. u = s /\ K = J \cup T BY <1>3 DEF Deposited
  <2>. PICK n : n = t - 1 OBVIOUS
  <2>. PICK k : k = f.next - 1 OBVIOUS
  <2>3. /\ n \in Nat /\ f.next \in Nat \ {0} /\ k \in Nat
    <3>1. f.next \in Nat \ {0} BY <2>1, FrameFields
    <3>. QED BY <3>1
  <2>4. f.at = <<n>> /\ Shape[src[n]] = "mbox"
    <3>1. f.at = Position(<<>>, t) /\ Tentative(f, src) /\ Shape[f.body] = "mbox"
      BY <1>3, <2>1, OrderBelow
    <3>2. f.at = <<n>> BY <3>1 DEF Position
    <3>3. f.body = BodyAt(src, <<n>>) BY <3>1, <3>2 DEF Tentative
    <3>4. BodyAt(src, <<n>>) = src[n] BY <2>3, BodyAtSource
    <3>. QED BY <3>1, <3>2, <3>3, <3>4
  <2>. PICK p : p = <<n, k>> OBVIOUS
  <2>5. p = Append(<<n>>, k) BY <2>3, SourceAt
  <2>6. Position(s, t) = p BY <1>3, <2>4, <2>5 DEF Position
  <2>7. p \in Seq(Nat) /\ p # <<>> /\ Len(p) = 2 /\ p[1] = n
    <3>. PICK q : q = <<n>> OBVIOUS
    <3>1. q \in Seq(Nat) /\ Len(q) = 1 /\ q[1] = n BY <2>3, SourceAt
    <3>2. Append(q, k) \in Seq(Nat) /\ Append(q, k) # <<>> /\ Len(Append(q, k)) = Len(q) + 1 BY <2>3, <3>1, PartFacts
    <3>3. Append(q, k)[1] = q[1]
      <4>1. 1 \in 1 .. Len(q) BY <3>1
      <4>. QED BY <2>3, <3>1, <4>1, AppendProperties
    <3>. QED BY <2>5, <3>1, <3>2, <3>3
  <2>8. Report(T, p, src) BY <2>6
  <2>9. Kept(K, src)
    <3>1. Len(p) <= Level(p[1], src) BY <2>4, <2>7 DEF Level
    <3>. QED BY <2>2, <2>7, <2>8, <3>1, KeptMore
  <2>10. Covered(u, FALSE, K, t, src)
    <3>1. \A i \in 1 .. Done(s, FALSE, t) : Told(K, i, src)
      <4>1. Done(s, FALSE, t) = Done(s, TRUE, t) BY <1>3 DEF Done
      <4>. QED BY <1>0, <2>2, <4>1, ToldMore DEF Covered
    <3>2. \A j \in 1 .. Passed(s, FALSE) : Has(K, <<n, j>>)
      <4>1. Passed(s, TRUE) = f.next - 2 /\ Passed(s, FALSE) = f.next - 1
        <5>1. ~(Len(s) > 1) BY <2>1
        <5>2. Passed(s, TRUE) = s[1].next - 2 /\ Passed(s, FALSE) = s[1].next - 1 BY <5>1, PassedIs
        <5>. QED BY <2>1, <5>2
      <4>2. \A j \in 1 .. Passed(s, TRUE) : Has(J, <<n, j>>) BY <1>3, <2>1 DEF Covered
      <4>3. \A j \in 1 .. f.next - 2 : Has(J, <<n, j>>) BY ONLY <4>1, <4>2
      <4>4. \A j \in 1 .. f.next - 2 : Has(K, <<n, j>>) BY <1>0, <2>2, <4>3
      <4>5. Has(K, <<n, k>>) BY <1>0, <2>2, <2>8 DEF Report
      <4>6. \A j \in 1 .. f.next - 1 : j = k \/ j \in 1 .. f.next - 2 BY <2>3
      <4>7. \A j \in 1 .. f.next - 1 : Has(K, <<n, j>>) BY <4>4, <4>5, <4>6
      <4>. QED BY ONLY <4>1, <4>7
    <3>. QED BY <2>2, <3>1, <3>2 DEF Covered
  <2>. QED BY <2>2, <2>9, <2>10
<1>. QED BY <1>1, <1>2, <1>3

-----------------------------------------------------------------------------
\* The invariant after a step that writes nothing.
LEMMA StandingNext ==
    ASSUME Standing, source' = source, journal' = journal,
           InOrder(stack', todo', source), Kept(Records', source),
           item' = {} \/ \E x : /\ item' = {x} /\ x.at = Position(stack', todo')
                                /\ x.body = BodyAt(source, x.at)
                                /\ stack' # <<>> => Last(stack').phase = "parts",
           failing' = {} \/ (outgoing' = {} /\ stack' # <<>> /\ IsContainer(Last(stack'))),
           Covered(stack', item' # {}, Records', todo', source)
    PROVE  Standing'
<1>1. Surrounded' /\ Distinct(journal)'
  BY DEF Standing, Surrounded
<1>2. \A x \in item' : x.at = Position(stack', todo') /\ x.body = BodyAt(source, x.at)
  OBVIOUS
<1>3. item' # {} /\ stack' # <<>> => Last(stack').phase = "parts"
  OBVIOUS
<1>. QED BY <1>1, <1>2, <1>3 DEF Standing, Top

\* With nothing at hand, ...
LEMMA StandsIdle ==
    ASSUME Standing, source' = source, journal' = journal, item' = {}, failing' = {},
           InOrder(stack', todo', source), Kept(Records', source),
           Covered(stack', FALSE, Records', todo', source)
    PROVE  Standing'
<1>1. (item' # {}) = FALSE
  OBVIOUS
<1>2. Covered(stack', item' # {}, Records', todo', source)
  BY <1>1
<1>. QED BY <1>2, StandingNext

\* ... and with a blob.
LEMMA StandsItem ==
    ASSUME Standing, source' = source, journal' = journal, failing' = {},
           NEW x, item' = {x}, x.at = Position(stack', todo'), x.body = BodyAt(source, x.at),
           stack' # <<>> => Last(stack').phase = "parts",
           InOrder(stack', todo', source), Kept(Records', source),
           Covered(stack', TRUE, Records', todo', source)
    PROVE  Standing'
<1>1. (item' # {}) = TRUE
  OBVIOUS
<1>2. Covered(stack', item' # {}, Records', todo', source)
  BY <1>1
<1>. QED BY <1>2, StandingNext

\* A container fails; the records stay.
LEMMA StandsFailing ==
    ASSUME Standing, source' = source, journal' = journal, item' = {}, outgoing' = {},
           stack' # <<>>, IsContainer(Last(stack')),
           InOrder(stack', todo', source), Kept(Records', source),
           Covered(stack', FALSE, Records', todo', source)
    PROVE  Standing'
<1>1. (item' # {}) = FALSE
  OBVIOUS
<1>2. Covered(stack', item' # {}, Records', todo', source)
  BY <1>1
<1>. QED BY <1>2, StandingNext

\* The records and the cursor of the source files.
LEMMA StandsTyped ==
    ASSUME Shaped
    PROVE  /\ Nested(stack) /\ journal \subseteq RecordType
           /\ source \in Seq(Content) /\ Len(source) \in Nat /\ DOMAIN source = 1 .. Len(source)
           /\ todo \in Nat /\ todo - 1 \in Nat /\ todo - 1 <= Len(source)
           /\ (todo - 1 > 0 => source[todo - 1] \in Content)
<1>1. source \in Seq(Content)
  BY ExpansionAssumption DEF Shaped
<1>2. Len(source) \in Nat /\ DOMAIN source = 1 .. Len(source)
  BY <1>1, LenProperties
<1>3. todo \in 1 .. Len(source) + 1
  BY DEF Shaped
<1>4. todo - 1 > 0 => source[todo - 1] \in Content
  <2>1. todo - 1 > 0 => todo - 1 \in 1 .. Len(source) BY <1>2, <1>3
  <2>. QED BY <1>1, <2>1, ElementOfSeq
<1>. QED BY <1>1, <1>2, <1>3, <1>4 DEF Shaped

\* What the invariant says when nothing is at hand, ...
LEMMA StandsNow ==
    ASSUME Standing, Idle
    PROVE  /\ Records = journal /\ InOrder(stack, todo, source) /\ Kept(journal, source)
           /\ Covered(stack, FALSE, journal, todo, source)
<1>1. Records = journal
  BY DEF Idle, Records
<1>2. (item # {}) = FALSE
  BY DEF Idle
<1>3. Covered(stack, item # {}, Records, todo, source)
  BY DEF Standing
<1>. QED BY <1>1, <1>2, <1>3 DEF Standing

\* ... and when a blob is.
LEMMA StandsAt ==
    ASSUME Shaped, Standing, NEW x, item = {x}, outgoing = {}
    PROVE  /\ Records = journal /\ InOrder(stack, todo, source) /\ Kept(journal, source)
           /\ Covered(stack, TRUE, journal, todo, source)
           /\ x.at = Position(stack, todo) /\ x.body = BodyAt(source, x.at)
           /\ stack # <<>> => Last(stack).phase = "parts"
           /\ failing = {} /\ x.at \in Seq(Nat) /\ x.body \in Content
<1>1. Records = journal
  BY DEF Records
<1>2. (item # {}) = TRUE
  OBVIOUS
<1>3. Covered(stack, item # {}, Records, todo, source)
  BY DEF Standing
<1>4. StagedHere(x) /\ failing = {}
  BY DEF Shaped, ItemHeld
<1>5. x.at \in Seq(Nat) /\ x.body \in Content
  BY <1>4 DEF StagedHere, ItemType, Positions
<1>. QED BY <1>1, <1>2, <1>3, <1>4, <1>5 DEF Standing, Top

-----------------------------------------------------------------------------
\* The steps of the stack.  A report of the position at hand is deposited.
LEMMA StandsFiled ==
    ASSUME Shaped, Standing, policy' = policy, NEW s, Nested(s), NEW t \in Nat, t - 1 \in Nat,
           InOrder(s, t, source), s # <<>> => Last(s).phase = "parts",
           Kept(journal, source), Covered(s, TRUE, journal, t, source),
           NEW T, Report(T, Position(s, t), source), Deposit(s, T), outgoing = {},
           journal' = journal, source' = source, todo' = t, item' = {}, failing' = {}
    PROVE  Standing'
<1>1. Deposited(s, T, journal, stack', Records')
  BY DEF Deposit, Deposited, Records
<1>2. Nested(stack')
  <2>1. T \in SUBSET RecordType /\ outgoing \subseteq RecordType BY DEF Report
  <2>2. SameFrames(s, stack') BY <2>1, DepositKeeps
  <2>. QED BY <2>2, NestedAlike
<1>. PICK u : u = stack' OBVIOUS
<1>. PICK K : K = Records' OBVIOUS
<1>3. Deposited(s, T, journal, u, K) /\ Nested(u) /\ journal \subseteq RecordType
  BY <1>1, <1>2 DEF Shaped
<1>4. InOrder(u, t, source) /\ Kept(K, source) /\ Covered(u, FALSE, K, t, source)
  BY <1>3, Filed
<1>. QED BY <1>4, StandsIdle

\* Nothing is found: the frames hold what they held.
LEMMA StandsStill ==
    ASSUME Shaped, Standing, Idle, SameFrames(stack, stack'), SameBooks(stack, stack'),
           item' = item, failing' = failing, UNCHANGED <<source, todo, outgoing, journal>>
    PROVE  Standing'
<1>1. /\ Records = journal /\ InOrder(stack, todo, source) /\ Kept(journal, source)
      /\ Covered(stack, FALSE, journal, todo, source) /\ Nested(stack)
  BY StandsNow DEF Shaped
<1>. PICK u : u = stack' OBVIOUS
<1>2. InOrder(u, todo, source) /\ Covered(u, FALSE, journal, todo, source)
  BY <1>1, OrderAlike
<1>3. Records' = journal /\ item' = {} /\ failing' = {}
  BY DEF Idle, Records
<1>. QED BY <1>1, <1>2, <1>3, StandsIdle

\* A container fails, whatever was charged before it.
LEMMA StandsFailed ==
    ASSUME Shaped, Standing, Idle, stack # <<>>, IsContainer(Top),
           SameFrames(stack, stack'), SameBooks(stack, stack'),
           UNCHANGED <<source, todo, item, outgoing, journal>>
    PROVE  Standing'
<1>1. /\ Records = journal /\ InOrder(stack, todo, source) /\ Kept(journal, source)
      /\ Covered(stack, FALSE, journal, todo, source) /\ Nested(stack)
  BY StandsNow DEF Shaped
<1>. PICK u : u = stack' OBVIOUS
<1>2. InOrder(u, todo, source) /\ Covered(u, FALSE, journal, todo, source)
  BY <1>1, OrderAlike
<1>3. u # <<>> /\ IsContainer(Last(u))
  <2>1. /\ Len(stack) \in Nat /\ Top = stack[Len(stack)] /\ Len(stack) \in 1 .. Len(stack)
    BY TopFacts
  <2>2. /\ u \in Seq(FrameType) /\ Len(u) = Len(stack) /\ Alike(stack[Len(stack)], u[Len(stack)])
    BY <2>1 DEF SameFrames
  <2>3. u # <<>> BY <2>1, <2>2, EmptySeq
  <2>4. Last(u) = u[Len(stack)] BY <2>2 DEF Last
  <2>5. Last(u).kind = Top.kind BY <2>1, <2>2, <2>4 DEF Alike
  <2>. QED BY <2>3, <2>5 DEF IsContainer
<1>4. Records' = journal /\ item' = {} /\ outgoing' = {}
  BY DEF Idle, Records
<1>. QED BY <1>1, <1>2, <1>3, <1>4, StandsFailing

\* A failure of members().
LEMMA StandsBroken ==
    ASSUME Shaped, Standing, NEW phase, InFrame({"archive"}, phase),
           SameFrames(stack, stack'), SameBooks(stack, stack'),
           UNCHANGED <<source, todo, item, outgoing, journal>>
    PROVE  Standing'
<1>1. Idle /\ stack # <<>> /\ IsContainer(Top)
  BY ArchiveFacts DEF InFrame
<1>. QED BY <1>1, StandsFailed

\* members() goes on to its next phase.
LEMMA StandsAdvanced ==
    ASSUME Shaped, Standing, NEW phase, InFrame({"archive"}, phase), phase # "parts",
           NEW next \in {"listing", "extracting", "staging", "parts"}, stack' = Advance(next),
           UNCHANGED <<source, todo, item, failing, outgoing, journal>>
    PROVE  Standing'
<1>1. Idle /\ stack # <<>> /\ Nested(stack) /\ Top.phase # "parts"
  BY FrameIdle
<1>2. SameFrames(stack, stack') /\ SameBooks(stack, stack')
  BY <1>1, BooksAdvanced
<1>. QED BY <1>1, <1>2, StandsStill

-----------------------------------------------------------------------------
\* Archives: unpacking, listing and extracting, ...
LEMMA ReadingStands ==
    ASSUME Shaped, Standing, UnpackStream \/ ListArchive \/ CheckArchive \/ FailArchive
    PROVE  Standing'
<1>1. ASSUME NEW phase, phase # "parts", InFrame({"archive"}, phase),
             UNCHANGED <<source, todo, item, outgoing, journal>>,
             \/ UNCHANGED stack
             \/ /\ UNCHANGED failing
                /\ \E next \in {"listing", "extracting", "staging", "parts"} : stack' = Advance(next)
      PROVE  Standing'
  <2>1. CASE UNCHANGED stack BY <1>1, <2>1, StackSame, StandsBroken
  <2>2. CASE /\ UNCHANGED failing
             /\ \E next \in {"listing", "extracting", "staging", "parts"} : stack' = Advance(next)
    BY <1>1, <2>2, StandsAdvanced
  <2>. QED BY <1>1, <2>1, <2>2
<1>2. CASE UnpackStream BY <1>1, <1>2 DEF UnpackStream
<1>3. CASE ListArchive BY <1>1, <1>3 DEF ListArchive
<1>4. CASE CheckArchive BY <1>1, <1>4 DEF CheckArchive
<1>5. CASE FailArchive
  <2>1. PICK phase \in {"unpacking", "listing", "staging"} : InFrame({"archive"}, phase)
    BY <1>5 DEF FailArchive
  <2>. QED BY <1>1, <1>5, <2>1 DEF FailArchive
<1>. QED BY <1>2, <1>3, <1>4, <1>5

\* A step that touches nothing of all this.
LEMMA StandingSame ==
    ASSUME Shaped, Standing, UNCHANGED <<source, todo, stack, item, failing, outgoing, journal>>
    PROVE  Standing'
<1>1. Records' = Records
  BY DEF Records
<1>. QED BY <1>1 DEF Standing, Surrounded, Top

\* ... the threads of an extraction and its end, ...
LEMMA ExtractionStands ==
    ASSUME Shaped, Standing, NEW p \in private,
           \/ \E i \in DOMAIN p.written : CheckChunk(p, i)
           \/ \E c \in p.pending : WriteChunk(p, c)
           \/ EndExtraction(p)
    PROVE  Standing'
<1>1. CASE UNCHANGED <<source, todo, stack, item, failing, outgoing, journal>>
  BY <1>1, StandingSame
<1>2. CASE EndExtraction(p)
  <2>1. /\ InFrame({"archive"}, "extracting") /\ UNCHANGED <<source, todo, item, outgoing, journal>>
    BY <1>2 DEF EndExtraction
  <2>2. CASE UNCHANGED stack BY <2>1, <2>2, StackSame, StandsBroken
  <2>3. CASE stack' = Advance("staging") /\ UNCHANGED failing BY <2>1, <2>3, StandsAdvanced
  <2>. QED BY <1>2, <2>2, <2>3 DEF EndExtraction
<1>. QED BY <1>1, <1>2 DEF CheckChunk, WriteChunk

\* ... and staging.
LEMMA StageMemberStands ==
    ASSUME Shaped, Standing, StageMember
    PROVE  Standing'
<1>. DEFINE bytes == Size[Inside[Top.next].body]
<1>1. /\ InFrame({"archive"}, "staging") /\ Top.next <= Len(Inside)
      /\ UNCHANGED <<source, todo, item, outgoing, journal>>
  BY DEF StageMember
<1>2. /\ Idle /\ stack # <<>> /\ Nested(stack) /\ Last(stack).phase # "parts" /\ Top.kind = "archive"
  BY <1>1, FrameIdle
<1>3. bytes \in Nat
  <2>1. /\ Top.next \in DOMAIN Inside /\ Inside = Parts[Top.body] /\ Top.body \in Content
        /\ Shape[Top.body] \in ArchiveShapes
    BY <1>1, <1>2, TopFacts DEF Inside
  <2>2. Inside[Top.next].body \in Content BY <2>1, ExpansionAssumption
  <2>. QED BY <2>2, ExpansionAssumption
<1>4. \/ UNCHANGED stack
      \/ \E x : FailMembers(x) /\ stack' = ChargedOutside(x.owner, bytes)
      \/ stack' = Stepped(ChargedStack(bytes)) /\ UNCHANGED failing
  BY DEF StageMember
<1>. HIDE DEF bytes
<1>5. CASE UNCHANGED stack
  BY <1>1, <1>5, StackSame, StandsBroken
<1>6. CASE \E x : FailMembers(x) /\ stack' = ChargedOutside(x.owner, bytes)
  <2>1. PICK x : stack' = ChargedOutside(x.owner, bytes) BY <1>6
  <2>2. SameFrames(stack, stack') /\ SameBooks(stack, stack') BY <1>2, <1>3, <2>1, BooksCharged
  <2>. QED BY <1>1, <2>2, StandsBroken
<1>7. CASE stack' = Stepped(ChargedStack(bytes)) /\ UNCHANGED failing
  <2>1. SameFrames(stack, stack') /\ SameBooks(stack, stack') BY <1>2, <1>3, <1>7, StagedBooks
  <2>. QED BY <1>1, <1>2, <1>7, <2>1, StandsStill
<1>. QED BY <1>4, <1>5, <1>6, <1>7

-----------------------------------------------------------------------------
\* Sources.  A mailbox is opened, ...
LEMMA OpenMailboxStands ==
    ASSUME Shaped, Standing, OpenMailbox, Shaped'
    PROVE  Standing'
<1>. PICK f : f = Frame("source", <<todo>>, source[todo], 0, "parts") OBVIOUS
<1>. PICK n : n = todo OBVIOUS
<1>. PICK t : t = todo + 1 OBVIOUS
<1>. PICK u : u = <<f>> OBVIOUS
<1>1. /\ AtSource /\ Idle /\ stack = <<>> /\ Shape[source[n]] = "mbox" /\ stack' = u /\ todo' = t
      /\ UNCHANGED <<source, policy, item, failing, outgoing, journal>>
  BY DEF OpenMailbox, AtSource
<1>2. n \in Nat /\ t \in Nat /\ t - 1 = n
  <2>1. n \in Nat BY StandsTyped
  <2>. QED BY <2>1
<1>3. /\ f.kind = "source" /\ f.at = <<n>> /\ f.body = source[n] /\ f.phase = "parts"
      /\ f.next = 1 /\ f.buffer = {}
  BY DEF Frame
<1>4. u # <<>> /\ Last(u) = f /\ Front(u) = <<>> /\ u[1] = f /\ Len(u) = 1
  <2>1. f \in FrameType
    <3>1. source[n] \in Content /\ <<n>> \in Seq(Nat) BY <1>1, SourceFacts
    <3>. QED BY <3>1, FrameMade
  <2>2. <<>> \in Seq(FrameType) /\ u = Append(<<>>, f) /\ u[1] = f /\ Len(u) = 1 OBVIOUS
  <2>. QED BY <2>1, <2>2, TopOf
<1>5. Nested(u)
  BY <1>1 DEF Shaped, Nested
<1>6. InOrder(u, t, source)
  <2>1. InOrder(<<>>, t, source)
    <3>1. DOMAIN <<>> = {} OBVIOUS
    <3>. QED BY <3>1 DEF InOrder
  <2>2. Tentative(f, source)
    <3>1. BodyAt(source, <<n>>) = source[n] BY <1>2, BodyAtSource
    <3>. QED BY <1>3, <3>1 DEF Tentative
  <2>3. f.at = Position(<<>>, t) BY <1>2, <1>3 DEF Position
  <2>4. <<>> = Front(u) /\ f = Last(u) /\ t - 1 \in Nat BY <1>2, <1>4
  <2>. QED BY <1>1, <1>2, <1>3, <1>4, <1>5, <2>1, <2>2, <2>3, <2>4, OrderTop
<1>7. /\ Records = journal /\ Kept(journal, source) /\ Covered(<<>>, FALSE, journal, n, source)
  BY <1>1, StandsNow
<1>8. Covered(u, FALSE, journal, t, source)
  <2>1. \A i \in 1 .. n - 1 : Told(journal, i, source) BY <1>7 DEF Covered, Done
  <2>2. Done(u, FALSE, t) = n - 1
    <3>1. t - 2 = n - 1 BY <1>2
    <3>. QED BY <1>4, <3>1 DEF Done
  <2>3. Passed(u, FALSE) = 0
    <3>1. ~(Len(u) > 1) BY <1>4
    <3>2. Passed(u, FALSE) = u[1].next - 1 BY <3>1, PassedIs
    <3>3. u[1].next - 1 = 0 BY <1>3, <1>4
    <3>. QED BY ONLY <3>2, <3>3
  <2>4. \A j \in 1 .. 0 : FALSE OBVIOUS
  <2>. QED BY <2>1, <2>2, <2>3, <2>4 DEF Covered
<1>9. Records' = journal /\ item' = {} /\ failing' = {}
  BY <1>1 DEF Records, Idle
<1>. QED BY <1>1, <1>6, <1>7, <1>8, <1>9, StandsIdle

\* ... or a source file read.
LEMMA ReadSourceStands ==
    ASSUME Shaped, Standing, ReadSource
    PROVE  Standing'
<1>. PICK n : n = todo OBVIOUS
<1>. PICK t : t = todo + 1 OBVIOUS
<1>. PICK q : q = <<n>> OBVIOUS
<1>1. /\ AtSource /\ Idle /\ stack = <<>> /\ todo' = t /\ UNCHANGED <<source, policy, failing, journal>>
  BY DEF ReadSource, AtSource
<1>2. n \in Nat /\ t \in Nat /\ t - 1 = n /\ source[n] \in Content /\ Content # {}
  <2>1. n \in Nat BY StandsTyped
  <2>2. source[n] \in Content BY <1>1, SourceFacts
  <2>. QED BY <2>1, <2>2
<1>3. Position(<<>>, t) = q /\ q \in Seq(Nat)
  BY <1>2, SourceAt DEF Position
<1>4. Nested(<<>>) /\ InOrder(<<>>, t, source)
  <2>1. DOMAIN <<>> = {} OBVIOUS
  <2>. QED BY <2>1, EmptyNested DEF InOrder
<1>5. /\ Records = journal /\ Kept(journal, source) /\ Covered(<<>>, FALSE, journal, n, source)
  BY <1>1, StandsNow
<1>6. Covered(<<>>, TRUE, journal, t, source)
  <2>1. \A i \in 1 .. n - 1 : Told(journal, i, source) BY <1>5 DEF Covered, Done
  <2>2. Done(<<>>, TRUE, t) = n - 1
    <3>1. t - 2 = n - 1 BY <1>2
    <3>. QED BY <3>1 DEF Done
  <2>. QED BY <2>1, <2>2 DEF Covered
<1>7. CASE \E reason \in {"unreadable"} \cup LimitReasons :
             Deposit(<<>>, {FailureRec(<<todo>>, reason)}) /\ UNCHANGED item
  <2>1. PICK reason \in {"unreadable"} \cup LimitReasons :
             Deposit(<<>>, {FailureRec(q, reason)}) /\ UNCHANGED item
    BY <1>7
  <2>. PICK r : r = FailureRec(q, reason) OBVIOUS
  <2>2. r \in RecordType /\ r.kind = "failure" /\ r.at = q BY <1>2, <1>3, FailureAccount
  <2>. PICK T : T = {r} OBVIOUS
  <2>3. Report(T, Position(<<>>, t), source)
    <3>1. Report({r}, r.at, source) BY <2>2, ReportOne
    <3>. QED BY <1>3, <2>2, <3>1
  <2>4. Deposit(<<>>, T) /\ item' = {} /\ failing' = {} /\ outgoing = {} BY <1>1, <2>1 DEF Idle
  <2>5. t - 1 \in Nat BY <1>2
  <2>. QED BY <1>1, <1>2, <1>4, <1>5, <1>6, <2>3, <2>4, <2>5, StandsFiled
<1>8. CASE item' = Pick(<<todo>>, source[todo], 0, FALSE) /\ UNCHANGED <<stack, outgoing>>
  <2>. PICK x : x = [at |-> q, body |-> source[n], depth |-> 0, whole |-> FALSE] OBVIOUS
  <2>1. item' = {x} /\ x.at = q /\ x.body = source[n] BY <1>8 DEF Pick
  <2>2. Records' = journal /\ failing' = {} /\ stack' = <<>> BY <1>1, <1>8 DEF Records, Idle
  <2>3. x.body = BodyAt(source, x.at)
    <3>1. BodyAt(source, <<n>>) = source[n] BY <1>2, BodyAtSource
    <3>. QED BY <2>1, <3>1
  <2>. QED BY <1>1, <1>3, <1>4, <1>5, <1>6, <2>1, <2>2, <2>3, StandsItem
<1>. QED
  <2>1. \A x \in PayloadLimits(Size[source[todo]]) : x.reason \in LimitReasons
    BY PayloadOwned DEF Shaped
  <2>. QED BY <1>7, <1>8, <2>1 DEF ReadSource

-----------------------------------------------------------------------------
\* One blob, recorded, ...
LEMMA RecordedStands ==
    ASSUME Shaped, Standing, NEW x, Classify(x), NEW T, Report(T, x.at, source), Deposit(stack, T),
           UNCHANGED <<source, policy, todo, failing, journal>>
    PROVE  Standing'
<1>1. item = {x} /\ outgoing = {} /\ item' = {}
  BY DEF Classify
<1>. PICK s : s = stack OBVIOUS
<1>. PICK t : t = todo OBVIOUS
<1>2. /\ InOrder(s, t, source) /\ Kept(journal, source) /\ Covered(s, TRUE, journal, t, source)
      /\ x.at = Position(s, t) /\ failing = {}
      /\ s # <<>> => Last(s).phase = "parts"
  BY <1>1, StandsAt
<1>3. Nested(s) /\ t \in Nat /\ t - 1 \in Nat
  BY StandsTyped
<1>4. /\ Report(T, Position(s, t), source) /\ Deposit(s, T) /\ todo' = t /\ failing' = {}
      /\ journal' = journal /\ source' = source /\ policy' = policy
  BY <1>2
<1>. QED BY <1>1, <1>2, <1>3, <1>4, StandsFiled

\* ... kept or refused, ...
LEMMA ClassifiedStands ==
    ASSUME Shaped, Standing, NEW x, KeepBlob(x) \/ RefuseContainer(x)
    PROVE  Standing'
<1>1. Classify(x) /\ UNCHANGED <<source, policy, todo, failing, journal>>
  BY DEF KeepBlob, RefuseContainer
<1>2. x.at \in Seq(Nat) /\ x.body \in Content /\ x.body = BodyAt(source, x.at)
  BY <1>1, StandsAt DEF Classify
<1>3. CASE KeepBlob(x)
  <2>. PICK r : r = BlobRec(x.at, x.body, "kept") OBVIOUS
  <2>1. r \in RecordType /\ r.kind = "blob" /\ r.at = x.at /\ r.body = x.body
    BY <1>2, RecordsTyped DEF BlobRec
  <2>2. Report({r}, r.at, source) BY <1>2, <2>1, ReportOne
  <2>3. Deposit(stack, {r}) /\ Report({r}, x.at, source) BY <1>3, <2>1, <2>2 DEF KeepBlob
  <2>. QED BY <1>1, <2>3, RecordedStands
<1>4. CASE RefuseContainer(x)
  <2>1. Deposit(stack, Rejection(x.at, x.body)) BY <1>4 DEF RefuseContainer
  <2>2. Report(Rejection(x.at, x.body), x.at, source) BY <1>2, ReportRefused
  <2>. QED BY <1>1, <2>1, <2>2, RecordedStands
<1>. QED BY <1>3, <1>4

\* ... or entered.
LEMMA EnterContainerStands ==
    ASSUME Shaped, Standing, NEW x, EnterContainer(x), Shaped'
    PROVE  Standing'
<1>. DEFINE shape == Shape[x.body]
            kind == IF shape \in ArchiveShapes THEN "archive" ELSE "mail"
            phase == IF kind = "archive" THEN (IF shape = "zst" THEN "unpacking" ELSE "listing") ELSE "parts"
<1>. PICK f : f = Frame(kind, x.at, x.body, x.depth, phase) OBVIOUS
<1>. PICK s : s = stack OBVIOUS
<1>. PICK u : u = stack' OBVIOUS
<1>. PICK t : t = todo OBVIOUS
<1>1. /\ Classify(x) /\ u = Append(s, f) /\ todo' = t
      /\ UNCHANGED <<source, policy, failing, outgoing, journal>>
  BY DEF EnterContainer
<1>2. outgoing = {} /\ item = {x} /\ item' = {} /\ x.depth \in Nat
  BY <1>1, ClassifyFacts DEF Classify
<1>3. /\ InOrder(s, t, source) /\ Kept(journal, source) /\ Covered(s, TRUE, journal, t, source)
      /\ x.at = Position(s, t) /\ failing = {} /\ x.at \in Seq(Nat) /\ x.body \in Content
      /\ x.body = BodyAt(source, x.at)
      /\ s # <<>> => Last(s).phase = "parts"
  BY <1>2, StandsAt
<1>4. Nested(s) /\ t \in Nat /\ t - 1 \in Nat /\ s \in Seq(FrameType)
  BY StandsTyped DEF Nested
<1>5. f \in FrameType /\ f.kind = kind /\ f.at = x.at /\ f.body = x.body /\ f.buffer = {}
  <2>1. f.buffer = {} /\ f.body = x.body BY DEF Frame
  <2>. QED BY <1>2, <1>3, <2>1, FrameMade
<1>6. IsContainer(f)
  BY <1>5 DEF IsContainer
<1>. HIDE DEF kind, phase
<1>7. u # <<>> /\ Last(u) = f /\ Front(u) = s /\ Len(u) = Len(s) + 1
  BY <1>1, <1>4, <1>5, TopOf
<1>8. Nested(u)
  BY <1>1 DEF Shaped, Nested
<1>9. InOrder(u, t, source)
  <2>1. Tentative(f, source) BY <1>3, <1>5 DEF Tentative
  <2>2. s = Front(u) /\ f = Last(u) /\ f.at = Position(s, t) BY <1>3, <1>5, <1>7
  <2>. QED BY <1>3, <1>4, <1>6, <1>7, <1>8, <2>1, <2>2, OrderTop
<1>10. Covered(u, FALSE, journal, t, source)
  <2>1. Done(u, FALSE, t) = Done(s, TRUE, t) BY <1>7 DEF Done
  <2>2. ASSUME ~IsContainer(u[1]) PROVE s # <<>> /\ ~IsContainer(s[1]) /\ Passed(u, FALSE) = Passed(s, TRUE)
    <3>1. Nested(u) /\ u # <<>> BY <1>7, <1>8
    <3>2. /\ Len(u) \in Nat /\ Len(u) > 0 /\ (Len(u) = 1 => u[1] = Last(u))
          /\ Len(u) > 1 => Front(u)[1] = u[1]
          /\ Front(u) = <<>> <=> Len(u) = 1
      BY <3>1, FirstFrame
    <3>3. Len(u) # 1 BY <1>6, <1>7, <2>2, <3>2
    <3>4. Len(u) > 1 BY ONLY <3>2, <3>3, Several
    <3>5. s # <<>> /\ u[1] = s[1] BY <1>7, <3>2, <3>3, <3>4
    <3>6. Passed(u, FALSE) = u[1].next - 2 /\ Passed(s, TRUE) = s[1].next - 2 BY <3>4, PassedIs
    <3>. QED BY ONLY <2>2, <3>5, <3>6
  <2>3. \A pos : Has(journal, pos) => Has(journal, pos) OBVIOUS
  <2>. QED BY <1>3, <2>1, <2>2, <2>3, CoveredMove
<1>11. Records' = journal /\ failing' = {}
  BY <1>1, <1>2, <1>3 DEF Records
<1>. QED BY <1>1, <1>2, <1>3, <1>9, <1>10, <1>11, StandsIdle

-----------------------------------------------------------------------------
\* Parts.  The next one is at hand, whatever is charged on the way.
LEMMA PartStands ==
    ASSUME Shaped, Standing, Idle, stack # <<>>, Top.phase = "parts", Top.next <= Len(Inside),
           NEW s, SameFrames(stack, s), SameBooks(stack, s)
    PROVE  /\ InOrder(Stepped(s), todo, source) /\ Nested(Stepped(s)) /\ Stepped(s) # <<>>
           /\ Last(Stepped(s)).phase = "parts"
           /\ Position(Stepped(s), todo) = PartAt /\ PartAt \in Seq(Nat)
           /\ Covered(Stepped(s), TRUE, journal, todo, source)
           /\ Inside[Top.next].body = BodyAt(source, PartAt)
<1>1. /\ InOrder(stack, todo, source) /\ Covered(stack, FALSE, journal, todo, source)
      /\ Nested(stack) /\ todo \in Nat /\ todo - 1 \in Nat
  BY StandsNow, StandsTyped
<1>2. /\ InOrder(s, todo, source) /\ Covered(s, FALSE, journal, todo, source) /\ Nested(s)
      /\ s # <<>>
  BY <1>1, OrderAlike, NestedAlike
<1>3. Last(s).phase = "parts" /\ Last(s).at = Top.at /\ Last(s).next = Top.next
  <2>. PICK n : n = Len(stack) OBVIOUS
  <2>1. n \in Nat /\ Top = stack[n] /\ n \in 1 .. n /\ Len(stack) = n BY TopFacts
  <2>2. /\ Len(s) = n /\ s[n].at = Top.at /\ s[n].phase = "parts" /\ s[n].next = Top.next
    BY <2>1 DEF SameFrames, SameBooks, Alike
  <2>. QED BY <1>2, <2>2 DEF Last
<1>4. /\ InOrder(Stepped(s), todo, source) /\ Nested(Stepped(s)) /\ Stepped(s) # <<>>
      /\ Last(Stepped(s)).phase = "parts"
      /\ Position(Stepped(s), todo) = Append(Last(s).at, Last(s).next)
      /\ Covered(Stepped(s), TRUE, journal, todo, source)
  BY <1>1, <1>2, <1>3, OrderStepped
<1>5. Position(Stepped(s), todo) = PartAt
  BY <1>3, <1>4 DEF PartAt
<1>. PICK p : p = Top.at OBVIOUS
<1>. PICK k : k = Top.next OBVIOUS
<1>6. p \in Seq(Nat) /\ p # <<>> /\ k \in Nat
  BY TopFacts
<1>7. Append(p, k) \in Seq(Nat)
  BY <1>6, PartFacts
<1>8. Top.body = BodyAt(source, p)
  BY <1>1, OrderBelow DEF Tentative, Top
<1>9. BodyAt(source, Append(p, k)) = Parts[BodyAt(source, p)][k].body
  BY <1>6, BodyAtPart
<1>. QED BY <1>4, <1>5, <1>7, <1>8, <1>9 DEF PartAt, Inside

\* It is staged, ...
LEMMA PartStagedStands ==
    ASSUME Shaped, Standing, Idle, stack # <<>>, Top.phase = "parts", Top.next <= Len(Inside),
           NEW s, SameFrames(stack, s), SameBooks(stack, s), stack' = Stepped(s),
           NEW depth, NEW whole, item' = Pick(PartAt, Inside[Top.next].body, depth, whole),
           UNCHANGED <<source, todo, failing, outgoing, journal>>
    PROVE  Standing'
<1>. PICK u : u = Stepped(s) OBVIOUS
<1>1. /\ InOrder(u, todo, source) /\ u # <<>> /\ Last(u).phase = "parts"
      /\ Position(u, todo) = PartAt /\ Covered(u, TRUE, journal, todo, source)
      /\ Inside[Top.next].body = BodyAt(source, PartAt)
  BY PartStands
<1>. PICK x : x = [at |-> PartAt, body |-> Inside[Top.next].body, depth |-> depth, whole |-> whole] OBVIOUS
<1>2. item' = {x} /\ x.at = PartAt /\ x.body = Inside[Top.next].body
  BY DEF Pick
<1>3. Records' = journal /\ failing' = {} /\ Kept(journal, source) /\ stack' = u
  BY StandsNow DEF Records, Idle
<1>4. x.at = Position(u, todo) /\ x.body = BodyAt(source, x.at)
  BY <1>1, <1>2
<1>. QED BY <1>1, <1>2, <1>3, <1>4, StandsItem

\* ... or its failure is all there is to say.
LEMMA LeafRecordedStands ==
    ASSUME Shaped, Standing, AtLeaf, NEW reason \in {"unreadable", "depth", "undecoded"} \cup LimitReasons,
           Deposit(Stepped(stack), {FailureRec(PartAt, reason)}),
           UNCHANGED <<source, policy, todo, item, failing, journal>>
    PROVE  Standing'
<1>1. /\ Idle /\ stack # <<>> /\ Top.phase = "parts" /\ Nested(stack) /\ Top.next <= Len(Inside)
  BY FrameIdle DEF AtLeaf
<1>2. SameFrames(stack, stack) /\ SameBooks(stack, stack)
  BY <1>1, BooksSame
<1>. PICK s : s = Stepped(stack) OBVIOUS
<1>. PICK t : t = todo OBVIOUS
<1>. PICK r : r = FailureRec(PartAt, reason) OBVIOUS
<1>. PICK T : T = {r} OBVIOUS
<1>3. /\ InOrder(s, t, source) /\ Nested(s) /\ s # <<>> /\ Last(s).phase = "parts"
      /\ Position(s, t) = PartAt /\ PartAt \in Seq(Nat) /\ Covered(s, TRUE, journal, t, source)
  BY <1>1, <1>2, PartStands
<1>4. Report(T, Position(s, t), source)
  <2>1. Content # {} BY <1>1, TopFacts
  <2>2. r \in RecordType /\ r.kind = "failure" /\ r.at = PartAt BY <1>3, <2>1, FailureAccount
  <2>3. Report({r}, r.at, source) BY <2>2, ReportOne
  <2>. QED BY <1>3, <2>2, <2>3
<1>5. /\ Deposit(s, T) /\ outgoing = {} /\ journal' = journal /\ source' = source /\ todo' = t
      /\ item' = {} /\ failing' = {} /\ policy' = policy
  BY <1>1 DEF Idle
<1>6. Kept(journal, source) /\ t \in Nat /\ t - 1 \in Nat
  BY <1>1, StandsNow, StandsTyped
<1>. QED BY <1>3, <1>4, <1>5, <1>6, StandsFiled

\* Members, and leaves that are passed, refused with their container, or staged.
LEMMA PartsStand ==
    ASSUME Shaped, Standing, NextMember \/ TooManyLeaves \/ PassLeaf \/ StageLeaf
    PROVE  Standing'
<1>1. CASE NextMember
  <2>1. /\ InFrame({"archive"}, "parts") /\ Top.next <= Len(Inside) /\ stack' = Stepped(stack)
        /\ item' = Pick(PartAt, Inside[Top.next].body, Top.depth + 1, FALSE)
        /\ UNCHANGED <<source, todo, failing, outgoing, journal>>
    BY <1>1 DEF NextMember
  <2>2. /\ Idle /\ stack # <<>> /\ Top.phase = "parts" /\ Nested(stack)
    BY <2>1, FrameIdle
  <2>3. SameFrames(stack, stack) /\ SameBooks(stack, stack) BY <2>2, BooksSame
  <2>. QED BY <2>1, <2>2, <2>3, PartStagedStands
<1>2. CASE TooManyLeaves
  <2>1. /\ AtLeaf /\ IsContainer(Top) /\ UNCHANGED <<source, todo, stack, item, outgoing, journal>>
    BY <1>2 DEF TooManyLeaves, Overfull, IsContainer
  <2>2. Idle /\ stack # <<>> BY <2>1, FrameIdle DEF AtLeaf
  <2>. QED BY <2>1, <2>2, StackSame, StandsFailed
<1>3. CASE PassLeaf
  <2>. DEFINE reason == IF LeafTooDeep THEN "depth" ELSE "undecoded"
  <2>1. /\ AtLeaf /\ Deposit(Stepped(stack), {FailureRec(PartAt, reason)})
        /\ UNCHANGED <<source, policy, todo, item, failing, journal>>
    BY <1>3 DEF PassLeaf, LeafFailure
  <2>2. reason \in {"unreadable", "depth", "undecoded"} \cup LimitReasons OBVIOUS
  <2>. HIDE DEF reason
  <2>. QED BY <2>1, <2>2, LeafRecordedStands
<1>4. CASE StageLeaf
  <2>1. /\ AtLeaf /\ Leaf.body # NoBody /\ Top.next <= Len(Inside)
        /\ UNCHANGED <<source, policy, todo, journal>>
    BY <1>4 DEF StageLeaf, AtLeaf
  <2>2. /\ Idle /\ stack # <<>> /\ Top.phase = "parts" /\ Nested(stack)
    BY <2>1, FrameIdle DEF AtLeaf
  <2>. PICK bytes : bytes = Size[Leaf.body] OBVIOUS
  <2>3. bytes \in Nat BY <2>1, LeafFacts, ExpansionAssumption
  <2>4. CASE /\ \E x \in PayloadLimits(bytes) : Deposit(Stepped(stack), {FailureRec(PartAt, x.reason)})
             /\ UNCHANGED <<item, failing>>
    <3>1. PICK x \in PayloadLimits(bytes) : Deposit(Stepped(stack), {FailureRec(PartAt, x.reason)})
      BY <2>4
    <3>2. x.reason \in LimitReasons BY <2>2, <3>1, PayloadOwned
    <3>. QED BY <2>1, <2>4, <3>1, <3>2, LeafRecordedStands
  <2>5. CASE Containers # {} /\ UNCHANGED <<stack, item, outgoing>>
    <3>1. IsContainer(Top)
      <4>1. PICK i \in DOMAIN stack : IsContainer(stack[i]) BY <2>5 DEF Containers
      <4>2. /\ Top = stack[Len(stack)] /\ DOMAIN stack = 1 .. Len(stack)
            /\ ~IsContainer(Top) => Len(stack) = 1
        BY <2>2, TopFacts
      <4>. QED BY <4>1, <4>2
    <3>. QED BY <2>1, <2>2, <2>5, <3>1, StackSame, StandsFailed
  <2>6. CASE /\ stack' = Stepped(ChargedStack(bytes))
             /\ item' = Pick(PartAt, Leaf.body, Top.depth + Leaf.hops, Leaf.whole)
             /\ UNCHANGED <<failing, outgoing>>
    <3>. PICK s : s = ChargedStack(bytes) OBVIOUS
    <3>1. SameFrames(stack, s) /\ SameBooks(stack, s) BY <2>2, <2>3, BooksCharged
    <3>2. stack' = Stepped(s) BY <2>6
    <3>3. item' = Pick(PartAt, Inside[Top.next].body, Top.depth + Leaf.hops, Leaf.whole) BY <2>6 DEF Leaf
    <3>. QED BY <2>1, <2>2, <2>6, <3>1, <3>2, <3>3, PartStagedStands
  <2>. QED BY <1>4, <2>4, <2>5, <2>6 DEF StageLeaf
<1>. QED BY <1>1, <1>2, <1>3, <1>4

\* A source file is given up: its failure is all there is to say, whatever is told of
\* its parts.
LEMMA GiveUpSourceStands ==
    ASSUME Shaped, Standing, GiveUpSource
    PROVE  Standing'
<1>. PICK n : n = todo - 1 OBVIOUS
<1>. PICK t : t = todo OBVIOUS
<1>. PICK q : q = <<n>> OBVIOUS
<1>. PICK r : r = FailureRec(q, "unreadable") OBVIOUS
<1>. PICK T : T = {r} OBVIOUS
<1>1. /\ AtLeaf \/ (item # {} /\ outgoing = {})
      /\ Deposit(<<>>, T) /\ item' = {} /\ UNCHANGED <<source, policy, todo, failing, journal>>
  BY DEF GiveUpSource
<1>2. n \in Nat /\ t \in Nat
  BY StandsTyped
<1>3. /\ Kept(journal, source) /\ outgoing = {} /\ failing = {} /\ Content # {}
      /\ \E busy : Covered(stack, busy, journal, t, source) /\ Done(stack, busy, t) = t - 2
  <2>1. CASE AtLeaf
    <3>1. Idle /\ stack # <<>> BY <2>1, FrameIdle DEF AtLeaf
    <3>2. Kept(journal, source) /\ Covered(stack, FALSE, journal, t, source) BY <3>1, StandsNow
    <3>3. Done(stack, FALSE, t) = t - 2 BY <3>1 DEF Done
    <3>. QED BY <3>1, <3>2, <3>3, TopFacts DEF Idle
  <2>2. CASE item # {} /\ outgoing = {}
    <3>1. PICK x : item = {x} BY <2>2 DEF Shaped, ItemHeld
    <3>2. /\ Kept(journal, source) /\ Covered(stack, TRUE, journal, t, source) /\ failing = {}
          /\ x.body \in Content
      BY <2>2, <3>1, StandsAt
    <3>3. Done(stack, TRUE, t) = t - 2 BY DEF Done
    <3>. QED BY <2>2, <3>2, <3>3
  <2>. QED BY <1>1, <2>1, <2>2
<1>4. Nested(<<>>) /\ InOrder(<<>>, t, source)
  <2>1. DOMAIN <<>> = {} OBVIOUS
  <2>. QED BY <2>1, EmptyNested DEF InOrder
<1>5. Covered(<<>>, TRUE, journal, t, source)
  <2>1. PICK busy : Covered(stack, busy, journal, t, source) /\ Done(stack, busy, t) = t - 2 BY <1>3
  <2>2. \A i \in 1 .. t - 2 : Told(journal, i, source) BY <2>1 DEF Covered
  <2>3. Done(<<>>, TRUE, t) = t - 2 BY DEF Done
  <2>. QED BY <2>2, <2>3 DEF Covered
<1>6. Report(T, Position(<<>>, t), source)
  <2>1. Position(<<>>, t) = q /\ q \in Seq(Nat) BY <1>2, SourceAt DEF Position
  <2>2. r \in RecordType /\ r.kind = "failure" /\ r.at = q BY <1>3, <2>1, FailureAccount
  <2>3. Report({r}, r.at, source) BY <2>2, ReportOne
  <2>. QED BY <2>1, <2>2, <2>3
<1>7. t - 1 \in Nat /\ todo' = t /\ failing' = {} /\ journal' = journal /\ source' = source /\ policy' = policy
  BY <1>1, <1>2, <1>3
<1>. QED BY <1>1, <1>2, <1>3, <1>4, <1>5, <1>6, <1>7, StandsFiled

-----------------------------------------------------------------------------
\* What is reported of the innermost frame as a whole is filed where the one below has
\* its cursor.
LEMMA LeftStands ==
    ASSUME Shaped, Standing, stack # <<>>, IsContainer(Top), outgoing = {}, item = {},
           NEW T, Report(T, Top.at, source), Deposit(Below, T),
           UNCHANGED <<source, policy, todo, item, journal>>, failing' = {}
    PROVE  Standing'
<1>. PICK s : s = Below OBVIOUS
<1>. PICK t : t = todo OBVIOUS
<1>1. /\ Nested(stack) /\ InOrder(stack, t, source) /\ t \in Nat /\ t - 1 \in Nat
  BY StandsTyped DEF Standing
<1>2. Nested(s)
  BY <1>1, FrontFacts DEF Below
<1>3. /\ InOrder(s, t, source) /\ Top.at = Position(s, t)
      /\ s # <<>> => Last(s).phase = "parts"
  BY <1>1, OrderBelow DEF Below, Top
<1>4. Records = journal /\ Kept(journal, source)
  BY DEF Standing, Records
<1>5. Covered(stack, FALSE, journal, t, source)
  <2>1. (item # {}) = FALSE OBVIOUS
  <2>2. Covered(stack, item # {}, Records, todo, source) BY DEF Standing
  <2>. QED BY <1>4, <2>1, <2>2
<1>6. Covered(s, TRUE, journal, t, source)
  <2>1. IsContainer(Last(stack)) BY DEF Top
  <2>2. Covered(Front(stack), TRUE, journal, t, source) BY <1>1, <1>5, <2>1, CoveredBelow
  <2>. QED BY <2>2 DEF Below
<1>7. /\ Report(T, Position(s, t), source) /\ Deposit(s, T) /\ outgoing = {} /\ todo' = t
      /\ journal' = journal /\ source' = source /\ policy' = policy /\ item' = {} /\ failing' = {}
  BY <1>3
<1>. QED BY <1>1, <1>2, <1>3, <1>4, <1>6, <1>7, StandsFiled

\* A container whose parts are done is reported with them, ...
LEMMA CloseContainerStands ==
    ASSUME Shaped, Standing, CloseContainer
    PROVE  Standing'
<1>. PICK f : f = Top OBVIOUS
<1>. PICK T : T = f.buffer \cup {ContainerRec(f.at, f.body, "expanded")} OBVIOUS
<1>1. /\ InFrame({"archive", "mail", "source"}, "parts") /\ IsContainer(Top) /\ Deposit(Below, T)
      /\ UNCHANGED <<source, policy, todo, item, failing, journal>>
  BY DEF CloseContainer, AtEnd
<1>2. Idle /\ stack # <<>> /\ Nested(stack)
  BY <1>1, FrameIdle
<1>3. f \in FrameType /\ Tentative(f, source)
  <2>1. InOrder(stack, todo, source) BY DEF Standing
  <2>. QED BY <1>2, <2>1, TopFacts, OrderBelow DEF Top
<1>4. Report(T, f.at, source)
  BY <1>3, ReportExpanded
<1>5. Report(T, Top.at, source) /\ outgoing = {} /\ item = {} /\ failing' = {}
  BY <1>1, <1>2, <1>4 DEF Idle
<1>. QED BY <1>1, <1>2, <1>5, LeftStands

\* ... a mailbox among the source files has told of all its messages, ...
LEMMA CloseMailboxStands ==
    ASSUME Shaped, Standing, CloseMailbox
    PROVE  Standing'
<1>. PICK f : f = Top OBVIOUS
<1>. PICK t : t = todo OBVIOUS
<1>. PICK n : n = t - 1 OBVIOUS
<1>1. /\ InFrame({"archive", "mail", "source"}, "parts") /\ Top.next > Len(Inside) /\ ~IsContainer(Top)
      /\ stack' = Below /\ UNCHANGED <<source, todo, item, failing, outgoing, journal>>
  BY DEF CloseMailbox, AtEnd
<1>2. Idle /\ stack # <<>> /\ Nested(stack) /\ f = Last(stack)
  BY <1>1, FrameIdle
<1>3. /\ Len(stack) = 1 /\ f.next \in Nat /\ Len(Inside) \in Nat /\ DOMAIN Inside = 1 .. Len(Inside)
  BY <1>1, <1>2, TopFacts
<1>4. stack' = <<>> /\ stack[1] = f
  BY <1>1, <1>2, <1>3, FrontFacts DEF Below
<1>5. /\ Records = journal /\ InOrder(stack, t, source) /\ Kept(journal, source)
      /\ Covered(stack, FALSE, journal, t, source)
  BY <1>2, StandsNow
<1>6. t \in Nat /\ n \in Nat
  BY StandsTyped
<1>7. f.body = source[n] /\ Shape[source[n]] = "mbox"
  <2>1. /\ f.at = Position(Front(stack), t) /\ Tentative(f, source) /\ Shape[f.body] = "mbox"
        /\ Front(stack) = <<>>
    BY <1>1, <1>2, <1>3, <1>5, OrderBelow, FrontFacts
  <2>2. f.at = <<n>> BY <2>1 DEF Position
  <2>3. f.body = BodyAt(source, <<n>>) BY <2>1, <2>2 DEF Tentative
  <2>4. BodyAt(source, <<n>>) = source[n] BY <1>6, BodyAtSource
  <2>. QED BY <2>1, <2>3, <2>4
<1>8. Told(journal, n, source)
  <2>1. \A j \in 1 .. Passed(stack, FALSE) : Has(journal, <<n, j>>)
    BY <1>1, <1>2, <1>4, <1>5 DEF Covered
  <2>2. Passed(stack, FALSE) = f.next - 1
    <3>1. ~(Len(stack) > 1) BY <1>3
    <3>2. Passed(stack, FALSE) = stack[1].next - 1 BY <3>1, PassedIs
    <3>. QED BY ONLY <1>4, <3>2
  <2>3. \A j \in 1 .. f.next - 1 : Has(journal, <<n, j>>) BY ONLY <2>1, <2>2
  <2>4. Inside = Parts[source[n]] BY <1>7 DEF Inside
  <2>5. \A j \in DOMAIN Inside : j \in 1 .. f.next - 1 BY <1>1, <1>3
  <2>6. \A j \in DOMAIN Inside : Has(journal, <<n, j>>) BY <2>3, <2>5
  <2>. QED BY <1>7, <2>4, <2>6 DEF Told
<1>9. Covered(<<>>, FALSE, journal, t, source)
  <2>1. Done(stack, FALSE, t) = t - 2 /\ Done(<<>>, FALSE, t) = t - 1 BY <1>2 DEF Done
  <2>2. \A i \in 1 .. Done(stack, FALSE, t) : Told(journal, i, source) BY <1>5 DEF Covered
  <2>3. \A i \in 1 .. t - 2 : Told(journal, i, source) BY ONLY <2>1, <2>2
  <2>4. \A i \in 1 .. t - 1 : i = n \/ i \in 1 .. t - 2 BY <1>6
  <2>5. \A i \in 1 .. t - 1 : Told(journal, i, source) BY <1>8, <2>3, <2>4
  <2>6. \A i \in 1 .. Done(<<>>, FALSE, t) : Told(journal, i, source) BY ONLY <2>1, <2>5
  <2>. QED BY <2>6 DEF Covered
<1>10. InOrder(<<>>, t, source)
  <2>1. DOMAIN <<>> = {} OBVIOUS
  <2>. QED BY <2>1 DEF InOrder
<1>11. Records' = journal /\ item' = {} /\ failing' = {} /\ todo' = t /\ source' = source /\ journal' = journal
  BY <1>1, <1>2 DEF Records, Idle
<1>. QED BY <1>4, <1>5, <1>9, <1>10, <1>11, StandsIdle

\* ... and one that failed, or has something inside that did, is left on the way to
\* the container the failure belongs to, which is refused.
LEMMA UnwindStands ==
    ASSUME Shaped, Standing, Unwind
    PROVE  Standing'
<1>1. /\ failing # {} /\ stack # <<>> /\ IsContainer(Top)
      /\ UNCHANGED <<source, policy, todo, item, journal>>
  BY DEF Unwind
<1>2. PICK x : failing = {x} /\ x.owner \in Places(stack) /\ item = {}
  BY <1>1, PrivateFacts DEF Shaped, FailureHeld
<1>. PICK b : b = Below OBVIOUS
<1>. PICK t : t = todo OBVIOUS
<1>3. outgoing = {} /\ Records = journal /\ Kept(journal, source) /\ InOrder(stack, t, source)
  BY <1>1 DEF Standing, Records
<1>4. Nested(stack) /\ Nested(b) /\ Places(stack) \subseteq Places(b) \cup {Top.at}
  BY <1>1, NestedBelow DEF Shaped, Below, Top
<1>5. Covered(stack, FALSE, journal, t, source)
  <2>1. (item # {}) = FALSE BY <1>2
  <2>2. Covered(stack, item # {}, Records, todo, source) BY DEF Standing
  <2>. QED BY <1>3, <2>1, <2>2
<1>6. CASE x.owner # Top.at /\ stack' = Below /\ UNCHANGED <<failing, outgoing>>
  <2>1. x.owner \in Places(b) BY <1>2, <1>4, <1>6
  <2>2. PICK i \in DOMAIN b : IsContainer(b[i]) BY <2>1 DEF Places
  <2>3. b # <<>> BY <2>2
  <2>4. IsContainer(Last(b))
    <3>1. DOMAIN b = 1 .. Len(b) /\ Last(b) = b[Len(b)] /\ Len(b) \in Nat /\ Len(b) > 0
      BY <1>4, <2>3, FrontFacts
    <3>2. Len(b) > 1 => IsContainer(b[Len(b)]) BY <1>4, <3>1 DEF Nested
    <3>. QED BY <2>2, <3>1, <3>2
  <2>5. InOrder(b, t, source) BY <1>1, <1>3, <1>4, OrderBelow DEF Below
  <2>6. Covered(b, FALSE, journal, t, source)
    <3>1. IsContainer(Last(stack)) BY <1>1 DEF Top
    <3>2. Front(stack) # <<>> /\ IsContainer(Last(Front(stack))) => Covered(Front(stack), FALSE, journal, t, source)
      BY <1>1, <1>4, <1>5, <3>1, CoveredBelow
    <3>. QED BY <2>3, <2>4, <3>2 DEF Below
  <2>7. Records' = journal /\ item' = {} /\ outgoing' = {} /\ stack' = b /\ todo' = t
    BY <1>1, <1>2, <1>3, <1>6 DEF Records
  <2>8. /\ stack' # <<>> /\ IsContainer(Last(stack')) /\ InOrder(stack', todo', source)
        /\ Kept(Records', source) /\ Covered(stack', FALSE, Records', todo', source)
    BY <1>3, <2>3, <2>4, <2>5, <2>6, <2>7
  <2>. QED BY <1>1, <2>7, <2>8, StandsFailing
<1>7. CASE Deposit(Below, Rejection(Top.at, Top.body)) /\ failing' = {}
  <2>. PICK T : T = Rejection(Top.at, Top.body) OBVIOUS
  <2>1. Top.body = BodyAt(source, Top.at) BY <1>1, <1>3, <1>4, OrderBelow DEF Top, Tentative
  <2>2. Report(T, Top.at, source)
    <3>1. Top.at \in Seq(Nat) /\ Top.body \in Content BY <1>1, TopFacts
    <3>. QED BY <2>1, <3>1, ReportRefused
  <2>. QED BY <1>1, <1>2, <1>3, <1>7, <2>2, LeftStands
<1>. QED BY <1>2, <1>6, <1>7 DEF Unwind, OnlyRejection

-----------------------------------------------------------------------------
\* A record replaces one that tells and surrounds the same.
LEMMA ToldWritten ==
    ASSUME NEW J, NEW r, NEW L, L = {s \in J : ~SameId(r, s)} \cup {r}
    PROVE  /\ \A pos : Has(J, pos) => Has(L, pos)
           /\ \A pos : Surrounds(J, pos) => Surrounds(L, pos)
           /\ Distinct(J) => Distinct(L)
<1>1. \A s \in J : \E c \in L : c.kind = s.kind /\ c.at = s.at
  <2>. SUFFICES ASSUME NEW s \in J PROVE \E c \in L : c.kind = s.kind /\ c.at = s.at OBVIOUS
  <2>1. CASE SameId(r, s)
    <3>1. r \in L /\ r.kind = s.kind /\ r.at = s.at BY <2>1 DEF SameId
    <3>. QED BY <3>1
  <2>2. CASE ~SameId(r, s)
    <3>1. s \in L BY <2>2
    <3>. QED BY <3>1
  <2>. QED BY <2>1, <2>2
<1>2. ASSUME NEW pos, Has(J, pos) PROVE Has(L, pos)
  BY <1>1, <1>2 DEF Has
<1>3. ASSUME NEW pos, Surrounds(J, pos) PROVE Surrounds(L, pos)
  <2>1. PICK s \in J : s.kind = "container" /\ s.at = pos BY <1>3 DEF Surrounds
  <2>2. PICK c \in L : c.kind = s.kind /\ c.at = s.at BY <1>1
  <2>. QED BY <2>1, <2>2 DEF Surrounds
<1>4. ASSUME Distinct(J), NEW a \in L, NEW b \in L, SameId(a, b) PROVE a = b
  <2>1. SameId(b, a) BY <1>4 DEF SameId
  <2>2. a = r \/ (a \in J /\ ~SameId(r, a)) OBVIOUS
  <2>3. b = r \/ (b \in J /\ ~SameId(r, b)) OBVIOUS
  <2>4. CASE a = r BY <1>4, <2>3, <2>4
  <2>5. CASE b = r BY <2>1, <2>2, <2>5
  <2>6. CASE a \in J /\ b \in J BY <1>4, <2>6 DEF Distinct
  <2>. QED BY <2>2, <2>3, <2>4, <2>5, <2>6
<1>5. Distinct(J) => Distinct(L)
  BY <1>4 DEF Distinct
<1>. QED BY <1>2, <1>3, <1>5

\* What is found of an occurrence is a container record at each level but that of a
\* mailbox among the source files.
LEMMA LevelFacts ==
    ASSUME NEW n \in Nat, n > 0, NEW k, NEW src
    PROVE  n >= Level(k, src) \/ (n = 1 /\ Shape[src[k]] = "mbox")
<1>1. CASE Shape[src[k]] = "mbox"
  BY <1>1 DEF Level
<1>2. CASE Shape[src[k]] # "mbox"
  BY <1>2 DEF Level
<1>. QED BY <1>1, <1>2

\* A record on its way is written, after the containers that surround it.
LEMMA WriteRecordStands ==
    ASSUME Shaped, Standing, NEW r \in outgoing, WriteRecord(r)
    PROVE  Standing'
<1>. PICK J : J = journal OBVIOUS
<1>. PICK L : L = journal' OBVIOUS
<1>. PICK K : K = Records OBVIOUS
<1>. PICK M : M = Records' OBVIOUS
<1>1. /\ L = {s \in J : ~SameId(r, s)} \cup {r} /\ outgoing' = outgoing \ {r} /\ ContainersFirst(r)
      /\ UNCHANGED <<source, todo, stack, item, failing>>
  BY DEF WriteRecord, Upsert
<1>2. /\ \A pos : Has(J, pos) => Has(L, pos)
      /\ \A pos : Surrounds(J, pos) => Surrounds(L, pos)
      /\ Distinct(J) => Distinct(L)
  BY <1>1, ToldWritten
<1>3. K = J \cup outgoing /\ M = L \cup (outgoing \ {r}) /\ r \in L /\ M \subseteq K
  BY <1>1 DEF Records
<1>4. (\A pos : Has(K, pos) => Has(M, pos)) /\ \A pos : Surrounds(K, pos) => Surrounds(M, pos)
  BY <1>2, <1>3 DEF Has, Surrounds
<1>5. Kept(K, source) /\ Surrounded /\ Distinct(J) /\ failing = {} /\ K \subseteq RecordType
  BY <1>3 DEF Standing, Shaped
<1>6. Kept(M, source)
  <2>. SUFFICES ASSUME NEW s \in M PROVE True(s, source) /\ Found(s, M, Level(s.at[1], source)) BY DEF Kept
  <2>1. True(s, source) /\ Found(s, K, Level(s.at[1], source)) BY <1>3, <1>5 DEF Kept
  <2>2. Found(s, M, Level(s.at[1], source)) BY <1>4, <2>1 DEF Found
  <2>. QED BY <2>1, <2>2
<1>7. ASSUME NEW s \in L, s.kind # "container", NEW n \in 1 .. Len(s.at) - 1
      PROVE  (n = 1 /\ Shape[source[s.at[1]]] = "mbox") \/ Surrounds(L, SubSeq(s.at, 1, n))
  <2>1. CASE s \in J
    <3>1. (n = 1 /\ Shape[source[s.at[1]]] = "mbox") \/ Surrounds(J, SubSeq(s.at, 1, n))
      BY <1>5, <1>7, <2>1 DEF Surrounded, Surrounds
    <3>. QED BY <1>2, <3>1
  <2>2. CASE s = r
    <3>. PICK k : k = s.at[1] OBVIOUS
    <3>1. s \in K BY <1>3, <2>2
    <3>2. Len(s.at) \in Nat BY <1>5, <3>1, RecordAt
    <3>3. n >= Level(k, source) \/ (n = 1 /\ Shape[source[k]] = "mbox") BY <3>2, LevelFacts
    <3>4. CASE n >= Level(k, source)
      <4>1. Level(k, source) \in Nat BY DEF Level
      <4>2. n \in Level(k, source) .. Len(s.at) - 1 BY <3>2, <3>4, <4>1
      <4>3. Found(s, K, Level(k, source)) BY <1>5, <3>1 DEF Kept
      <4>4. Surrounds(K, SubSeq(s.at, 1, n)) BY <1>7, <4>2, <4>3 DEF Found
      <4>5. \A c \in outgoing : c.kind # "container" BY <1>1, <1>7, <2>2 DEF ContainersFirst
      <4>6. Surrounds(J, SubSeq(s.at, 1, n)) BY <1>3, <4>4, <4>5 DEF Surrounds
      <4>. QED BY <1>2, <4>6
    <3>. QED BY <3>3, <3>4
  <2>. QED BY <1>1, <2>1, <2>2
<1>8. Surrounded'
  BY <1>1, <1>7 DEF Surrounded, Surrounds
<1>9. Covered(stack, item # {}, M, todo, source)
  <2>. PICK busy : busy = (item # {}) OBVIOUS
  <2>1. Covered(stack, busy, K, todo, source) BY DEF Standing
  <2>2. Covered(stack, busy, M, todo, source) BY <1>4, <2>1, CoveredMove
  <2>. QED BY <2>2
<1>10. Covered(stack', item' # {}, M, todo', source)
  BY <1>1, <1>9
<1>11. Distinct(journal)'
  BY <1>2, <1>5
<1>12. /\ InOrder(stack', todo', source) /\ \A x \in item' : x.at = Position(stack', todo') /\ x.body = BodyAt(source, x.at)
       /\ item' # {} /\ stack' # <<>> => Last(stack').phase = "parts"
       /\ failing' = {} /\ source' = source
  BY <1>1, <1>5 DEF Standing, Top
<1>. QED BY <1>6, <1>8, <1>10, <1>11, <1>12 DEF Standing, Top

\* Discovery begins again: nothing was found yet, and what was written is still there.
LEMMA RestartStands ==
    ASSUME Shaped, Standing, Restart
    PROVE  Standing'
<1>. PICK J : J = journal OBVIOUS
<1>1. /\ todo' = 1 /\ stack' = <<>> /\ item' = {} /\ failing' = {} /\ outgoing' = {}
      /\ source' = source /\ journal' = J
  BY DEF Restart
<1>2. Records' = J /\ J \subseteq RecordType /\ J \subseteq Records /\ Surrounded /\ Kept(Records, source)
  BY <1>1 DEF Standing, Shaped, Records
<1>3. Kept(J, source)
  <2>. SUFFICES ASSUME NEW s \in J PROVE True(s, source) /\ Found(s, J, Level(s.at[1], source)) BY DEF Kept
  <2>1. True(s, source) BY <1>2 DEF Kept
  <2>. PICK k : k = s.at[1] OBVIOUS
  <2>2. Len(s.at) \in Nat BY <1>2, RecordAt
  <2>3. ASSUME s.kind # "container", NEW n \in Level(k, source) .. Len(s.at) - 1
        PROVE  Surrounds(J, SubSeq(s.at, 1, n))
    <3>1. n \in 1 .. Len(s.at) - 1 /\ ~(n = 1 /\ Shape[source[k]] = "mbox")
      <4>1. CASE Shape[source[k]] = "mbox"
        <5>1. Level(k, source) = 2 BY <4>1 DEF Level
        <5>. QED BY <2>2, <5>1
      <4>2. CASE Shape[source[k]] # "mbox"
        <5>1. Level(k, source) = 1 BY <4>2 DEF Level
        <5>. QED BY <2>2, <4>2, <5>1
      <4>. QED BY <4>1, <4>2
    <3>. QED BY <1>2, <2>3, <3>1 DEF Surrounded, Surrounds
  <2>4. Found(s, J, Level(k, source)) BY <2>3 DEF Found
  <2>. QED BY <2>1, <2>4
<1>4. InOrder(<<>>, 1, source)
  <2>1. DOMAIN <<>> = {} OBVIOUS
  <2>. QED BY <2>1 DEF InOrder
<1>5. Covered(<<>>, FALSE, J, 1, source)
  <2>1. Done(<<>>, FALSE, 1) = 0 BY DEF Done
  <2>2. \A n \in 1 .. 0 : FALSE OBVIOUS
  <2>. QED BY <2>1, <2>2 DEF Covered
<1>. QED BY <1>1, <1>2, <1>3, <1>4, <1>5, StandsIdle

\* Nothing is told at the beginning, and nothing is to be told.
LEMMA InitStanding == Init => Standing
<1>. SUFFICES ASSUME Init PROVE Standing OBVIOUS
<1>1. /\ todo = 1 /\ stack = <<>> /\ item = {} /\ failing = {} /\ outgoing = {} /\ journal = {}
  BY DEF Init
<1>2. Records = {} /\ Kept(Records, source) /\ Surrounded /\ Distinct(journal)
  BY <1>1 DEF Records, Kept, Surrounded, Distinct
<1>3. InOrder(stack, todo, source)
  <2>1. DOMAIN <<>> = {} OBVIOUS
  <2>. QED BY <1>1, <2>1 DEF InOrder
<1>4. Covered(stack, item # {}, Records, todo, source)
  <2>1. (item # {}) = FALSE BY <1>1
  <2>2. Done(<<>>, FALSE, 1) = 0 BY DEF Done
  <2>3. \A n \in 1 .. 0 : FALSE OBVIOUS
  <2>4. Covered(<<>>, FALSE, {}, 1, source) BY <2>2, <2>3 DEF Covered
  <2>. QED BY <1>1, <1>2, <2>1, <2>4
<1>. QED BY <1>1, <1>2, <1>3, <1>4 DEF Standing

-----------------------------------------------------------------------------
\* No step leaves the invariant, a restart included.
LEMMA NextStanding ==
    ASSUME Shaped, Standing, [Next]_vars
    PROVE  Standing'
<1>0. Shaped'
  BY NextShaped
<1>1. CASE \E r \in outgoing : WriteRecord(r)
  BY <1>1, WriteRecordStands
<1>2. CASE OpenMailbox \/ ReadSource
  BY <1>0, <1>2, OpenMailboxStands, ReadSourceStands
<1>3. CASE \E x \in item : KeepBlob(x) \/ RefuseContainer(x) \/ EnterContainer(x)
  BY <1>0, <1>3, ClassifiedStands, EnterContainerStands
<1>4. CASE UnpackStream \/ ListArchive \/ CheckArchive \/ FailArchive
  BY <1>4, ReadingStands
<1>5. CASE \E p \in private :
             \/ \E i \in DOMAIN p.written : CheckChunk(p, i)
             \/ \E c \in p.pending : WriteChunk(p, c)
             \/ EndExtraction(p)
  BY <1>5, ExtractionStands
<1>6. CASE StageMember \/ NextMember \/ TooManyLeaves \/ PassLeaf \/ StageLeaf \/ GiveUpSource
  BY <1>6, StageMemberStands, PartsStand, GiveUpSourceStands
<1>7. CASE CloseContainer \/ CloseMailbox \/ Unwind
  BY <1>7, CloseContainerStands, CloseMailboxStands, UnwindStands
<1>8. CASE Restart
  BY <1>8, RestartStands
<1>9. CASE UNCHANGED vars
  BY <1>9, StandingSame DEF vars
<1>. QED BY <1>1, <1>2, <1>3, <1>4, <1>5, <1>6, <1>7, <1>8, <1>9 DEF Next

\* Whatever fails, and however often discovery is begun again, the stack is in order,
\* the records are true and surrounded, and the files that are done are told of.
THEOREM StandingKept == Spec => [](Shaped /\ Standing)
<1>1. Init => Shaped /\ Standing
  BY InitShaped, InitStanding
<1>2. Shaped /\ Standing /\ [Next]_vars => Shaped' /\ Standing'
  BY NextShaped, NextStanding
<1>. QED BY <1>1, <1>2, PTL DEF Spec

\* Each occurrence in the journal has a record of every container around it, at any
\* moment and whatever an earlier attempt left behind.
THEOREM OccurrencesSurrounded == Spec => []Surrounded
<1>1. Shaped /\ Standing => Surrounded
  BY DEF Standing
<1>. QED BY <1>1, StandingKept, PTL

\* A record names the content its place leads to, and an upsert by its id is an
\* upsert by its place: a later attempt adds no second record of a kind.
THEOREM RecordsNameTheSource == Spec => []RecordsTrue
<1>1. Shaped /\ Standing => RecordsTrue
  <2>. SUFFICES ASSUME Standing, NEW r \in journal, r.kind # "failure"
                PROVE  /\ r.body = BodyAt(source, r.at)
                       /\ \A s \in journal : s.kind = r.kind /\ s.at = r.at => s = r
    BY DEF RecordsTrue
  <2>1. \A s \in journal : s.kind # "failure" => s.body = BodyAt(source, s.at)
    BY DEF Standing, Kept, True, Records
  <2>2. ASSUME NEW s \in journal, s.kind = r.kind, s.at = r.at PROVE s = r
    <3>1. s.body = r.body BY <2>1, <2>2
    <3>2. SameId(s, r) BY <2>2, <3>1 DEF SameId
    <3>. QED BY <3>2 DEF Standing, Distinct
  <2>. QED BY <2>1, <2>2
<1>. QED BY <1>1, StandingKept, PTL

\* Every source file, or every message of a mailbox, has its record when discovery
\* ends, whatever failed and however many attempts it took.
THEOREM EverySourceRecorded == Spec => []SourcesRecorded
<1>1. Shaped /\ Standing => SourcesRecorded
  <2>. SUFFICES ASSUME Shaped, Standing, Finished, NEW n \in DOMAIN source
                PROVE  Recorded(<<n>>)
                       \/ (Shape[source[n]] = "mbox" /\ \A i \in DOMAIN Parts[source[n]] : Recorded(<<n, i>>))
    BY DEF SourcesRecorded
  <2>1. Covered(stack, FALSE, journal, todo, source) /\ stack = <<>>
    BY StandsNow DEF Finished
  <2>2. /\ Len(source) \in Nat /\ DOMAIN source = 1 .. Len(source) /\ todo \in Nat
        /\ todo > Len(source)
    BY StandsTyped DEF Finished
  <2>3. Done(stack, FALSE, todo) = todo - 1 BY <2>1 DEF Done
  <2>4. \A i \in 1 .. Done(stack, FALSE, todo) : Told(journal, i, source) BY <2>1 DEF Covered
  <2>5. \A i \in 1 .. todo - 1 : Told(journal, i, source) BY ONLY <2>3, <2>4
  <2>6. n \in 1 .. todo - 1 BY <2>2
  <2>7. Told(journal, n, source) BY <2>5, <2>6
  <2>. QED BY <2>7 DEF Told, Has, Recorded
<1>. QED BY <1>1, StandingKept, PTL

\* What of the journal survives any number of attempts, whatever ended them.
THEOREM JournalHeld == Spec => []JournalHolds
<1>1. RecordsTrue /\ Surrounded /\ SourcesRecorded => JournalHolds
  BY DEF JournalHolds
<1>. QED BY RecordsNameTheSource, OccurrencesSurrounded, EverySourceRecorded, <1>1, PTL
=============================================================================
