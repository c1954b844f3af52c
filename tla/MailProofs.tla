----------------------------- MODULE MailProofs ------------------------------
(***************************************************************************)
(* The leaves of every mailbox have distinct nodes around them.  A call of *)
(* _walk_message is determined by the ancestry and the part path it is     *)
(* given; a leaf by those, by the index of the part and by its last node.  *)
(***************************************************************************)
EXTENDS MailRecords, SequenceLemmas

\* c is the function that CallAt evaluates, on 0 .. n.
Leads(c, tree, ancestry, pos, n) ==
    c = [m \in 0 .. n |->
            IF m = 0 THEN FirstCall(tree, ancestry)
            ELSE Onward(c[m - 1], tree[SubSeq(pos, 1, m - 1)].type, pos[m], tree[SubSeq(pos, 1, m)])]

\* Such a function exists.
LEMMA CallsExist ==
    ASSUME NEW tree, NEW ancestry, NEW pos, NEW n \in Nat
    PROVE  \E c : Leads(c, tree, ancestry, pos, n)
<1>. DEFINE T == {m \in Nat : ~\E c : Leads(c, tree, ancestry, pos, m)}
            next(call, m) ==
                Onward(call, tree[SubSeq(pos, 1, m - 1)].type, pos[m], tree[SubSeq(pos, 1, m)])
            first == FirstCall(tree, ancestry)
<1>. SUFFICES ASSUME T # {} PROVE FALSE OBVIOUS
<1>1. PICK m \in T : \A k \in T : m <= k
  <2>1. T \subseteq Nat OBVIOUS
  <2>. HIDE DEF T
  <2>. QED BY <2>1, LeastNumber
<1>2. m \in Nat /\ ~\E c : Leads(c, tree, ancestry, pos, m) OBVIOUS
<1>3. ASSUME NEW c, NEW k, c = [i \in 0 .. k |-> IF i = 0 THEN first ELSE next(c[i - 1], i)]
      PROVE  Leads(c, tree, ancestry, pos, k)
  BY <1>3 DEF Leads
<1>4. ASSUME NEW c, NEW k, Leads(c, tree, ancestry, pos, k)
      PROVE  c = [i \in 0 .. k |-> IF i = 0 THEN first ELSE next(c[i - 1], i)]
  BY <1>4 DEF Leads
<1>. HIDE DEF next, first
<1>5. CASE m = 0
  <2>. DEFINE g == [i \in 0 .. m |-> first]
              r(i) == IF i = 0 THEN first ELSE next(g[i - 1], i)
  <2>1. \A i \in 0 .. m : r(i) = first BY <1>5
  <2>2. g = [i \in 0 .. m |-> r(i)]
    <3>. HIDE DEF r
    <3>. QED BY <2>1
  <2>3. Leads(g, tree, ancestry, pos, m) BY ONLY <1>3, <2>2
  <2>. QED BY <1>2, <2>3
<1>6. CASE m # 0
  <2>1. m - 1 \in Nat /\ m - 1 \notin T BY <1>1, <1>2, <1>6
  <2>2. PICK f : Leads(f, tree, ancestry, pos, m - 1) BY <2>1
  <2>3. f = [i \in 0 .. m - 1 |-> IF i = 0 THEN first ELSE next(f[i - 1], i)]
    BY <1>4, <2>2
  <2>4. \A i \in 0 .. m - 1 : f[i] = IF i = 0 THEN first ELSE next(f[i - 1], i)
    BY ONLY <2>3
  <2>. DEFINE to(i) == IF i = 0 THEN first ELSE next(f[i - 1], i)
              g == [i \in 0 .. m |-> to(i)]
              r(i) == IF i = 0 THEN first ELSE next(g[i - 1], i)
  <2>5. ASSUME NEW i \in 0 .. m PROVE to(i) = r(i)
    <3>1. CASE i = 0 BY <3>1
    <3>2. CASE i # 0
      <4>1. i - 1 \in 0 .. m /\ i - 1 \in 0 .. m - 1 BY <3>2, <1>2
      <4>2. g[i - 1] = to(i - 1) BY <4>1
      <4>3. f[i - 1] = to(i - 1) BY <4>1, <2>4
      <4>4. g[i - 1] = f[i - 1] BY ONLY <4>2, <4>3
      <4>. QED BY <3>2, <4>4
    <3>. QED BY <3>1, <3>2
  <2>6. g = [i \in 0 .. m |-> r(i)]
    <3>. HIDE DEF to, r
    <3>. QED BY <2>5
  <2>7. Leads(g, tree, ancestry, pos, m) BY ONLY <1>3, <2>6
  <2>. QED BY <2>7, <1>2
<1>. QED BY <1>5, <1>6

\* A position is reached call by call from the message.
LEMMA CallBySteps ==
    ASSUME NEW tree, NEW ancestry, NEW pos, Len(pos) \in Nat
    PROVE  \E c : /\ c[0] = FirstCall(tree, ancestry)
                  /\ \A m \in 1 .. Len(pos) :
                        c[m] = Onward(c[m - 1], tree[SubSeq(pos, 1, m - 1)].type, pos[m],
                                      tree[SubSeq(pos, 1, m)])
                  /\ CallAt(tree, ancestry, pos) = c[Len(pos)]
<1>. DEFINE c == CHOOSE f : Leads(f, tree, ancestry, pos, Len(pos))
            to(m) == Onward(c[m - 1], tree[SubSeq(pos, 1, m - 1)].type, pos[m], tree[SubSeq(pos, 1, m)])
<1>1. CallAt(tree, ancestry, pos) = c[Len(pos)] BY DEF CallAt, Leads
<1>2. Leads(c, tree, ancestry, pos, Len(pos))
  <2>1. \E f : Leads(f, tree, ancestry, pos, Len(pos)) BY CallsExist
  <2>. QED BY <2>1
<1>. HIDE DEF c
<1>3. c = [m \in 0 .. Len(pos) |-> IF m = 0 THEN FirstCall(tree, ancestry) ELSE to(m)]
  BY <1>2 DEF Leads
<1>4. c[0] = FirstCall(tree, ancestry) /\ \A m \in 1 .. Len(pos) : c[m] = to(m)
  <2>. HIDE DEF to
  <2>. QED BY <1>3
<1>. QED BY <1>1, <1>4

\* The message itself is called first, ...
LEMMA CallAtMessage ==
    ASSUME NEW tree, NEW ancestry
    PROVE  CallAt(tree, ancestry, <<>>) = FirstCall(tree, ancestry)
<1>. PICK pos : pos = <<>> OBVIOUS
<1>1. Len(pos) = 0 OBVIOUS
<1>2. CallAt(tree, ancestry, pos) = FirstCall(tree, ancestry) BY <1>1, CallBySteps
<1>. QED BY <1>2

\* ... and each child from the call for its parent.
LEMMA CallAtChild ==
    ASSUME NEW tree, NEW ancestry, NEW p \in Seq(Nat), NEW n \in Nat
    PROVE  CallAt(tree, ancestry, Append(p, n))
             = Onward(CallAt(tree, ancestry, p), tree[p].type, n, tree[Append(p, n)])
<1>1. Len(p) \in Nat BY LenProperties
<1>2. PICK q : q = Append(p, n) OBVIOUS
<1>3. /\ q \in Seq(Nat) /\ Len(q) = Len(p) + 1 /\ q[Len(p) + 1] = n
      /\ \A i \in 1 .. Len(p) : q[i] = p[i]
  BY <1>2, AppendProperties
<1>. DEFINE step(call, s, m) == Onward(call, tree[SubSeq(s, 1, m - 1)].type, s[m], tree[SubSeq(s, 1, m)])
<1>4. PICK f : /\ f[0] = FirstCall(tree, ancestry)
               /\ \A m \in 1 .. Len(p) : f[m] = step(f[m - 1], p, m)
               /\ CallAt(tree, ancestry, p) = f[Len(p)]
  BY <1>1, CallBySteps
<1>5. Len(q) \in Nat BY <1>1, <1>3
<1>6. PICK g : /\ g[0] = FirstCall(tree, ancestry)
               /\ \A m \in 1 .. Len(q) : g[m] = step(g[m - 1], q, m)
               /\ CallAt(tree, ancestry, q) = g[Len(q)]
  BY <1>5, CallBySteps
<1>7. \A m \in 0 .. Len(p) : SubSeq(q, 1, m) = SubSeq(p, 1, m)
  <2>. SUFFICES ASSUME NEW m \in 0 .. Len(p) PROVE SubSeq(q, 1, m) = SubSeq(p, 1, m) OBVIOUS
  <2>1. SubSeq(p, 1, m) = [i \in 1 .. m |-> p[i]] /\ SubSeq(q, 1, m) = [i \in 1 .. m |-> q[i]]
    BY <1>1, <1>3 DEF SubSeq
  <2>2. \A i \in 1 .. m : q[i] = p[i] BY <1>1, <1>3
  <2>. QED BY <2>1, <2>2
<1>8. \A m \in 1 .. Len(p) : \A call : step(call, q, m) = step(call, p, m)
  <2>. SUFFICES ASSUME NEW m \in 1 .. Len(p), NEW call PROVE step(call, q, m) = step(call, p, m) OBVIOUS
  <2>1. m \in 0 .. Len(p) /\ m - 1 \in 0 .. Len(p) BY <1>1
  <2>2. SubSeq(q, 1, m) = SubSeq(p, 1, m) /\ SubSeq(q, 1, m - 1) = SubSeq(p, 1, m - 1)
    BY <1>7, <2>1
  <2>3. q[m] = p[m] BY <1>3
  <2>. QED BY <2>2, <2>3
<1>9. f[Len(p)] = g[Len(p)]
  <2>. HIDE DEF step
  <2>. DEFINE T == {m \in 0 .. Len(p) : f[m] # g[m]}
  <2>1. CASE T = {}
    <3>1. Len(p) \in 0 .. Len(p) BY <1>1
    <3>. QED BY <2>1, <3>1
  <2>2. CASE T # {}
    <3>1. PICK m \in T : \A k \in T : m <= k
      <4>1. T \subseteq Nat BY <1>1
      <4>. HIDE DEF T
      <4>. QED BY <2>2, <4>1, LeastNumber
    <3>2. m \in 0 .. Len(p) /\ f[m] # g[m] OBVIOUS
    <3>3. m # 0 BY <1>4, <1>6, <3>2
    <3>4. m \in 1 .. Len(p) /\ m \in 1 .. Len(q) /\ m - 1 \in 0 .. Len(p) /\ ~(m <= m - 1)
      BY <1>1, <1>3, <3>2, <3>3
    <3>5. f[m - 1] = g[m - 1] BY <3>1, <3>4
    <3>6. f[m] = step(f[m - 1], p, m) /\ g[m] = step(g[m - 1], q, m) BY <1>4, <1>6, <3>4
    <3>7. step(g[m - 1], q, m) = step(g[m - 1], p, m) BY <1>8, <3>4
    <3>. QED BY <3>2, <3>5, <3>6, <3>7
  <2>. QED BY <2>1, <2>2
<1>10. Len(q) \in 1 .. Len(q) /\ Len(q) - 1 = Len(p) /\ q[Len(q)] = n
  BY <1>1, <1>3
<1>11. SubSeq(q, 1, Len(q)) = q /\ SubSeq(q, 1, Len(q) - 1) = p
  <2>1. SubSeq(q, 1, Len(p)) = SubSeq(p, 1, Len(p)) BY <1>1, <1>7
  <2>2. SubSeq(p, 1, Len(p)) = p /\ SubSeq(q, 1, Len(q)) = q BY <1>1, <1>3, <1>5
  <2>. QED BY <1>10, <2>1, <2>2
<1>12. g[Len(q)] = step(g[Len(q) - 1], q, Len(q)) BY <1>6, <1>10
<1>13. g[Len(q)] = Onward(g[Len(p)], tree[p].type, n, tree[q]) BY <1>10, <1>11, <1>12
<1>. QED BY <1>2, <1>4, <1>6, <1>9, <1>13

-----------------------------------------------------------------------------
(***************************************************************************)
(* Calls.                                                                  *)
(***************************************************************************)

Nodes == [kind : {"mime_part", "message"}, id : Seq(Nat)]

\* The node of a message, of which the walk starts.
Alone(ancestry) == ancestry \in Seq(Nodes) /\ Len(ancestry) = 1

Above(tree, ancestry, p) == CallAt(tree, ancestry, Front(p))

\* A part at p is met by the walk, in a multipart or attached, under this node.
Met(tree, ancestry, p) ==
    p # <<>> /\ Above(tree, ancestry, p).walked /\ tree[Front(p)].type \in {"multipart", "rfc822"}
MetPath(tree, ancestry, p) == ChildPath(Above(tree, ancestry, p).path, Last(p))
MetUnder(tree, ancestry, p) ==
    Append(Above(tree, ancestry, p).ancestry, PartNode(MetPath(tree, ancestry, p)))

\* What an extended sequence was extended with.
LEMMA AppendedTo ==
    ASSUME NEW S, NEW s \in Seq(S), NEW t \in Seq(S), NEW x \in S, NEW y \in S, Append(s, x) = Append(t, y)
    PROVE  s = t /\ x = y
BY AppendInjective

\* A position is that of its parent and an index.
LEMMA PositionFacts ==
    ASSUME NEW tree, IsMessage(tree), NEW p \in DOMAIN tree
    PROVE  /\ p \in Seq(Nat) /\ Len(p) \in Nat
           /\ p # <<>> => /\ Front(p) \in DOMAIN tree /\ Front(p) \in Seq(Nat)
                          /\ Last(p) \in Nat /\ p = Append(Front(p), Last(p))
                          /\ Len(p) \in Nat /\ Len(Front(p)) = Len(p) - 1
<1>1. p \in Seq(Nat \ {0}) /\ (p # <<>> => Front(p) \in DOMAIN tree) BY DEF IsMessage
<1>2. p \in Seq(Nat) BY <1>1
<1>3. Len(p) \in Nat BY <1>2, LenProperties
<1>4. ASSUME p # <<>>
      PROVE  /\ Front(p) \in Seq(Nat) /\ Last(p) \in Nat /\ p = Append(Front(p), Last(p))
             /\ Len(Front(p)) = Len(p) - 1
  <2>1. /\ Last(p) \in Nat /\ Front(p) \in Seq(Nat) /\ Len(Front(p)) = Len(p) - 1
        /\ \A i \in 1 .. Len(p) - 1 : Front(p)[i] = p[i]
    BY <1>2, <1>4, FrontLast
  <2>2. Len(p) # 0 BY <1>2, <1>4, EmptySeq
  <2>3. p[Len(p)] = Last(p) BY DEF Last
  <2>4. Append(Front(p), Last(p)) \in Seq(Nat) /\ Len(Append(Front(p), Last(p))) = Len(p)
    BY <1>3, <2>1, <2>2, AppendProperties
  <2>5. \A i \in 1 .. Len(p) : Append(Front(p), Last(p))[i] = p[i]
    <3>1. /\ \A i \in 1 .. Len(Front(p)) : Append(Front(p), Last(p))[i] = Front(p)[i]
          /\ Append(Front(p), Last(p))[Len(Front(p)) + 1] = Last(p)
      BY <2>1, AppendProperties
    <3>. QED BY <1>3, <2>1, <2>2, <2>3, <3>1
  <2>6. p = Append(Front(p), Last(p)) BY <1>2, <2>4, <2>5, SeqEqual
  <2>. QED BY <2>1, <2>6
<1>. QED BY <1>1, <1>2, <1>3, <1>4

\* How a position below the message is called: attached, as a child, or not.
LEMMA CallCases ==
    ASSUME NEW tree, IsMessage(tree), NEW ancestry, NEW p \in DOMAIN tree, p # <<>>
    PROVE  LET from == Above(tree, ancestry, p)
               type == tree[Front(p)].type
               here == CallAt(tree, ancestry, p) IN
           /\ from.walked /\ type = "rfc822" => here = ToAttached(from, Last(p), tree[p])
           /\ from.walked /\ type = "multipart" => here = ToChild(from, Last(p))
           /\ ~Met(tree, ancestry, p) => here = NotCalled(from)
<1>1. Front(p) \in Seq(Nat) /\ Last(p) \in Nat /\ p = Append(Front(p), Last(p)) BY PositionFacts
<1>. DEFINE from == Above(tree, ancestry, p)
            type == tree[Front(p)].type
<1>2. CallAt(tree, ancestry, p) = Onward(from, type, Last(p), tree[p])
  <2>1. CallAt(tree, ancestry, Append(Front(p), Last(p)))
          = Onward(CallAt(tree, ancestry, Front(p)), tree[Front(p)].type, Last(p),
                   tree[Append(Front(p), Last(p))])
    BY <1>1, CallAtChild
  <2>. QED BY <1>1, <2>1 DEF Above
<1>3. Met(tree, ancestry, p) <=> from.walked /\ type \in {"multipart", "rfc822"} BY DEF Met
<1>. HIDE DEF from, type
<1>4. from.walked /\ type = "rfc822" => Onward(from, type, Last(p), tree[p]) = ToAttached(from, Last(p), tree[p])
  BY DEF Onward
<1>5. from.walked /\ type = "multipart" => Onward(from, type, Last(p), tree[p]) = ToChild(from, Last(p))
  BY DEF Onward
<1>6. ~(from.walked /\ type \in {"multipart", "rfc822"}) => Onward(from, type, Last(p), tree[p]) = NotCalled(from)
  BY DEF Onward
<1>. QED BY <1>2, <1>3, <1>4, <1>5, <1>6 DEF from, type

\* The ancestry of a call begins with the node of the message.
LEMMA CallTyped ==
    ASSUME NEW tree, IsMessage(tree), NEW ancestry, Alone(ancestry), NEW p \in DOMAIN tree
    PROVE  LET here == CallAt(tree, ancestry, p) IN
           /\ here.ancestry \in Seq(Nodes) /\ here.path \in Seq(Nat)
           /\ Len(here.ancestry) \in Nat \ {0} /\ here.ancestry[1] = ancestry[1]
<1>. DEFINE Good(c) == /\ c.ancestry \in Seq(Nodes) /\ c.path \in Seq(Nat)
                       /\ Len(c.ancestry) \in Nat \ {0} /\ c.ancestry[1] = ancestry[1]
            T == {n \in Nat : \E q \in DOMAIN tree : Len(q) = n /\ ~Good(CallAt(tree, ancestry, q))}
<1>1. T = {} => Good(CallAt(tree, ancestry, p))
  <2>1. Len(p) \in Nat BY PositionFacts
  <2>. QED BY <2>1
<1>2. ASSUME T # {} PROVE FALSE
  <2>1. PICK n \in T : \A k \in T : n <= k
    <3>1. T \subseteq Nat OBVIOUS
    <3>. HIDE DEF T
    <3>. QED BY <1>2, <3>1, LeastNumber
  <2>2. PICK q \in DOMAIN tree : n \in Nat /\ Len(q) = n /\ ~Good(CallAt(tree, ancestry, q)) OBVIOUS
  <2>3. q # <<>>
    <3>1. Good(FirstCall(tree, ancestry))
      <4>1. <<>> \in Seq(Nat) OBVIOUS
      <4>2. FirstCall(tree, ancestry).ancestry = ancestry /\ FirstCall(tree, ancestry).path = <<>>
        BY DEF FirstCall, Call
      <4>3. ancestry \in Seq(Nodes) /\ Len(ancestry) \in Nat \ {0} BY DEF Alone
      <4>. QED BY <4>1, <4>2, <4>3
    <3>. QED BY <2>2, <3>1, CallAtMessage
  <2>4. /\ Front(q) \in DOMAIN tree /\ Len(Front(q)) = Len(q) - 1 /\ Len(Front(q)) \in Nat
        /\ Last(q) \in Nat
    BY <2>3, PositionFacts
  <2>5. Len(Front(q)) \notin T BY <2>1, <2>2, <2>4
  <2>6. Good(CallAt(tree, ancestry, Front(q))) BY <2>4, <2>5
  <2>. DEFINE from == CallAt(tree, ancestry, Front(q))
              path == ChildPath(from.path, Last(q))
  <2>7. Good(from) BY <2>6
  <2>. HIDE DEF Good, T, from
  <2>8. path \in Seq(Nat)
    <3>1. from.path \in Seq(Nat) BY <2>7 DEF Good
    <3>. QED BY <2>4, <3>1, AppendProperties DEF ChildPath
  <2>9. PartNode(path) \in Nodes /\ MessageNode(path) \in Nodes
    <3>. HIDE DEF path
    <3>. QED BY <2>8 DEF PartNode, MessageNode, Nodes
  <2>10. ASSUME NEW s, s \in Seq(Nodes), Len(s) \in Nat \ {0}, NEW x \in Nodes
         PROVE  Append(s, x) \in Seq(Nodes) /\ Len(Append(s, x)) \in Nat \ {0} /\ Append(s, x)[1] = s[1]
    BY <2>10, AppendProperties
  <2>11. Good(ToAttached(from, Last(q), tree[q]))
    <3>. DEFINE inPart == Append(from.ancestry, PartNode(path))
    <3>1. inPart \in Seq(Nodes) /\ Len(inPart) \in Nat \ {0} /\ inPart[1] = ancestry[1]
      BY <2>7, <2>9, <2>10 DEF Good
    <3>. DEFINE inMessage == Append(inPart, MessageNode(path))
    <3>2. inMessage \in Seq(Nodes) /\ Len(inMessage) \in Nat \ {0} /\ inMessage[1] = ancestry[1]
      BY <2>9, <2>10, <3>1
    <3>3. ToAttached(from, Last(q), tree[q]).ancestry = inMessage
          /\ ToAttached(from, Last(q), tree[q]).path = <<>>
      BY DEF ToAttached, Call
    <3>4. <<>> \in Seq(Nat) OBVIOUS
    <3>. HIDE DEF inMessage
    <3>. QED BY <3>2, <3>3, <3>4 DEF Good
  <2>12. Good(ToChild(from, Last(q)))
    <3>1. ToChild(from, Last(q)).ancestry = from.ancestry /\ ToChild(from, Last(q)).path = path
      BY DEF ToChild, Call
    <3>. QED BY <2>7, <2>8, <3>1 DEF Good
  <2>13. Good(NotCalled(from))
    <3>1. NotCalled(from).ancestry = from.ancestry /\ NotCalled(from).path = from.path
      BY DEF NotCalled, Call
    <3>. QED BY <2>7, <3>1 DEF Good
  <2>14. CallAt(tree, ancestry, q) \in {ToAttached(from, Last(q), tree[q]), ToChild(from, Last(q)), NotCalled(from)}
    <3>1. from = Above(tree, ancestry, q) BY DEF from, Above
    <3>. QED BY <2>3, <3>1, CallCases DEF Met
  <2>. QED BY <2>2, <2>11, <2>12, <2>13, <2>14
<1>. QED BY <1>1, <1>2

\* Two calls that are given the same ancestry and the same part path are one.
LEMMA CallsDiffer ==
    ASSUME NEW tree, IsMessage(tree), NEW ancestry, Alone(ancestry),
           NEW p \in DOMAIN tree, NEW q \in DOMAIN tree,
           CallAt(tree, ancestry, p).walked, CallAt(tree, ancestry, q).walked,
           CallAt(tree, ancestry, p).ancestry = CallAt(tree, ancestry, q).ancestry,
           CallAt(tree, ancestry, p).path = CallAt(tree, ancestry, q).path
    PROVE  p = q
<1>. DEFINE at(r) == CallAt(tree, ancestry, r)
            Same(r, s) == /\ at(r).walked /\ at(s).walked
                          /\ at(r).ancestry = at(s).ancestry /\ at(r).path = at(s).path
            T == {n \in Nat : \E r, s \in DOMAIN tree : Len(r) = n /\ Same(r, s) /\ r # s}
<1>1. T = {} => p = q
  <2>1. Len(p) \in Nat BY PositionFacts
  <2>. QED BY <2>1
<1>2. ASSUME T # {} PROVE FALSE
  <2>1. PICK n \in T : \A k \in T : n <= k
    <3>1. T \subseteq Nat OBVIOUS
    <3>. HIDE DEF T
    <3>. QED BY <1>2, <3>1, LeastNumber
  <2>2. PICK r \in DOMAIN tree, s \in DOMAIN tree : n \in Nat /\ Len(r) = n /\ Same(r, s) /\ r # s
    OBVIOUS
  <2>3. ASSUME NEW t \in DOMAIN tree, at(t).walked, t # <<>>
        PROVE  /\ Front(t) \in DOMAIN tree /\ at(Front(t)).walked /\ Last(t) \in Nat
               /\ at(Front(t)).ancestry \in Seq(Nodes) /\ at(Front(t)).path \in Seq(Nat)
               /\ LET path == Append(at(Front(t)).path, Last(t)) IN
                  \/ /\ at(t).path = <<>>
                     /\ at(t).ancestry = Append(Append(at(Front(t)).ancestry, PartNode(path)), MessageNode(path))
                  \/ /\ at(t).path = path
                     /\ at(t).ancestry = at(Front(t)).ancestry
    <3>1. Front(t) \in DOMAIN tree /\ Last(t) \in Nat BY <2>3, PositionFacts
    <3>2. at(Front(t)).ancestry \in Seq(Nodes) /\ at(Front(t)).path \in Seq(Nat) BY <3>1, CallTyped
    <3>. DEFINE from == Above(tree, ancestry, t)
    <3>3. from = at(Front(t)) BY DEF Above
    <3>4. Met(tree, ancestry, t)
      <4>1. ~NotCalled(from).walked BY DEF NotCalled, Call
      <4>. QED BY <2>3, <4>1, CallCases
    <3>5. from.walked /\ tree[Front(t)].type \in {"multipart", "rfc822"} BY <3>4 DEF Met
    <3>6. at(t) = ToAttached(from, Last(t), tree[t]) \/ at(t) = ToChild(from, Last(t))
      BY <2>3, <3>5, CallCases
    <3>. HIDE DEF at, from
    <3>7. CASE at(t) = ToAttached(from, Last(t), tree[t])
      BY <3>1, <3>2, <3>3, <3>5, <3>7 DEF ToAttached, Call, ChildPath
    <3>8. CASE at(t) = ToChild(from, Last(t))
      BY <3>1, <3>2, <3>3, <3>5, <3>8 DEF ToChild, Call, ChildPath
    <3>. QED BY <3>6, <3>7, <3>8
  <2>4. at(<<>>).ancestry = ancestry /\ at(<<>>).path = <<>> /\ Len(ancestry) = 1
    BY CallAtMessage DEF FirstCall, Call, Alone
  <2>5. ASSUME NEW t \in Seq(Nat), NEW i \in Nat PROVE Append(t, i) # <<>>
    BY <2>5, AppendProperties
  <2>6. ASSUME NEW path \in Seq(Nat) PROVE PartNode(path) \in Nodes /\ MessageNode(path) \in Nodes
    BY <2>6 DEF PartNode, MessageNode, Nodes
  <2>7. ASSUME NEW a \in Seq(Nodes), NEW x \in Nodes, NEW y \in Nodes
        PROVE  /\ Append(a, x) \in Seq(Nodes) /\ Append(Append(a, x), y) \in Seq(Nodes)
               /\ Len(Append(Append(a, x), y)) # 1
    <3>1. Append(a, x) \in Seq(Nodes) /\ Len(Append(a, x)) = Len(a) + 1 BY AppendProperties
    <3>2. Append(Append(a, x), y) \in Seq(Nodes) /\ Len(Append(Append(a, x), y)) = Len(a) + 2
      BY <3>1, AppendProperties
    <3>3. Len(a) \in Nat BY LenProperties
    <3>. QED BY <3>1, <3>2, <3>3
  <2>8. ASSUME NEW t \in DOMAIN tree, at(t).walked, t # <<>>,
               at(t).ancestry = ancestry, at(t).path = <<>>
        PROVE  FALSE
    <3>. DEFINE path == Append(at(Front(t)).path, Last(t))
    <3>1. path \in Seq(Nat) /\ path # <<>> BY <2>3, <2>5, <2>8, AppendProperties
    <3>2. at(t).ancestry = Append(Append(at(Front(t)).ancestry, PartNode(path)), MessageNode(path))
      BY <2>3, <2>8, <3>1
    <3>3. at(Front(t)).ancestry \in Seq(Nodes) BY <2>3, <2>8
    <3>4. PartNode(path) \in Nodes /\ MessageNode(path) \in Nodes
      <4>. HIDE DEF path
      <4>. QED BY <2>6, <3>1
    <3>5. Len(at(t).ancestry) # 1
      <4>. HIDE DEF path, at
      <4>. QED BY <2>7, <3>2, <3>3, <3>4
    <3>. QED BY <2>4, <2>8, <3>5
  <2>9. r # <<>> /\ s # <<>> BY <2>2, <2>4, <2>8
  <2>. DEFINE f == Front(r)
              g == Front(s)
              pr == Append(at(f).path, Last(r))
              ps == Append(at(g).path, Last(s))
  <2>10. /\ f \in DOMAIN tree /\ g \in DOMAIN tree /\ at(f).walked /\ at(g).walked
         /\ at(f).ancestry \in Seq(Nodes) /\ at(g).ancestry \in Seq(Nodes)
         /\ at(f).path \in Seq(Nat) /\ at(g).path \in Seq(Nat)
         /\ Last(r) \in Nat /\ Last(s) \in Nat
         /\ \/ at(r).path = <<>> /\ at(r).ancestry = Append(Append(at(f).ancestry, PartNode(pr)), MessageNode(pr))
            \/ at(r).path = pr /\ at(r).ancestry = at(f).ancestry
         /\ \/ at(s).path = <<>> /\ at(s).ancestry = Append(Append(at(g).ancestry, PartNode(ps)), MessageNode(ps))
            \/ at(s).path = ps /\ at(s).ancestry = at(g).ancestry
    BY <2>2, <2>3, <2>9
  <2>11. pr # <<>> /\ ps # <<>> /\ pr \in Seq(Nat) /\ ps \in Seq(Nat)
    BY <2>5, <2>10, AppendProperties
  <2>12. at(r).path = at(s).path /\ at(r).ancestry = at(s).ancestry BY <2>2
  <2>13. at(f).ancestry = at(g).ancestry /\ pr = ps
    <3>. HIDE DEF at, pr, ps, f, g, T, Same
    <3>1. CASE at(r).path = <<>>
      <4>. DEFINE Two(a, x, y) == Append(Append(a, x), y)
      <4>1. Two(at(f).ancestry, PartNode(pr), MessageNode(pr)) = Two(at(g).ancestry, PartNode(ps), MessageNode(ps))
        BY <2>10, <2>11, <2>12, <3>1
      <4>2. ASSUME NEW a \in Seq(Nodes), NEW b \in Seq(Nodes), NEW x \in Nodes, NEW y \in Nodes,
                   NEW u \in Nodes, NEW v \in Nodes, Two(a, x, y) = Two(b, u, v)
            PROVE  a = b /\ x = u
        <5>1. Append(a, x) \in Seq(Nodes) /\ Append(b, u) \in Seq(Nodes) BY <2>7
        <5>2. ASSUME NEW S, NEW e \in S, NEW d \in S, NEW h \in Seq(S), NEW k \in Seq(S), Append(h, e) = Append(k, d)
              PROVE  h = k /\ e = d
          BY <5>2, AppendInjective
        <5>3. Append(a, x) = Append(b, u)
          <6>. DEFINE h == Append(a, x)
                      k == Append(b, u)
          <6>1. h \in Seq(Nodes) /\ k \in Seq(Nodes) /\ Append(h, y) = Append(k, v) BY <4>2, <5>1
          <6>. HIDE DEF h, k
          <6>2. h = k BY <5>2, <6>1
          <6>. QED BY <6>2 DEF h, k
        <5>. QED BY <5>2, <5>3
      <4>3. PartNode(pr) \in Nodes /\ PartNode(ps) \in Nodes /\ MessageNode(pr) \in Nodes /\ MessageNode(ps) \in Nodes
        BY <2>6, <2>11
      <4>4. at(f).ancestry = at(g).ancestry /\ PartNode(pr) = PartNode(ps)
        <5>. HIDE DEF Two
        <5>. QED BY <2>10, <4>1, <4>2, <4>3
      <4>. QED BY <4>4 DEF PartNode
    <3>2. CASE at(r).path # <<>>
      BY <2>10, <2>11, <2>12, <3>2
    <3>. QED BY <3>1, <3>2
  <2>14. at(f).path = at(g).path /\ Last(r) = Last(s) 
    <3>1. Append(at(f).path, Last(r)) = Append(at(g).path, Last(s)) BY <2>13
    <3>. DEFINE h == at(f).path
                k == at(g).path
    <3>2. h \in Seq(Nat) /\ k \in Seq(Nat) /\ Append(h, Last(r)) = Append(k, Last(s)) BY <2>10, <3>1
    <3>. HIDE DEF h, k
    <3>3. h = k /\ Last(r) = Last(s) BY <2>10, <3>2, AppendInjective
    <3>. QED BY <3>3 DEF h, k
  <2>15. Same(f, g) BY <2>10, <2>13, <2>14
  <2>16. r = Append(f, Last(r)) /\ s = Append(g, Last(s)) /\ Len(f) = Len(r) - 1 /\ Len(f) \in Nat
    BY <2>9, PositionFacts
  <2>17. f # g
    <3>. HIDE DEF at, Same, T, f, g
    <3>. QED BY <2>2, <2>14, <2>16
  <2>18. Len(f) \in T
    <3>1. Len(f) \in Nat /\ \E x, y \in DOMAIN tree : Len(x) = Len(f) /\ Same(x, y) /\ x # y
      <4>. HIDE DEF Same, T, f, g, at
      <4>. QED BY <2>10, <2>15, <2>16, <2>17
    <3>. HIDE DEF Same, f
    <3>. QED BY <3>1
  <2>19. n <= Len(f) BY <2>1, <2>18
  <2>. HIDE DEF f, T
  <2>. QED BY <2>2, <2>16, <2>19
<1>. QED BY <1>1, <1>2

\* Two parts that are met under the same node are one.
LEMMA MeetingsDiffer ==
    ASSUME NEW tree, IsMessage(tree), NEW ancestry, Alone(ancestry),
           NEW p \in DOMAIN tree, NEW q \in DOMAIN tree,
           Met(tree, ancestry, p), Met(tree, ancestry, q),
           MetUnder(tree, ancestry, p) = MetUnder(tree, ancestry, q)
    PROVE  p = q
<1>. DEFINE f == Front(p)
            g == Front(q)
            cf == CallAt(tree, ancestry, f)
            cg == CallAt(tree, ancestry, g)
<1>1. p # <<>> /\ q # <<>> /\ cf.walked /\ cg.walked BY DEF Met, Above
<1>2. /\ f \in DOMAIN tree /\ Last(p) \in Nat /\ p = Append(f, Last(p))
      /\ g \in DOMAIN tree /\ Last(q) \in Nat /\ q = Append(g, Last(q))
  BY <1>1, PositionFacts
<1>3. /\ cf.ancestry \in Seq(Nodes) /\ cf.path \in Seq(Nat)
      /\ cg.ancestry \in Seq(Nodes) /\ cg.path \in Seq(Nat)
  BY <1>2, CallTyped
<1>4. Append(cf.ancestry, PartNode(Append(cf.path, Last(p)))) = Append(cg.ancestry, PartNode(Append(cg.path, Last(q))))
  BY DEF MetUnder, MetPath, ChildPath, Above
<1>. HIDE DEF f, g, cf, cg
<1>. DEFINE h == Append(cf.path, Last(p))
            k == Append(cg.path, Last(q))
<1>5. h \in Seq(Nat) /\ k \in Seq(Nat) BY <1>2, <1>3, AppendProperties
<1>6. PartNode(h) \in Nodes /\ PartNode(k) \in Nodes
  <2>. HIDE DEF h, k
  <2>. QED BY <1>5 DEF PartNode, Nodes
<1>7. cf.ancestry = cg.ancestry /\ PartNode(h) = PartNode(k)
  <2>1. Append(cf.ancestry, PartNode(h)) = Append(cg.ancestry, PartNode(k)) BY <1>4
  <2>. DEFINE s == cf.ancestry
              t == cg.ancestry
              x == PartNode(h)
              y == PartNode(k)
  <2>2. s \in Seq(Nodes) /\ t \in Seq(Nodes) /\ x \in Nodes /\ y \in Nodes /\ Append(s, x) = Append(t, y)
    BY <1>3, <1>6, <2>1
  <2>. HIDE DEF s, t, x, y
  <2>3. s = t /\ x = y BY <2>2, AppendedTo
  <2>. QED BY <2>3 DEF s, t, x, y
<1>8. h = k
  <2>. HIDE DEF h, k
  <2>. QED BY <1>7 DEF PartNode
<1>9. cf.path = cg.path /\ Last(p) = Last(q)
  <2>. DEFINE s == cf.path
              t == cg.path
  <2>1. s \in Seq(Nat) /\ t \in Seq(Nat) /\ Append(s, Last(p)) = Append(t, Last(q)) BY <1>3, <1>8
  <2>. HIDE DEF s, t
  <2>. DEFINE x == Last(p)
              y == Last(q)
  <2>2. x \in Nat /\ y \in Nat /\ Append(s, x) = Append(t, y) BY <1>2, <2>1
  <2>. HIDE DEF x, y
  <2>3. s = t /\ x = y BY <2>1, <2>2, AppendedTo
  <2>. QED BY <2>3 DEF s, t, x, y
<1>10. f = g
  <2>. USE DEF cf, cg
  <2>. QED BY <1>1, <1>2, <1>7, <1>9, CallsDiffer
<1>. QED BY <1>2, <1>9, <1>10

-----------------------------------------------------------------------------
(***************************************************************************)
(* Leaves.  A leaf stands under the node where its part was met, or under  *)
(* that and the node of a cycle, or it is all that a message consists of.  *)
(***************************************************************************)

CycleUnder(tree, ancestry, p) == Append(MetUnder(tree, ancestry, p), MessageNode(<<>>))
OnlyUnder(tree, ancestry, p) == Append(CallAt(tree, ancestry, p).ancestry, PartNode(<<1>>))

\* It is the one part of its message.
IsOnly(tree, ancestry, p) ==
    /\ CallAt(tree, ancestry, p).walked /\ CallAt(tree, ancestry, p).path = <<>>
    /\ tree[p].type = "part"

\* One leaf or none, and at most one more.
LEMMA Emitted ==
    ASSUME NEW x, NEW y, NEW m
    PROVE  /\ <<>> \o <<>> = <<>> /\ <<>> \o <<y>> = <<y>> /\ <<x>> \o <<>> = <<x>>
           /\ <<x>> \o <<y>> = <<x, y>> /\ <<x, y>> \o <<>> = <<x, y>>
           /\ m \notin DOMAIN <<>>
           /\ m \in DOMAIN <<x>> => m = 1 /\ <<x>>[m] = x
           /\ m \in DOMAIN <<x, y>> => (m = 1 /\ <<x, y>>[m] = x) \/ (m = 2 /\ <<x, y>>[m] = y)
<1>1. <<>> \in Seq({x, y}) /\ <<x>> \in Seq({x, y}) /\ <<y>> \in Seq({x, y}) /\ <<x, y>> \in Seq({x, y})
  OBVIOUS
<1>2. <<>> \o <<>> = <<>> /\ <<>> \o <<y>> = <<y>> /\ <<x>> \o <<>> = <<x>> /\ <<x, y>> \o <<>> = <<x, y>>
  BY <1>1, ConcatEmptySeq
<1>3. <<x>> \o <<y>> = <<x, y>>
  <2>. DEFINE s == <<x>>
              t == <<y>>
              u == <<x, y>>
  <2>1. /\ s \in Seq({x, y}) /\ Len(s) = 1 /\ s[1] = x
        /\ t \in Seq({x, y}) /\ Len(t) = 1 /\ t[1] = y
        /\ u \in Seq({x, y}) /\ Len(u) = 2 /\ u[1] = x /\ u[2] = y
    BY <1>1
  <2>. HIDE DEF s, t, u
  <2>2. s \o t \in Seq({x, y}) /\ Len(s \o t) = 2 /\ (s \o t)[1] = x /\ (s \o t)[2] = y
    <3>1. /\ s \o t \in Seq({x, y}) /\ Len(s \o t) = Len(s) + Len(t)
          /\ \A i \in 1 .. Len(s) + Len(t) : (s \o t)[i] = IF i <= Len(s) THEN s[i] ELSE t[i - Len(s)]
      BY <2>1, ConcatProperties
    <3>2. 1 \in 1 .. Len(s) + Len(t) /\ 2 \in 1 .. Len(s) + Len(t) BY <2>1
    <3>. QED BY <2>1, <3>1, <3>2
  <2>3. \A i \in 1 .. Len(u) : (s \o t)[i] = u[i] BY <2>1, <2>2
  <2>4. s \o t = u BY <2>1, <2>2, <2>3, SeqEqual
  <2>. QED BY <2>4 DEF s, t, u
<1>4. m \notin DOMAIN <<>>
  OBVIOUS
<1>5. m \in DOMAIN <<x>> => m = 1 /\ <<x>>[m] = x
  OBVIOUS
<1>6. m \in DOMAIN <<x, y>> => (m = 1 /\ <<x, y>>[m] = x) \/ (m = 2 /\ <<x, y>>[m] = y)
  OBVIOUS
<1>. QED BY <1>2, <1>3, <1>4, <1>5, <1>6

\* What is emitted at a position.
LEMMA LeafIs ==
    ASSUME NEW tree, IsMessage(tree), NEW ancestry, Alone(ancestry), NEW p \in DOMAIN tree,
           NEW m \in DOMAIN LeavesAt(tree, ancestry, p)
    PROVE  LET leaf == LeavesAt(tree, ancestry, p)[m].ancestry IN
           \/ Met(tree, ancestry, p) /\ m = 1 /\ leaf = MetUnder(tree, ancestry, p)
           \/ Met(tree, ancestry, p) /\ m = 2 /\ leaf = CycleUnder(tree, ancestry, p)
           \/ /\ IsOnly(tree, ancestry, p) /\ m = (IF p = <<>> THEN 1 ELSE 2)
              /\ leaf = OnlyUnder(tree, ancestry, p)
<1>. DEFINE here == CallAt(tree, ancestry, p)
            own == OwnLeaf(tree[p], here)
            leaf == LeavesAt(tree, ancestry, p)[m].ancestry
            from == Above(tree, ancestry, p)
            only == Yield(Append(here.ancestry, PartNode(<<1>>)), tree[p].body, FALSE)
            part == Yield(Append(here.ancestry, PartNode(here.path)), tree[p].body, FALSE)
            whole == Yield(MetUnder(tree, ancestry, p), tree[p].body, TRUE)
            cycle == Yield(CycleUnder(tree, ancestry, p), Undecoded, FALSE)
<1>1. LeavesAt(tree, ancestry, p) = here.yields \o own BY DEF LeavesAt
<1>2. /\ only.ancestry = OnlyUnder(tree, ancestry, p) /\ part.ancestry = Append(here.ancestry, PartNode(here.path))
      /\ whole.ancestry = MetUnder(tree, ancestry, p) /\ cycle.ancestry = CycleUnder(tree, ancestry, p)
  BY DEF Yield, OnlyUnder
<1>3. /\ ~(here.walked /\ tree[p].type = "part") => own = <<>>
      /\ here.walked /\ tree[p].type = "part" /\ here.path = <<>> => own = <<only>>
      /\ here.walked /\ tree[p].type = "part" /\ here.path # <<>> => own = <<part>>
  BY DEF OwnLeaf
<1>4. CASE p = <<>>
  <2>1. here.walked /\ here.path = <<>> /\ here.yields = <<>>
    BY <1>4, CallAtMessage DEF FirstCall, Call
  <2>2. CASE tree[p].type = "part"
    <3>1. LeavesAt(tree, ancestry, p) = <<only>> BY <1>1, <1>3, <2>1, <2>2, Emitted
    <3>. HIDE DEF only
    <3>2. m = 1 /\ LeavesAt(tree, ancestry, p)[m] = only BY <3>1, Emitted
    <3>3. leaf = OnlyUnder(tree, ancestry, p) BY <1>2, <3>2
    <3>. QED BY <1>4, <2>1, <2>2, <3>2, <3>3 DEF IsOnly
  <2>3. CASE tree[p].type # "part"
    <3>1. LeavesAt(tree, ancestry, p) = <<>> BY <1>1, <1>3, <2>1, <2>3, Emitted
    <3>. QED BY <3>1, Emitted
  <2>. QED BY <2>2, <2>3
<1>5. CASE p # <<>> /\ ~Met(tree, ancestry, p)
  <2>1. ~here.walked /\ here.yields = <<>> BY <1>5, CallCases DEF NotCalled, Call
  <2>2. LeavesAt(tree, ancestry, p) = <<>> BY <1>1, <1>3, <2>1, Emitted
  <2>. QED BY <2>2, Emitted
<1>6. CASE p # <<>> /\ Met(tree, ancestry, p) /\ tree[Front(p)].type = "multipart"
  <2>1. from.walked BY <1>6 DEF Met
  <2>2. here = ToChild(from, Last(p)) BY <1>6, <2>1, CallCases
  <2>3. /\ here.ancestry = from.ancestry /\ here.path = ChildPath(from.path, Last(p))
        /\ here.yields = <<>>
    <3>. HIDE DEF here, from
    <3>. QED BY <2>2 DEF ToChild, Call
  <2>4. here.path # <<>>
    <3>1. Last(p) \in Nat /\ Front(p) \in DOMAIN tree BY <1>6, PositionFacts
    <3>2. from.path \in Seq(Nat) BY <3>1, CallTyped DEF Above
    <3>. HIDE DEF here, from
    <3>. QED BY <2>3, <3>1, <3>2, AppendProperties DEF ChildPath
  <2>5. CASE here.walked /\ tree[p].type = "part"
    <3>1. LeavesAt(tree, ancestry, p) = <<part>> BY <1>1, <1>3, <2>3, <2>4, <2>5, Emitted
    <3>. HIDE DEF part
    <3>2. m = 1 /\ LeavesAt(tree, ancestry, p)[m] = part BY <3>1, Emitted
    <3>3. leaf = MetUnder(tree, ancestry, p) BY <1>2, <2>3, <3>2 DEF MetUnder, MetPath
    <3>. QED BY <1>6, <3>2, <3>3
  <2>6. CASE ~(here.walked /\ tree[p].type = "part")
    <3>1. LeavesAt(tree, ancestry, p) = <<>> BY <1>1, <1>3, <2>3, <2>6, Emitted
    <3>. QED BY <3>1, Emitted
  <2>. QED BY <2>5, <2>6
<1>7. CASE p # <<>> /\ Met(tree, ancestry, p) /\ tree[Front(p)].type = "rfc822"
  <2>1. from.walked BY <1>7 DEF Met
  <2>2. here = ToAttached(from, Last(p), tree[p]) BY <1>7, <2>1, CallCases
  <2>3. here.path = <<>>
    <3>. HIDE DEF here, from
    <3>. QED BY <2>2 DEF ToAttached, Call
  <2>4. CASE tree[p].body \in from.digests
    <3>1. ~here.walked /\ here.yields = <<whole, cycle>>
      <4>. HIDE DEF here
      <4>. QED BY <2>2, <2>4, Emitted DEF ToAttached, Call, MetUnder, MetPath, CycleUnder
    <3>2. LeavesAt(tree, ancestry, p) = <<whole, cycle>> BY <1>1, <1>3, <3>1, Emitted
    <3>. HIDE DEF whole, cycle
    <3>4. \/ m = 1 /\ LeavesAt(tree, ancestry, p)[m] = whole
          \/ m = 2 /\ LeavesAt(tree, ancestry, p)[m] = cycle
      BY <3>2, Emitted
    <3>. QED BY <1>2, <1>7, <3>4
  <2>5. CASE tree[p].body \notin from.digests
    <3>1. here.walked /\ here.yields = <<whole>>
      <4>. HIDE DEF here
      <4>. QED BY <2>2, <2>5, Emitted DEF ToAttached, Call, MetUnder, MetPath
    <3>2. CASE tree[p].type = "part"
      <4>1. LeavesAt(tree, ancestry, p) = <<whole, only>>
        <5>1. LeavesAt(tree, ancestry, p) = <<whole>> \o <<only>> BY <1>1, <1>3, <2>3, <3>1, <3>2
        <5>. HIDE DEF whole, only
        <5>. QED BY <5>1, Emitted
      <4>. HIDE DEF whole, only
      <4>2. \/ m = 1 /\ LeavesAt(tree, ancestry, p)[m] = whole
            \/ m = 2 /\ LeavesAt(tree, ancestry, p)[m] = only
        BY <4>1, Emitted
      <4>3. IsOnly(tree, ancestry, p) BY <2>3, <3>1, <3>2 DEF IsOnly
      <4>. QED BY <1>2, <1>7, <4>2, <4>3
    <3>3. CASE tree[p].type # "part"
      <4>1. LeavesAt(tree, ancestry, p) = <<whole>> BY <1>1, <1>3, <3>1, <3>3, Emitted
      <4>. HIDE DEF whole
      <4>2. m = 1 /\ LeavesAt(tree, ancestry, p)[m] = whole BY <4>1, Emitted
      <4>. QED BY <1>2, <1>7, <4>2
    <3>. QED BY <3>2, <3>3
  <2>. QED BY <2>4, <2>5
<1>. QED BY <1>4, <1>5, <1>6, <1>7 DEF Met

\* The ancestry of a leaf begins with the node of its message, and its last node tells
\* a cycle from what else is met.
LEMMA LeafTyped ==
    ASSUME NEW tree, IsMessage(tree), NEW ancestry, Alone(ancestry), NEW p \in DOMAIN tree
    PROVE  /\ CallAt(tree, ancestry, p).ancestry \in Seq(Nodes)
           /\ PartNode(<<1>>) \in Nodes /\ MessageNode(<<>>) \in Nodes
           /\ OnlyUnder(tree, ancestry, p) \in Seq(Nodes)
           /\ OnlyUnder(tree, ancestry, p)[1] = ancestry[1]
           /\ Met(tree, ancestry, p) =>
                /\ Above(tree, ancestry, p).ancestry \in Seq(Nodes)
                /\ Above(tree, ancestry, p).path \in Seq(Nat)
                /\ MetPath(tree, ancestry, p) \in Seq(Nat)
                /\ PartNode(MetPath(tree, ancestry, p)) \in Nodes
                /\ MetUnder(tree, ancestry, p) \in Seq(Nodes)
                /\ MetUnder(tree, ancestry, p)[1] = ancestry[1]
                /\ CycleUnder(tree, ancestry, p)[1] = ancestry[1]
<1>1. ASSUME NEW path \in Seq(Nat) PROVE PartNode(path) \in Nodes /\ MessageNode(path) \in Nodes
  BY <1>1 DEF PartNode, MessageNode, Nodes
<1>2. ASSUME NEW s, s \in Seq(Nodes), Len(s) \in Nat \ {0}, NEW x \in Nodes
      PROVE  Append(s, x) \in Seq(Nodes) /\ Len(Append(s, x)) \in Nat \ {0} /\ Append(s, x)[1] = s[1]
  BY <1>2, AppendProperties
<1>3. ASSUME NEW q \in DOMAIN tree
      PROVE  LET c == CallAt(tree, ancestry, q) IN
             /\ c.ancestry \in Seq(Nodes) /\ c.path \in Seq(Nat)
             /\ Len(c.ancestry) \in Nat \ {0} /\ c.ancestry[1] = ancestry[1]
  BY CallTyped
<1>4. PartNode(<<1>>) \in Nodes /\ MessageNode(<<>>) \in Nodes
  <2>1. <<1>> \in Seq(Nat) /\ <<>> \in Seq(Nat) OBVIOUS
  <2>. QED BY <1>1, <2>1
<1>5. OnlyUnder(tree, ancestry, p) \in Seq(Nodes) /\ OnlyUnder(tree, ancestry, p)[1] = ancestry[1]
  BY <1>2, <1>3, <1>4 DEF OnlyUnder
<1>6. ASSUME Met(tree, ancestry, p)
      PROVE  /\ Above(tree, ancestry, p).ancestry \in Seq(Nodes)
             /\ Above(tree, ancestry, p).path \in Seq(Nat)
             /\ MetPath(tree, ancestry, p) \in Seq(Nat)
             /\ PartNode(MetPath(tree, ancestry, p)) \in Nodes
             /\ MetUnder(tree, ancestry, p) \in Seq(Nodes)
             /\ MetUnder(tree, ancestry, p)[1] = ancestry[1]
             /\ CycleUnder(tree, ancestry, p)[1] = ancestry[1]
  <2>1. Front(p) \in DOMAIN tree /\ Last(p) \in Nat BY <1>6, PositionFacts DEF Met
  <2>. DEFINE from == Above(tree, ancestry, p)
  <2>2. /\ from.ancestry \in Seq(Nodes) /\ from.path \in Seq(Nat)
        /\ Len(from.ancestry) \in Nat \ {0} /\ from.ancestry[1] = ancestry[1]
    BY <1>3, <2>1 DEF Above
  <2>3. MetPath(tree, ancestry, p) \in Seq(Nat)
    BY <2>1, <2>2, AppendProperties DEF MetPath, ChildPath
  <2>4. PartNode(MetPath(tree, ancestry, p)) \in Nodes BY <1>1, <2>3
  <2>. HIDE DEF from
  <2>5. /\ MetUnder(tree, ancestry, p) \in Seq(Nodes) /\ Len(MetUnder(tree, ancestry, p)) \in Nat \ {0}
        /\ MetUnder(tree, ancestry, p)[1] = ancestry[1]
    BY <1>2, <2>2, <2>4 DEF MetUnder, from
  <2>6. CycleUnder(tree, ancestry, p)[1] = ancestry[1] BY <1>2, <1>4, <2>5 DEF CycleUnder
  <2>. QED BY <2>2, <2>3, <2>4, <2>5, <2>6 DEF from
<1>. QED BY <1>3, <1>4, <1>5, <1>6

\* What distinguishes the three kinds of leaves: a cycle is a message node, a leaf that
\* is all of its message lies where no part is met.
LEMMA KindsDiffer ==
    ASSUME NEW tree, IsMessage(tree), NEW ancestry, Alone(ancestry),
           NEW p \in DOMAIN tree, NEW q \in DOMAIN tree
    PROVE  /\ Met(tree, ancestry, p) /\ Met(tree, ancestry, q) =>
                CycleUnder(tree, ancestry, p) # MetUnder(tree, ancestry, q)
           /\ Met(tree, ancestry, p) => CycleUnder(tree, ancestry, p) # OnlyUnder(tree, ancestry, q)
           /\ Met(tree, ancestry, p) /\ IsOnly(tree, ancestry, q) =>
                MetUnder(tree, ancestry, p) # OnlyUnder(tree, ancestry, q)
           /\ Met(tree, ancestry, p) /\ Met(tree, ancestry, q)
              /\ CycleUnder(tree, ancestry, p) = CycleUnder(tree, ancestry, q) => p = q
           /\ IsOnly(tree, ancestry, p) /\ IsOnly(tree, ancestry, q)
              /\ OnlyUnder(tree, ancestry, p) = OnlyUnder(tree, ancestry, q) => p = q
<1>1. ASSUME NEW s, NEW t, s \in Seq(Nodes), t \in Seq(Nodes), NEW x \in Nodes, NEW y \in Nodes,
             Append(s, x) = Append(t, y)
      PROVE  s = t /\ x = y
  BY <1>1, AppendedTo
<1>2. ASSUME NEW a, NEW b PROVE MessageNode(a) # PartNode(b)
  <2>1. MessageNode(a).kind = "message" /\ PartNode(b).kind = "mime_part" BY DEF MessageNode, PartNode
  <2>. QED BY <2>1
<1>3. ASSUME Met(tree, ancestry, p), Met(tree, ancestry, q)
      PROVE  CycleUnder(tree, ancestry, p) # MetUnder(tree, ancestry, q)
  BY <1>1, <1>2, <1>3, LeafTyped DEF CycleUnder, MetUnder
<1>4. ASSUME Met(tree, ancestry, p) PROVE CycleUnder(tree, ancestry, p) # OnlyUnder(tree, ancestry, q)
  BY <1>1, <1>2, <1>4, LeafTyped DEF CycleUnder, OnlyUnder
<1>5. ASSUME Met(tree, ancestry, p), IsOnly(tree, ancestry, q),
             MetUnder(tree, ancestry, p) = OnlyUnder(tree, ancestry, q)
      PROVE  FALSE
  <2>. DEFINE from == Above(tree, ancestry, p)
              here == CallAt(tree, ancestry, q)
  <2>1. p # <<>> /\ from.walked /\ tree[Front(p)].type \in {"multipart", "rfc822"} BY <1>5 DEF Met
  <2>2. Front(p) \in DOMAIN tree /\ Last(p) \in Nat BY <2>1, PositionFacts
  <2>3. from.ancestry \in Seq(Nodes) /\ from.path \in Seq(Nat) BY <1>5, LeafTyped
  <2>4. from.ancestry = here.ancestry /\ PartNode(MetPath(tree, ancestry, p)) = PartNode(<<1>>)
    <3>. DEFINE x == PartNode(MetPath(tree, ancestry, p))
                y == PartNode(<<1>>)
                s == from.ancestry
                t == here.ancestry
    <3>1. s \in Seq(Nodes) /\ t \in Seq(Nodes) /\ x \in Nodes /\ y \in Nodes BY <1>5, LeafTyped
    <3>2. Append(s, x) = Append(t, y) BY <1>5 DEF MetUnder, OnlyUnder
    <3>. HIDE DEF s, t, x, y
    <3>3. s = t /\ x = y BY <1>1, <3>1, <3>2
    <3>. QED BY <3>3 DEF s, t, x, y
  <2>5. Append(from.path, Last(p)) = <<1>> BY <2>4 DEF PartNode, MetPath, ChildPath
  <2>6. from.path = <<>>
    <3>. DEFINE s == from.path
    <3>1. s \in Seq(Nat) /\ Append(s, Last(p)) = <<1>> BY <2>3, <2>5
    <3>. HIDE DEF s
    <3>2. Len(Append(s, Last(p))) = Len(s) + 1 /\ Len(<<1>>) = 1 /\ Len(s) \in Nat
      BY <2>2, <3>1, AppendProperties, LenProperties
    <3>3. Len(s) = 0 BY <3>1, <3>2
    <3>4. s = <<>> BY <3>1, <3>3, EmptySeq
    <3>. QED BY <3>4 DEF s
  <2>7. here.walked /\ here.path = <<>> /\ tree[q].type = "part" BY <1>5 DEF IsOnly
  <2>8. Front(p) = q
    BY <2>1, <2>2, <2>4, <2>6, <2>7, CallsDiffer DEF Above
  <2>. QED BY <2>1, <2>7, <2>8
<1>6. ASSUME Met(tree, ancestry, p), Met(tree, ancestry, q),
             CycleUnder(tree, ancestry, p) = CycleUnder(tree, ancestry, q)
      PROVE  p = q
  <2>1. MetUnder(tree, ancestry, p) = MetUnder(tree, ancestry, q)
    BY <1>1, <1>6, LeafTyped DEF CycleUnder
  <2>. QED BY <1>6, <2>1, MeetingsDiffer
<1>7. ASSUME IsOnly(tree, ancestry, p), IsOnly(tree, ancestry, q),
             OnlyUnder(tree, ancestry, p) = OnlyUnder(tree, ancestry, q)
      PROVE  p = q
  <2>1. CallAt(tree, ancestry, p).ancestry = CallAt(tree, ancestry, q).ancestry
    <3>. DEFINE y == PartNode(<<1>>)
                s == CallAt(tree, ancestry, p).ancestry
                t == CallAt(tree, ancestry, q).ancestry
    <3>1. s \in Seq(Nodes) /\ t \in Seq(Nodes) /\ y \in Nodes BY LeafTyped
    <3>2. Append(s, y) = Append(t, y) BY <1>7 DEF OnlyUnder
    <3>. HIDE DEF s, t, y
    <3>3. s = t BY <1>1, <3>1, <3>2
    <3>. QED BY <3>3 DEF s, t
  <2>. QED BY <1>7, <2>1, CallsDiffer DEF IsOnly
<1>. QED BY <1>3, <1>4, <1>5, <1>6, <1>7

\* The leaves of one message have distinct nodes around them.
LEMMA LeavesDiffer ==
    ASSUME NEW tree, IsMessage(tree), NEW ancestry, Alone(ancestry),
           NEW p \in DOMAIN tree, NEW q \in DOMAIN tree,
           NEW m \in DOMAIN LeavesAt(tree, ancestry, p), NEW n \in DOMAIN LeavesAt(tree, ancestry, q),
           LeavesAt(tree, ancestry, p)[m].ancestry = LeavesAt(tree, ancestry, q)[n].ancestry
    PROVE  p = q /\ m = n
<1>. DEFINE a == LeavesAt(tree, ancestry, p)[m].ancestry
            b == LeavesAt(tree, ancestry, q)[n].ancestry
            AsMet(r, k, leaf) == Met(tree, ancestry, r) /\ k = 1 /\ leaf = MetUnder(tree, ancestry, r)
            AsCycle(r, k, leaf) == Met(tree, ancestry, r) /\ k = 2 /\ leaf = CycleUnder(tree, ancestry, r)
            AsOnly(r, k, leaf) == /\ IsOnly(tree, ancestry, r) /\ k = (IF r = <<>> THEN 1 ELSE 2)
                                  /\ leaf = OnlyUnder(tree, ancestry, r)
<1>1. AsMet(p, m, a) \/ AsCycle(p, m, a) \/ AsOnly(p, m, a) BY LeafIs
<1>2. AsMet(q, n, b) \/ AsCycle(q, n, b) \/ AsOnly(q, n, b) BY LeafIs
<1>3. a = b OBVIOUS
<1>. HIDE DEF a, b
<1>4. CASE AsMet(p, m, a)
  <2>1. CASE AsMet(q, n, b) BY <1>3, <1>4, <2>1, MeetingsDiffer
  <2>2. CASE AsCycle(q, n, b) BY <1>3, <1>4, <2>2, KindsDiffer
  <2>3. CASE AsOnly(q, n, b) BY <1>3, <1>4, <2>3, KindsDiffer
  <2>. QED BY <1>2, <2>1, <2>2, <2>3
<1>5. CASE AsCycle(p, m, a)
  <2>1. CASE AsMet(q, n, b) BY <1>3, <1>5, <2>1, KindsDiffer
  <2>2. CASE AsCycle(q, n, b) BY <1>3, <1>5, <2>2, KindsDiffer
  <2>3. CASE AsOnly(q, n, b) BY <1>3, <1>5, <2>3, KindsDiffer
  <2>. QED BY <1>2, <2>1, <2>2, <2>3
<1>6. CASE AsOnly(p, m, a)
  <2>1. CASE AsMet(q, n, b) BY <1>3, <1>6, <2>1, KindsDiffer
  <2>2. CASE AsCycle(q, n, b) BY <1>3, <1>6, <2>2, KindsDiffer
  <2>3. CASE AsOnly(q, n, b) BY <1>3, <1>6, <2>3, KindsDiffer
  <2>. QED BY <1>2, <2>1, <2>2, <2>3
<1>. QED BY <1>1, <1>4, <1>5, <1>6

-----------------------------------------------------------------------------
\* The leaves of all messages of a mailbox, which have nodes of their own.
LEMMA MailboxLeavesDiffer ==
    ASSUME NEW box \in Mailboxes, NEW i \in DOMAIN box, NEW j \in DOMAIN box,
           NEW p \in DOMAIN box[i], NEW q \in DOMAIN box[j],
           NEW m \in DOMAIN MboxLeaves(box, i, p), NEW n \in DOMAIN MboxLeaves(box, j, q),
           MboxLeaves(box, i, p)[m].ancestry = MboxLeaves(box, j, q)[n].ancestry
    PROVE  i = j /\ p = q /\ m = n
<1>. DEFINE Root(k) == <<MessageNode(<<k>>)>>
<1>1. ASSUME NEW x PROVE <<x>>[1] = x /\ Len(<<x>>) = 1 /\ (\A S : x \in S => <<x>> \in Seq(S))
  OBVIOUS
<1>2. ASSUME NEW k \in DOMAIN box PROVE IsMessage(box[k]) /\ Alone(Root(k))
  <2>1. k \in Nat /\ IsMessage(box[k]) BY MailAssumption
  <2>2. MessageNode(<<k>>) \in Nodes
    <3>1. <<k>> \in Seq(Nat) BY <2>1
    <3>. QED BY <3>1 DEF MessageNode, Nodes
  <2>. QED BY <1>1, <2>1, <2>2 DEF Alone
<1>3. ASSUME NEW k PROVE Root(k)[1] = MessageNode(<<k>>)
  BY <1>1
<1>4. ASSUME NEW k \in DOMAIN box, NEW r \in DOMAIN box[k], NEW l \in DOMAIN MboxLeaves(box, k, r)
      PROVE  /\ box[k][<<>>].type = "bytes" =>
                  r = <<>> /\ l = 1 /\ MboxLeaves(box, k, r)[l].ancestry = Root(k)
             /\ box[k][<<>>].type # "bytes" => MboxLeaves(box, k, r) = LeavesAt(box[k], Root(k), r)
             /\ MboxLeaves(box, k, r)[l].ancestry[1] = MessageNode(<<k>>)
  <2>1. CASE box[k][<<>>].type = "bytes"
    <3>1. r = <<>>
      <4>1. r # <<>> => MboxLeaves(box, k, r) = <<>> BY <2>1 DEF MboxLeaves
      <4>. QED BY <1>4, <4>1, Emitted
    <3>. DEFINE x == Yield(Root(k), Undecoded, FALSE)
    <3>2. MboxLeaves(box, k, r) = <<x>> BY <2>1, <3>1 DEF MboxLeaves
    <3>3. x.ancestry = Root(k) BY DEF Yield
    <3>. HIDE DEF x
    <3>4. l = 1 /\ MboxLeaves(box, k, r)[l] = x BY <1>4, <3>2, Emitted
    <3>5. Root(k)[1] = MessageNode(<<k>>) BY <1>3
    <3>. HIDE DEF Root
    <3>. QED BY <2>1, <3>1, <3>3, <3>4, <3>5
  <2>2. CASE box[k][<<>>].type # "bytes"
    <3>1. MboxLeaves(box, k, r) = LeavesAt(box[k], Root(k), r) BY <2>2 DEF MboxLeaves
    <3>2. IsMessage(box[k]) /\ Alone(Root(k)) BY <1>2
    <3>3. MboxLeaves(box, k, r)[l].ancestry[1] = Root(k)[1]
      <4>. HIDE DEF Root
      <4>1. /\ OnlyUnder(box[k], Root(k), r)[1] = Root(k)[1]
            /\ Met(box[k], Root(k), r) => /\ MetUnder(box[k], Root(k), r)[1] = Root(k)[1]
                                         /\ CycleUnder(box[k], Root(k), r)[1] = Root(k)[1]
        BY <3>2, LeafTyped
      <4>2. LET leaf == MboxLeaves(box, k, r)[l].ancestry IN
            \/ leaf = OnlyUnder(box[k], Root(k), r)
            \/ Met(box[k], Root(k), r)
                 /\ leaf \in {MetUnder(box[k], Root(k), r), CycleUnder(box[k], Root(k), r)}
        BY <3>1, <3>2, LeafIs
      <4>. QED BY <4>1, <4>2
    <3>. QED BY <2>2, <3>1, <3>3, <1>3
  <2>. QED BY <2>1, <2>2
<1>5. i = j
  <2>1. MboxLeaves(box, i, p)[m].ancestry[1] = MessageNode(<<i>>) BY <1>4
  <2>2. MboxLeaves(box, j, q)[n].ancestry[1] = MessageNode(<<j>>) BY <1>4
  <2>3. MessageNode(<<i>>) = MessageNode(<<j>>)
    <3>. DEFINE a == MboxLeaves(box, i, p)[m].ancestry
                b == MboxLeaves(box, j, q)[n].ancestry
    <3>1. a = b OBVIOUS
    <3>. HIDE DEF a, b
    <3>. QED BY <2>1, <2>2, <3>1 DEF a, b
  <2>4. <<i>> = <<j>> BY <2>3 DEF MessageNode
  <2>. QED BY <2>4
<1>6. CASE box[i][<<>>].type = "bytes"
  BY <1>4, <1>5, <1>6
<1>7. CASE box[i][<<>>].type # "bytes"
  <2>1. IsMessage(box[i]) /\ Alone(Root(i)) BY <1>2
  <2>2. /\ MboxLeaves(box, i, p) = LeavesAt(box[i], Root(i), p)
        /\ MboxLeaves(box, j, q) = LeavesAt(box[i], Root(i), q)
    BY <1>4, <1>5, <1>7
  <2>. HIDE DEF Root
  <2>. QED BY <1>5, <2>1, <2>2, LeavesDiffer
<1>. QED BY <1>6, <1>7

\* However messages and parts are nested, and wherever a message occurs in itself: no two
\* leaves of a mailbox have the same nodes around them, ...
THEOREM NoTwins == Twins = {}
<1>. SUFFICES ASSUME NEW box \in Mailboxes, NEW a \in Places(box), NEW b \in Places(box),
                     LeafAt(box, a).ancestry = LeafAt(box, b).ancestry
              PROVE  a = b
  BY DEF Twins, TwinsOf, SameNodes
<1>1. PICK i \in DOMAIN box : \E p \in DOMAIN box[i] :
            \E m \in DOMAIN MboxLeaves(box, i, p) : a = <<i, p, m>>
  BY DEF Places
<1>2. PICK j \in DOMAIN box : \E q \in DOMAIN box[j] :
            \E n \in DOMAIN MboxLeaves(box, j, q) : b = <<j, q, n>>
  BY DEF Places
<1>3. PICK p \in DOMAIN box[i] : \E m \in DOMAIN MboxLeaves(box, i, p) : a = <<i, p, m>>
  BY <1>1
<1>4. PICK q \in DOMAIN box[j] : \E n \in DOMAIN MboxLeaves(box, j, q) : b = <<j, q, n>>
  BY <1>2
<1>5. PICK m \in DOMAIN MboxLeaves(box, i, p) : a = <<i, p, m>>
  BY <1>3
<1>6. PICK n \in DOMAIN MboxLeaves(box, j, q) : b = <<j, q, n>>
  BY <1>4
<1>7. MboxLeaves(box, i, p)[m].ancestry = MboxLeaves(box, j, q)[n].ancestry
  BY <1>5, <1>6 DEF LeafAt
<1>8. i = j /\ p = q /\ m = n
  BY <1>7, MailboxLeavesDiffer
<1>. QED BY <1>5, <1>6, <1>8

\* ... so that under any policy their records have distinct ids and none replaces another.
THEOREM LeavesDistinct == Spec => []MailLeavesDistinct
<1>1. MailLeavesDistinct
  BY NoTwins DEF MailLeavesDistinct
<1>. QED BY <1>1, PTL
=============================================================================
