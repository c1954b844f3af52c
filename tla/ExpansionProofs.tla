-------------------------- MODULE ExpansionProofs ---------------------------
(***************************************************************************)
(* The expansion of containers: types and nesting of the stack, owners of  *)
(* failures, private files, charges and the bound on the recursion, for    *)
(* all contents, policies and interleavings.                               *)
(***************************************************************************)
EXTENDS Expansion, SequenceLemmas

\* What the frames of the stack say of each other.  A mailbox among the source
\* files is not a container and is only ever the outermost frame.
Outer(s) == IF s # <<>> /\ ~IsContainer(s[1]) THEN 1 ELSE 0

Nested(s) ==
    /\ s \in Seq(FrameType)
    /\ \A i \in DOMAIN s :
         /\ s[i].at # <<>>
         /\ i > 1 => IsContainer(s[i])
         /\ s[i].kind = "archive" => Shape[s[i].body] \in ArchiveShapes
         /\ IsContainer(s[i]) => i <= s[i].depth + 1 + Outer(s) /\ s[i].depth < policy.depth
    /\ \A i, j \in DOMAIN s : i < j =>
         /\ IsStrictPrefix(s[i].at, s[j].at)
         /\ IsContainer(s[i]) => s[i].body # s[j].body

Places(s) == {s[i].at : i \in {j \in DOMAIN s : IsContainer(s[j])}}

\* Frames that differ in what they hold, not in what they are.
Alike(f, g) == f.kind = g.kind /\ f.at = g.at /\ f.body = g.body /\ f.depth = g.depth
SameFrames(s, t) ==
    t \in Seq(FrameType) /\ Len(t) = Len(s) /\ \A i \in 1 .. Len(s) : Alike(s[i], t[i])

\* The blob, the failure and the private files at hand.
ItemType == [at : Positions, body : Content, depth : Nat, whole : BOOLEAN]
Reasons == {"member count", "unsafe", "declared", "member size", "run count", "run size",
            "container size", "ratio", "corrupt"}
FaultType == [owner : Positions, reason : Reasons]
PrivateType ==
    [at : Positions, stream : Nat, written : Seq(Nat), observed : Nat,
     pending : SUBSET [part : Nat \ {0}, bytes : Nat, total : Nat],
     stopped : SUBSET Nat, fault : SUBSET FaultType]

StagedHere(x) ==
    /\ x \in ItemType /\ x.at # <<>>
    /\ stack # <<>> => IsStrictPrefix(Top.at, x.at)
    /\ Len(stack) <= x.depth + Outer(stack)

Extracted(p) ==
    /\ p \in PrivateType
    /\ Staging /\ p.at = Top.at
    /\ \A c \in p.pending : c.part \in DOMAIN p.written
    /\ Top.phase = "extracting" => Len(p.written) = Len(Inside)
    /\ \A x \in p.fault : x.owner = None \/ x.owner \in Places(stack)

ItemHeld == item = {} \/ \E x : item = {x} /\ StagedHere(x) /\ failing = {} /\ private = {}
FailureHeld == failing = {} \/ \E x : failing = {x} /\ x.owner \in Places(stack) /\ private = {}
PrivateHeld == private = {} \/ \E p : private = {p} /\ Extracted(p)

\* The inductive invariant behind the types, owners, private files and recursion.
Shaped ==
    /\ source \in Sources /\ policy \in Policies
    /\ todo \in 1 .. Len(source) + 1
    /\ Nested(stack)
    /\ ItemHeld /\ FailureHeld /\ PrivateHeld
    /\ used \in [members : Nat, bytes : Nat]
    /\ outgoing \subseteq RecordType /\ journal \subseteq RecordType

\* What else a step must keep.
Frozen == source \in Sources /\ policy \in Policies /\ source' = source /\ policy' = policy

-----------------------------------------------------------------------------
\* The limits of a policy are positive and in order, as Policy.validate demands.
LEMMA PolicyFacts ==
    ASSUME policy \in Policies
    PROVE  /\ policy.depth \in Nat /\ policy.partsPerRun \in Nat /\ policy.memberBytes \in Nat
           /\ policy.containerBytes \in Nat /\ policy.runBytes \in Nat /\ policy.partsPerContainer \in Nat
           /\ policy.depth > 0 /\ policy.runBytes > 0 /\ policy.containerBytes > 0
           /\ policy.memberBytes <= policy.containerBytes /\ policy.containerBytes <= policy.runBytes
<1>1. ValidPolicy(policy)
  BY PolicyAssumption
<1>2. policy \in [LimitNames -> Nat \ {0}]
  BY <1>1 DEF ValidPolicy
<1>3. \A l \in LimitNames : policy[l] \in Nat \ {0}
  BY <1>2
<1>. QED BY <1>1, <1>3 DEF ValidPolicy, LimitNames

\* The position of a part lies inside that of what it is a part of.
LEMMA PrefixOfPart ==
    ASSUME NEW p \in Seq(Nat), NEW n \in Nat
    PROVE  Append(p, n) \in Seq(Nat) /\ Append(p, n) # <<>> /\ IsStrictPrefix(p, Append(p, n))
<1>1. Append(p, n) \in Seq(Nat) /\ Append(p, n) # <<>>
  BY AppendProperties
<1>2. IsStrictPrefix(p, Append(p, n))
  BY StrictPrefixAppend
<1>. QED BY <1>1, <1>2

-----------------------------------------------------------------------------
\* The stack, its top and what lies below.
LEMMA StackFacts ==
    ASSUME NEW s, Nested(s)
    PROVE  /\ Len(s) \in Nat /\ DOMAIN s = 1 .. Len(s)
           /\ \A i \in 1 .. Len(s) : s[i] \in FrameType /\ s[i].at \in Seq(Nat)
           /\ s = <<>> <=> Len(s) = 0
           /\ s # <<>> => Last(s) = s[Len(s)] /\ Len(s) \in 1 .. Len(s)
<1>1. s \in Seq(FrameType)
  BY DEF Nested
<1>2. Len(s) \in Nat /\ DOMAIN s = 1 .. Len(s) /\ (s = <<>> <=> Len(s) = 0)
  BY <1>1, LenProperties, EmptySeq
<1>3. \A i \in 1 .. Len(s) : s[i] \in FrameType
  BY <1>1, ElementOfSeq
<1>4. \A i \in 1 .. Len(s) : s[i].at \in Seq(Nat)
  BY <1>3 DEF FrameType, Positions
<1>. QED BY <1>2, <1>3, <1>4 DEF Last

\* Nesting survives when frames only change what they hold.
LEMMA NestedAlike ==
    ASSUME NEW s, NEW t, Nested(s), SameFrames(s, t)
    PROVE  Nested(t) /\ Places(t) = Places(s) /\ Outer(t) = Outer(s)
<1>1. /\ t \in Seq(FrameType) /\ Len(t) = Len(s) /\ s \in Seq(FrameType)
      /\ DOMAIN t = 1 .. Len(s) /\ DOMAIN s = 1 .. Len(s) /\ Len(s) \in Nat
      /\ (s = <<>> <=> Len(s) = 0) /\ (t = <<>> <=> Len(t) = 0)
  BY LenProperties, EmptySeq DEF SameFrames, Nested
<1>2. \A i \in 1 .. Len(s) : /\ t[i].kind = s[i].kind /\ t[i].at = s[i].at
                             /\ t[i].body = s[i].body /\ t[i].depth = s[i].depth
  BY DEF SameFrames, Alike
<1>3. \A i \in 1 .. Len(s) : IsContainer(t[i]) <=> IsContainer(s[i])
  BY <1>2 DEF IsContainer
<1>4. Outer(t) = Outer(s)
  BY <1>1, <1>3 DEF Outer
<1>5. Places(t) = Places(s)
  BY <1>1, <1>2, <1>3 DEF Places
<1>6. \A i \in DOMAIN t :
         /\ t[i].at # <<>>
         /\ i > 1 => IsContainer(t[i])
         /\ t[i].kind = "archive" => Shape[t[i].body] \in ArchiveShapes
         /\ IsContainer(t[i]) => i <= t[i].depth + 1 + Outer(t) /\ t[i].depth < policy.depth
  BY <1>1, <1>2, <1>3, <1>4 DEF Nested
<1>7. \A i, j \in DOMAIN t : i < j =>
         /\ IsStrictPrefix(t[i].at, t[j].at)
         /\ IsContainer(t[i]) => t[i].body # t[j].body
  BY <1>1, <1>2, <1>3 DEF Nested
<1>. QED BY <1>1, <1>4, <1>5, <1>6, <1>7 DEF Nested

\* ... when the innermost frame is left ...
LEMMA NestedBelow ==
    ASSUME NEW s, Nested(s), s # <<>>
    PROVE  /\ Nested(Front(s)) /\ Len(Front(s)) = Len(s) - 1
           /\ \A i \in 1 .. Len(s) - 1 : Front(s)[i] = s[i]
           /\ Places(s) \subseteq Places(Front(s)) \cup {Last(s).at}
<1>1. /\ s \in Seq(FrameType) /\ Len(s) \in Nat /\ Len(s) > 0 /\ DOMAIN s = 1 .. Len(s)
      /\ Last(s) = s[Len(s)]
  BY LenProperties, EmptySeq DEF Nested, Last
<1>2. /\ Front(s) \in Seq(FrameType) /\ Len(Front(s)) = Len(s) - 1
      /\ \A i \in 1 .. Len(s) - 1 : Front(s)[i] = s[i]
  BY <1>1, FrontLast
<1>3. DOMAIN Front(s) = 1 .. Len(s) - 1 /\ (Front(s) = <<>> <=> Len(s) - 1 = 0)
  BY <1>1, <1>2, LenProperties, EmptySeq
<1>4. Front(s) # <<>> => Outer(Front(s)) = Outer(s)
  BY <1>1, <1>2, <1>3 DEF Outer
<1>5. \A i \in DOMAIN Front(s) : i \in DOMAIN s /\ Front(s)[i] = s[i] /\ Front(s) # <<>>
  BY <1>1, <1>2, <1>3
<1>6. Nested(Front(s))
  BY <1>2, <1>4, <1>5 DEF Nested
<1>7. Places(s) \subseteq Places(Front(s)) \cup {Last(s).at}
  BY <1>1, <1>2, <1>3 DEF Places
<1>. QED BY <1>2, <1>6, <1>7

\* ... and when a container is entered that lies inside the innermost, is another
\* content than those around it, and is not too deep.
LEMMA NestedEntered ==
    ASSUME NEW s, Nested(s), NEW f \in FrameType, f.at # <<>>,
           s # <<>> => IsStrictPrefix(Last(s).at, f.at) /\ IsContainer(f),
           f.kind = "archive" => Shape[f.body] \in ArchiveShapes,
           IsContainer(f) => Len(s) <= f.depth + Outer(s) /\ f.depth < policy.depth,
           \A i \in DOMAIN s : IsContainer(s[i]) => s[i].body # f.body
    PROVE  Nested(Append(s, f))
<1>. DEFINE t == Append(s, f)
            n == Len(s) + 1
<1>1. /\ s \in Seq(FrameType) /\ Len(s) \in Nat /\ DOMAIN s = 1 .. Len(s)
      /\ s # <<>> => Last(s) = s[Len(s)] /\ Len(s) \in 1 .. Len(s)
      /\ \A i \in 1 .. Len(s) : s[i].at \in Seq(Nat)
      /\ s = <<>> <=> Len(s) = 0
  BY StackFacts DEF Nested
<1>2. /\ t \in Seq(FrameType) /\ Len(t) = n /\ t # <<>>
      /\ \A i \in 1 .. Len(s) : t[i] = s[i]
      /\ t[n] = f
  BY <1>1, AppendProperties
<1>3. DOMAIN t = 1 .. n
  BY <1>2, LenProperties
<1>. HIDE DEF t
<1>4. s # <<>> => Outer(t) = Outer(s)
  BY <1>1, <1>2 DEF Outer
<1>5. f.at \in Seq(Nat) /\ f.depth \in Nat
  BY DEF FrameType, Positions
<1>6. \A i \in 1 .. Len(s) : IsStrictPrefix(s[i].at, f.at)
  <2>. SUFFICES ASSUME NEW i \in 1 .. Len(s) PROVE IsStrictPrefix(s[i].at, f.at) OBVIOUS
  <2>1. s # <<>> /\ s[Len(s)].at \in Seq(Nat) /\ IsStrictPrefix(s[Len(s)].at, f.at) BY <1>1
  <2>2. i < Len(s) => IsStrictPrefix(s[i].at, s[Len(s)].at) BY <1>1, <2>1 DEF Nested
  <2>3. i = Len(s) \/ i < Len(s)
    <3>1. Len(s) \in Nat BY <1>1
    <3>. QED BY <3>1
  <2>. QED BY <1>1, <1>5, <2>1, <2>2, <2>3, StrictPrefixTransitive
<1>7. ASSUME NEW i \in DOMAIN t
      PROVE  /\ t[i].at # <<>>
             /\ i > 1 => IsContainer(t[i])
             /\ t[i].kind = "archive" => Shape[t[i].body] \in ArchiveShapes
             /\ IsContainer(t[i]) => i <= t[i].depth + 1 + Outer(t) /\ t[i].depth < policy.depth
  <2>1. CASE i \in 1 .. Len(s)
    <3>1. s # <<>> /\ t[i] = s[i] /\ i \in DOMAIN s BY <1>1, <1>2, <2>1
    <3>. QED BY <1>4, <3>1 DEF Nested
  <2>2. CASE i = n
    <3>1. t[i] = f BY <1>2, <2>2
    <3>2. i > 1 => s # <<>> BY <1>1, <2>2
    <3>3. IsContainer(f) => i <= f.depth + 1 + Outer(t)
      <4>1. CASE s = <<>>
        <5>1. i = 1 /\ (Outer(t) = 0 \/ Outer(t) = 1) BY <1>1, <2>2, <4>1 DEF Outer
        <5>. QED BY <1>5, <5>1
      <4>2. CASE s # <<>>
        <5>1. Outer(t) = Outer(s) /\ (Outer(t) = 0 \/ Outer(t) = 1) BY <1>4, <4>2 DEF Outer
        <5>. QED BY <1>1, <1>5, <2>2, <5>1
      <4>. QED BY <4>1, <4>2
    <3>. QED BY <3>1, <3>2, <3>3
  <2>. QED BY <1>1, <1>3, <2>1, <2>2
<1>8. ASSUME NEW i \in DOMAIN t, NEW j \in DOMAIN t, i < j
      PROVE  /\ IsStrictPrefix(t[i].at, t[j].at)
             /\ IsContainer(t[i]) => t[i].body # t[j].body
  <2>1. i \in 1 .. Len(s) /\ t[i] = s[i] /\ i \in DOMAIN s BY <1>1, <1>2, <1>3, <1>8
  <2>2. CASE j \in 1 .. Len(s)
    BY <1>1, <1>2, <1>8, <2>1, <2>2 DEF Nested
  <2>3. CASE j = n
    BY <1>2, <1>6, <2>1, <2>3
  <2>. QED BY <1>1, <1>3, <2>2, <2>3
<1>9. Nested(t)
  BY <1>2, <1>7, <1>8 DEF Nested
<1>. QED BY <1>9 DEF t

-----------------------------------------------------------------------------
\* What the steps do to a frame.
SameSpent(s, t) == \A i \in 1 .. Len(s) : t[i].spent = s[i].spent

\* What a frame is made of, and that it stays a frame when it receives records, ...
LEMMA FrameFields ==
    ASSUME NEW f \in FrameType
    PROVE  /\ f.kind \in {"source", "archive", "mail"} /\ f.at \in Seq(Nat) /\ f.body \in Content
           /\ f.depth \in Nat /\ f.next \in Nat \ {0} /\ f.spent \in Nat /\ f.buffer \subseteq RecordType
BY DEF FrameType, Positions

\* ... new records come into its buffer, ...
LEMMA FrameReceives ==
    ASSUME NEW f \in FrameType, NEW recs \in SUBSET RecordType
    PROVE  /\ [f EXCEPT !.buffer = @ \cup recs] \in FrameType
           /\ Alike(f, [f EXCEPT !.buffer = @ \cup recs])
           /\ [f EXCEPT !.buffer = @ \cup recs].spent = f.spent
<1>1. f.buffer \cup recs \in SUBSET RecordType
  BY FrameFields
<1>. HIDE DEF RecordType
<1>. QED BY <1>1 DEF FrameType, Alike

\* ... it goes on to its next part, ...
LEMMA FrameStepped ==
    ASSUME NEW f \in FrameType
    PROVE  /\ [f EXCEPT !.next = @ + 1] \in FrameType
           /\ Alike(f, [f EXCEPT !.next = @ + 1])
           /\ [f EXCEPT !.next = @ + 1].spent = f.spent
           /\ [f EXCEPT !.next = @ + 1].phase = f.phase
<1>1. f.next + 1 \in Nat \ {0}
  BY FrameFields
<1>. QED BY <1>1 DEF FrameType, Alike

\* ... it enters its next phase, ...
LEMMA FrameAdvanced ==
    ASSUME NEW f \in FrameType, NEW phase \in {"listing", "extracting", "staging", "parts"}
    PROVE  /\ [f EXCEPT !.phase = phase, !.next = 1] \in FrameType
           /\ Alike(f, [f EXCEPT !.phase = phase, !.next = 1])
           /\ [f EXCEPT !.phase = phase, !.next = 1].spent = f.spent
           /\ [f EXCEPT !.phase = phase, !.next = 1].phase = phase
<1>. DEFINE g == [f EXCEPT !.phase = phase, !.next = 1]
<1>1. f \in [kind : {"source", "archive", "mail"}, at : Positions, body : Content, depth : Nat,
             phase : {"unpacking", "listing", "extracting", "staging", "parts"}, next : Nat \ {0},
             spent : Nat, buffer : SUBSET RecordType]
  BY DEF FrameType
<1>2. /\ g.kind = f.kind /\ g.at = f.at /\ g.body = f.body /\ g.depth = f.depth
      /\ g.spent = f.spent /\ g.phase = phase
  BY <1>1
<1>3. phase \in {"unpacking", "listing", "extracting", "staging", "parts"} /\ 1 \in Nat \ {0}
  OBVIOUS
<1>4. g \in FrameType
  BY <1>1, <1>3 DEF FrameType
<1>. QED BY <1>2, <1>4 DEF Alike

\* ... or it is charged.
LEMMA FrameCharged ==
    ASSUME NEW f \in FrameType, NEW n \in Nat
    PROVE  /\ [f EXCEPT !.spent = n] \in FrameType
           /\ Alike(f, [f EXCEPT !.spent = n])
           /\ [f EXCEPT !.spent = n].spent = n
           /\ [f EXCEPT !.spent = n].phase = f.phase
BY DEF FrameType, Alike

\* Records go to the buffer of the innermost container or to the journal.
LEMMA DepositKeeps ==
    ASSUME NEW st, Nested(st), NEW recs \in SUBSET RecordType, Deposit(st, recs),
           outgoing \subseteq RecordType
    PROVE  /\ SameFrames(st, stack') /\ SameSpent(st, stack')
           /\ outgoing' \subseteq RecordType
<1>1. /\ st \in Seq(FrameType) /\ Len(st) \in Nat /\ DOMAIN st = 1 .. Len(st)
      /\ \A i \in 1 .. Len(st) : st[i] \in FrameType
      /\ st # <<>> => Last(st) = st[Len(st)] /\ Len(st) \in 1 .. Len(st)
  BY StackFacts DEF Nested
<1>2. CASE st # <<>> /\ IsContainer(Last(st))
  <2>. DEFINE f == [Last(st) EXCEPT !.buffer = @ \cup recs]
  <2>1. /\ stack' = Append(Front(st), f) /\ outgoing' = outgoing
    BY <1>2 DEF Deposit
  <2>2. Last(st) \in FrameType /\ Last(st) = st[Len(st)]
    BY <1>1, <1>2
  <2>3. f \in FrameType /\ Alike(Last(st), f) /\ f.spent = Last(st).spent
    BY <2>2, FrameReceives
  <2>. HIDE DEF f
  <2>4. Front(st) \in Seq(FrameType) /\ Len(Front(st)) = Len(st) - 1
        /\ \A i \in 1 .. Len(st) - 1 : Front(st)[i] = st[i]
    BY <1>1, <1>2, FrontLast
  <2>5. /\ stack' \in Seq(FrameType) /\ Len(stack') = Len(st)
        /\ \A i \in 1 .. Len(st) - 1 : stack'[i] = st[i]
        /\ stack'[Len(st)] = f
    <3>. DEFINE b == Front(st)
    <3>. HIDE DEF b
    <3>1. b \in Seq(FrameType) /\ Len(b) = Len(st) - 1 /\ \A i \in 1 .. Len(st) - 1 : b[i] = st[i]
      BY <2>4 DEF b
    <3>2. /\ Append(b, f) \in Seq(FrameType) /\ Len(Append(b, f)) = Len(b) + 1
          /\ \A i \in 1 .. Len(b) : Append(b, f)[i] = b[i]
          /\ Append(b, f)[Len(b) + 1] = f
      BY <2>3, <3>1, AppendProperties
    <3>3. stack' = Append(b, f) BY <2>1 DEF b
    <3>4. Len(st) \in Nat /\ Len(b) + 1 = Len(st) /\ Len(b) = Len(st) - 1 BY <1>1, <3>1
    <3>. QED BY <3>1, <3>2, <3>3, <3>4
  <2>6. \A i \in 1 .. Len(st) : Alike(st[i], stack'[i]) /\ stack'[i].spent = st[i].spent
    <3>. SUFFICES ASSUME NEW i \in 1 .. Len(st)
                  PROVE  Alike(st[i], stack'[i]) /\ stack'[i].spent = st[i].spent
      OBVIOUS
    <3>1. CASE i = Len(st) BY <2>2, <2>3, <2>5, <3>1
    <3>2. CASE i # Len(st)
      <4>1. i \in 1 .. Len(st) - 1
        <5>1. Len(st) \in Nat /\ i \in 1 .. Len(st) BY <1>1
        <5>. QED BY <3>2, <5>1
      <4>2. stack'[i] = st[i] BY <2>5, <4>1
      <4>. QED BY <4>2 DEF Alike
    <3>. QED BY <3>1, <3>2
  <2>. QED BY <2>1, <2>5, <2>6 DEF SameFrames, SameSpent
<1>3. CASE ~(st # <<>> /\ IsContainer(Last(st)))
  BY <1>1, <1>3 DEF Deposit, SameFrames, SameSpent, Alike
<1>. QED BY <1>2, <1>3

\* The next part.
LEMMA SteppedKeeps ==
    ASSUME NEW st, Nested(st), st # <<>>
    PROVE  /\ SameFrames(st, Stepped(st)) /\ SameSpent(st, Stepped(st))
           /\ Stepped(st)[Len(st)].phase = st[Len(st)].phase
<1>. DEFINE n == Len(st)
            f == [st[n] EXCEPT !.next = @ + 1]
<1>1. /\ st \in Seq(FrameType) /\ n \in 1 .. Len(st)
      /\ \A i \in 1 .. Len(st) : st[i] \in FrameType
  BY StackFacts DEF Nested
<1>2. f \in FrameType /\ Alike(st[n], f) /\ f.spent = st[n].spent /\ f.phase = st[n].phase
  BY <1>1, FrameStepped
<1>3. Stepped(st) = [st EXCEPT ![n] = f]
  BY DEF Stepped
<1>. HIDE DEF n, f
<1>4. /\ Stepped(st) \in Seq(FrameType) /\ Len(Stepped(st)) = Len(st)
      /\ \A i \in 1 .. Len(st) : Stepped(st)[i] = IF i = n THEN f ELSE st[i]
  BY <1>1, <1>2, <1>3, ExceptSeq
<1>5. n = Len(st) BY DEF n
<1>. QED BY <1>1, <1>2, <1>4, <1>5 DEF SameFrames, SameSpent, Alike

\* The next phase of an archive.
LEMMA AdvanceKeeps ==
    ASSUME Nested(stack), stack # <<>>, NEW phase \in {"listing", "extracting", "staging", "parts"}
    PROVE  /\ SameFrames(stack, Advance(phase)) /\ SameSpent(stack, Advance(phase))
           /\ Advance(phase)[Len(stack)].phase = phase
<1>. DEFINE n == Len(stack)
            f == [stack[n] EXCEPT !.phase = phase, !.next = 1]
<1>1. /\ stack \in Seq(FrameType) /\ n \in 1 .. Len(stack)
      /\ \A i \in 1 .. Len(stack) : stack[i] \in FrameType
  BY StackFacts DEF Nested
<1>2. f \in FrameType /\ Alike(stack[n], f) /\ f.spent = stack[n].spent /\ f.phase = phase
  <2>1. stack[n] \in FrameType BY <1>1
  <2>. HIDE DEF n
  <2>. QED BY <2>1, FrameAdvanced
<1>3. Advance(phase) = [stack EXCEPT ![n] = f]
  BY <1>1 DEF Advance
<1>. HIDE DEF n, f
<1>4. /\ Advance(phase) \in Seq(FrameType) /\ Len(Advance(phase)) = Len(stack)
      /\ \A i \in 1 .. Len(stack) : Advance(phase)[i] = IF i = n THEN f ELSE stack[i]
  BY <1>1, <1>2, <1>3, ExceptSeq
<1>5. n = Len(stack) BY DEF n
<1>. QED BY <1>1, <1>2, <1>4, <1>5 DEF SameFrames, SameSpent, Alike

\* Charges for a payload.
LEMMA ChargeKeeps ==
    ASSUME Nested(stack), NEW bytes \in Nat
    PROVE  /\ SameFrames(stack, ChargedStack(bytes))
           /\ \A i \in 1 .. Len(stack) : ChargedStack(bytes)[i].phase = stack[i].phase
           /\ \A i \in 1 .. Len(stack) :
                ChargedStack(bytes)[i].spent =
                  IF IsContainer(stack[i]) THEN stack[i].spent + bytes ELSE stack[i].spent
<1>1. /\ Len(stack) \in Nat /\ DOMAIN stack = 1 .. Len(stack)
      /\ \A i \in 1 .. Len(stack) : stack[i] \in FrameType
  BY StackFacts DEF Nested
<1>. DEFINE t == ChargedStack(bytes)
            Spent(i) == IF IsContainer(stack[i]) THEN stack[i].spent + bytes ELSE stack[i].spent
<1>2. t = [i \in 1 .. Len(stack) |-> [stack[i] EXCEPT !.spent = Spent(i)]]
  BY <1>1 DEF ChargedStack
<1>. HIDE DEF t
<1>3. \A i \in 1 .. Len(stack) : t[i] \in FrameType /\ Alike(stack[i], t[i])
                                 /\ t[i].spent = Spent(i) /\ t[i].phase = stack[i].phase
  <2>. SUFFICES ASSUME NEW i \in 1 .. Len(stack)
                PROVE  t[i] \in FrameType /\ Alike(stack[i], t[i])
                         /\ t[i].spent = Spent(i) /\ t[i].phase = stack[i].phase
    OBVIOUS
  <2>1. stack[i] \in FrameType /\ Spent(i) \in Nat BY <1>1, FrameFields
  <2>2. t[i] = [stack[i] EXCEPT !.spent = Spent(i)] BY <1>2
  <2>. HIDE DEF Spent
  <2>. QED BY <2>1, <2>2, FrameCharged
<1>4. t \in [1 .. Len(stack) -> FrameType]
  BY <1>2, <1>3
<1>5. t \in Seq(FrameType) /\ Len(t) = Len(stack)
  BY <1>1, <1>4, FunctionSeq
<1>6. SameFrames(stack, t)
  BY <1>3, <1>5 DEF SameFrames
<1>. QED BY <1>3, <1>6 DEF t

\* ... of which only the containers around its owner keep one that did not fit.
LEMMA OutsideKeeps ==
    ASSUME Nested(stack), NEW bytes \in Nat, NEW owner
    PROVE  /\ SameFrames(stack, ChargedOutside(owner, bytes))
           /\ \A i \in 1 .. Len(stack) : ChargedOutside(owner, bytes)[i].phase = stack[i].phase
           /\ \A i \in 1 .. Len(stack) :
                ChargedOutside(owner, bytes)[i].spent =
                  IF IsContainer(stack[i]) /\ IsStrictPrefix(stack[i].at, owner)
                    THEN stack[i].spent + bytes ELSE stack[i].spent
<1>1. /\ Len(stack) \in Nat /\ DOMAIN stack = 1 .. Len(stack)
      /\ \A i \in 1 .. Len(stack) : stack[i] \in FrameType
  BY StackFacts DEF Nested
<1>. DEFINE t == ChargedOutside(owner, bytes)
            Spent(i) == IF IsContainer(stack[i]) /\ IsStrictPrefix(stack[i].at, owner)
                          THEN stack[i].spent + bytes ELSE stack[i].spent
<1>2. t = [i \in 1 .. Len(stack) |-> [stack[i] EXCEPT !.spent = Spent(i)]]
  BY <1>1 DEF ChargedOutside
<1>. HIDE DEF t
<1>3. \A i \in 1 .. Len(stack) : t[i] \in FrameType /\ Alike(stack[i], t[i])
                                 /\ t[i].spent = Spent(i) /\ t[i].phase = stack[i].phase
  <2>. SUFFICES ASSUME NEW i \in 1 .. Len(stack)
                PROVE  t[i] \in FrameType /\ Alike(stack[i], t[i])
                         /\ t[i].spent = Spent(i) /\ t[i].phase = stack[i].phase
    OBVIOUS
  <2>1. stack[i] \in FrameType /\ Spent(i) \in Nat BY <1>1, FrameFields
  <2>2. t[i] = [stack[i] EXCEPT !.spent = Spent(i)] BY <1>2
  <2>. HIDE DEF Spent
  <2>. QED BY <2>1, <2>2, FrameCharged
<1>4. t \in [1 .. Len(stack) -> FrameType]
  BY <1>2, <1>3
<1>5. t \in Seq(FrameType) /\ Len(t) = Len(stack)
  BY <1>1, <1>4, FunctionSeq
<1>6. SameFrames(stack, t)
  BY <1>3, <1>5 DEF SameFrames
<1>. QED BY <1>3, <1>6 DEF t

-----------------------------------------------------------------------------
\* Who owns what a limit refuses: nobody, or an open container.
LimitReasons == {"member size", "run count", "run size", "container size"}
Owned(x) == x \in FaultType /\ (x.owner = None \/ x.owner \in Places(stack))

\* A simple limit has no owner, ...
LEMMA ExceedsOwned ==
    ASSUME NEW over, NEW reason \in Reasons, NEW x \in Exceeds(over, reason)
    PROVE  Owned(x) /\ x.owner = None /\ x.reason = reason /\ over
<1>1. x = [owner |-> <<>>, reason |-> reason] /\ over
  BY DEF Exceeds, Failure, None
<1>2. <<>> \in Positions
  BY EmptySeq DEF Positions
<1>. QED BY <1>1, <1>2 DEF Owned, FaultType, None

\* ... the budget of a container has that container, the outermost that is overrun, ...
LEMMA ContainerOwned ==
    ASSUME Nested(stack), NEW bytes, NEW x \in ContainerLimits(bytes)
    PROVE  /\ Owned(x) /\ x.reason = "container size"
           /\ \E i \in Overrun(bytes) : x.owner = stack[i].at /\ \A k \in Overrun(bytes) : i <= k
<1>1. PICK i \in Overrun(bytes) : /\ x = [owner |-> stack[i].at, reason |-> "container size"]
                                  /\ \A k \in Overrun(bytes) : i <= k
  BY DEF ContainerLimits, Failure
<1>2. i \in DOMAIN stack /\ IsContainer(stack[i])
  BY <1>1 DEF Overrun, Budgets, Containers
<1>3. stack[i].at \in Positions
  BY <1>2, StackFacts DEF Positions
<1>4. x \in FaultType
  BY <1>1, <1>3 DEF FaultType, Reasons
<1>. QED BY <1>1, <1>2, <1>4 DEF Owned, Places

\* ... and so has each check that is made of these: of the run and the containers, ...
LEMMA PreflightOwned ==
    ASSUME Nested(stack), NEW members, NEW bytes, NEW x \in Preflight(members, bytes)
    PROVE  Owned(x) /\ x.reason \in LimitReasons
<1>1. \/ x \in Exceeds(used.members + members > policy.partsPerRun, "run count")
      \/ x \in Exceeds(used.bytes + bytes > policy.runBytes, "run size")
      \/ x \in ContainerLimits(bytes)
  BY DEF Preflight, ??
<1>2. "run count" \in Reasons /\ "run size" \in Reasons BY DEF Reasons
<1>. QED BY <1>1, <1>2, ExceedsOwned, ContainerOwned DEF LimitReasons

\* ... of one payload, ...
LEMMA PayloadOwned ==
    ASSUME Nested(stack), NEW bytes, NEW x \in PayloadLimits(bytes)
    PROVE  Owned(x) /\ x.reason \in LimitReasons
<1>1. \/ x \in Exceeds(bytes > policy.memberBytes, "member size")
      \/ x \in Preflight(1, bytes)
  BY DEF PayloadLimits, ??
<1>2. "member size" \in Reasons BY DEF Reasons
<1>. QED BY <1>1, <1>2, ExceedsOwned, PreflightOwned DEF LimitReasons

\* ... of the listing of an archive, ...
LEMMA ListingOwned ==
    ASSUME Nested(stack), NEW x \in ListingLimits
    PROVE  Owned(x)
<1>. DEFINE lies == Shape[Top.body] \in {"zip", "7z"} /\ \E part \in Range(Inside) :
                       part.declared > policy.memberBytes \/ part.declared > part.most
<1>1. \/ x \in Exceeds(Len(Inside) > policy.partsPerContainer, "member count")
      \/ x \in Exceeds(Top.body \in Unsafe, "unsafe")
      \/ x \in Exceeds(lies, "declared")
      \/ x \in Preflight(Len(Inside), Declared)
  BY DEF ListingLimits, ??
<1>. HIDE DEF lies
<1>2. "member count" \in Reasons /\ "unsafe" \in Reasons /\ "declared" \in Reasons BY DEF Reasons
<1>. QED BY <1>1, <1>2, ExceedsOwned, PreflightOwned

\* ... the bound of a stream, ...
LEMMA BoundOwned ==
    ASSUME Nested(stack), NEW part, NEW b \in Tightest(Bounds(part))
    PROVE  Owned(Failure(b.reason, b.owner)) /\ (b.owner = None \/ b.owner \in Places(stack))
<1>1. b \in Bounds(part)
  BY DEF Tightest
<1>2. <<>> \in Positions
  BY EmptySeq DEF Positions
<1>3. \/ b.owner = None /\ b.reason \in Reasons
      \/ \E i \in Budgets : b.owner = stack[i].at /\ b.reason \in Reasons
  <2>1. \/ b = Bound(0, policy.memberBytes, "member size", None)
        \/ b = Bound(1, policy.runBytes - used.bytes, "run size", None)
        \/ b = Bound(2 + Len(stack), part.most, "ratio", None)
        \/ \E i \in Budgets :
             b = Bound(1 + i, policy.containerBytes - stack[i].spent, "container size", stack[i].at)
    BY <1>1 DEF Bounds, MemberBound
  <2>3. "member size" \in Reasons /\ "run size" \in Reasons /\ "ratio" \in Reasons
        /\ "container size" \in Reasons
    BY DEF Reasons
  <2>4. CASE b = Bound(0, policy.memberBytes, "member size", None) BY <2>3, <2>4 DEF Bound
  <2>5. CASE b = Bound(1, policy.runBytes - used.bytes, "run size", None) BY <2>3, <2>5 DEF Bound
  <2>6. CASE b = Bound(2 + Len(stack), part.most, "ratio", None) BY <2>3, <2>6 DEF Bound
  <2>7. CASE \E i \in Budgets :
               b = Bound(1 + i, policy.containerBytes - stack[i].spent, "container size", stack[i].at)
    <3>1. PICK i \in Budgets :
                 b = Bound(1 + i, policy.containerBytes - stack[i].spent, "container size", stack[i].at)
      BY <2>7
    <3>2. b.owner = stack[i].at /\ b.reason = "container size" BY <3>1 DEF Bound
    <3>. QED BY <2>3, <3>2
  <2>. QED BY <2>1, <2>4, <2>5, <2>6, <2>7
<1>4. ASSUME NEW i \in Budgets, b.owner = stack[i].at
      PROVE  b.owner \in Positions /\ b.owner \in Places(stack)
  <2>1. i \in DOMAIN stack /\ IsContainer(stack[i]) BY DEF Budgets, Containers
  <2>2. stack[i].at \in Positions BY <2>1, StackFacts DEF Positions
  <2>. QED BY <1>4, <2>1, <2>2 DEF Places
<1>5. b.reason \in Reasons /\ b.owner \in Positions /\ (b.owner = None \/ b.owner \in Places(stack))
  BY <1>2, <1>3, <1>4 DEF None
<1>. QED BY <1>5 DEF Owned, FaultType, Failure

\* ... and that of a member that is staged.
LEMMA StagingOwned ==
    ASSUME Nested(stack), NEW part, NEW b \in StagingBound(part)
    PROVE  b.owner = None \/ b.owner \in Places(stack)
<1>1. CASE Shape[Top.body] = "7z"
  <2>1. b = MemberBound BY <1>1 DEF StagingBound
  <2>. QED BY <2>1 DEF MemberBound, Bound
<1>2. CASE Shape[Top.body] # "7z"
  BY <1>2, BoundOwned DEF StagingBound
<1>. QED BY <1>1, <1>2

\* A failure inside a container has an open one for its owner.
LEMMA FailOwned ==
    ASSUME Nested(stack), stack # <<>>, IsContainer(Top), NEW x, Fail(x),
           x.owner = None \/ x.owner \in Places(stack)
    PROVE  \E y : failing' = {y} /\ y.owner \in Places(stack)
<1>1. Top = stack[Len(stack)] /\ Len(stack) \in DOMAIN stack
  BY StackFacts DEF Top
<1>2. Top.at \in Places(stack)
  BY <1>1 DEF Places
<1>3. failing' = {[owner |-> OwnerOf(x), reason |-> x.reason]}
  BY DEF Fail
<1>4. OwnerOf(x) \in Places(stack)
  BY <1>2 DEF OwnerOf
<1>5. [owner |-> OwnerOf(x), reason |-> x.reason].owner \in Places(stack)
  BY <1>4
<1>. QED BY <1>3, <1>5

-----------------------------------------------------------------------------
\* The parts of the invariant after a step.
LEMMA NestedNext ==
    ASSUME policy' = policy, Nested(stack')
    PROVE  Nested(stack)'
BY DEF Nested

\* The parts of Shaped, one by one, after a step.
LEMMA ShapedNext ==
    ASSUME Shaped, source' = source, policy' = policy,
           todo' = todo \/ (todo' = todo + 1 /\ todo \in DOMAIN source),
           Nested(stack'), ItemHeld', FailureHeld', PrivateHeld',
           used' \in [members : Nat, bytes : Nat],
           outgoing' \subseteq RecordType, journal' \subseteq RecordType
    PROVE  Shaped'
<1>1. source \in Seq(Content) /\ Len(source) \in Nat /\ DOMAIN source = 1 .. Len(source)
  <2>1. source \in Seq(Content) BY ExpansionAssumption DEF Shaped
  <2>. QED BY <2>1, LenProperties
<1>2. todo' \in 1 .. Len(source') + 1
  BY <1>1 DEF Shaped
<1>3. Nested(stack)'
  BY NestedNext
<1>. QED BY <1>2, <1>3 DEF Shaped

\* Nothing is said of an item, a failure or private files that are not there.
LEMMA NoneHeld ==
    /\ item' = {} => ItemHeld'
    /\ failing' = {} => FailureHeld'
    /\ private' = {} => PrivateHeld'
BY DEF ItemHeld, FailureHeld, PrivateHeld

\* Private files belong to the archive at hand, while it is being read.
LEMMA PrivateFacts ==
    ASSUME Shaped
    PROVE  /\ item # {} => failing = {} /\ private = {}
           /\ failing # {} => private = {} /\ item = {}
           /\ ~Staging => private = {}
BY DEF Shaped, ItemHeld, FailureHeld, PrivateHeld, Extracted

\* The top of the stack and what it contains.
LEMMA TopFacts ==
    ASSUME Shaped, stack # <<>>
    PROVE  /\ Top = stack[Len(stack)] /\ Len(stack) \in 1 .. Len(stack) /\ DOMAIN stack = 1 .. Len(stack)
           /\ Len(stack) \in Nat
           /\ Top \in FrameType /\ Top.at \in Seq(Nat) /\ Top.at # <<>> /\ Top.body \in Content
           /\ Top.next \in Nat \ {0} /\ Top.depth \in Nat
           /\ Inside \in Seq(PartType) /\ Len(Inside) \in Nat /\ DOMAIN Inside = 1 .. Len(Inside)
           /\ Top.kind = "archive" => Shape[Top.body] \in ArchiveShapes
           /\ \A i \in 1 .. Len(Inside) : Inside[i] \in PartType
           /\ ~IsContainer(Top) => Len(stack) = 1 /\ Outer(stack) = 1
<1>1. Nested(stack)
  BY DEF Shaped
<1>2. Top = stack[Len(stack)] /\ Len(stack) \in 1 .. Len(stack) /\ DOMAIN stack = 1 .. Len(stack)
      /\ Len(stack) \in Nat /\ Top \in FrameType
  BY <1>1, StackFacts DEF Top
<1>3. /\ Top.at \in Seq(Nat) /\ Top.body \in Content /\ Top.next \in Nat \ {0} /\ Top.depth \in Nat
  BY <1>2, FrameFields
<1>4. Top.at # <<>> /\ (Top.kind = "archive" => Shape[Top.body] \in ArchiveShapes)
      /\ (Len(stack) > 1 => IsContainer(Top))
  BY <1>1, <1>2 DEF Nested
<1>5. Inside \in Seq(PartType)
  BY <1>3, ExpansionAssumption DEF Inside
<1>6. Len(Inside) \in Nat /\ DOMAIN Inside = 1 .. Len(Inside) /\ \A i \in 1 .. Len(Inside) : Inside[i] \in PartType
  BY <1>5, LenProperties, ElementOfSeq
<1>7. ~IsContainer(Top) => Len(stack) = 1 /\ Outer(stack) = 1
  BY <1>2, <1>4 DEF Outer
<1>. QED BY <1>2, <1>3, <1>4, <1>5, <1>6, <1>7

\* Records of items inside the source.
LEMMA RecordsTyped ==
    ASSUME NEW pos \in Seq(Nat), NEW body \in Content, NEW status \in {"kept", "expanded", "unprocessed"},
           NEW reason \in {"unreadable", "depth", "undecoded"} \cup LimitReasons
    PROVE  /\ ContainerRec(pos, body, status) \in RecordType
           /\ BlobRec(pos, body, status) \in RecordType
           /\ FailureRec(pos, reason) \in RecordType
           /\ Rejection(pos, body) \subseteq RecordType
<1>1. pos \in Positions
  BY DEF Positions
<1>2. status \in Statuses /\ "unprocessed" \in Statuses /\ reason \in Statuses
  BY DEF Statuses, LimitReasons
<1>3. \A kind \in {"container", "blob", "failure"}, b \in Content \cup {NoBody}, st \in Statuses :
        [kind |-> kind, at |-> pos, body |-> b, status |-> st] \in RecordType
  BY <1>1 DEF RecordType
<1>. QED BY <1>2, <1>3 DEF ContainerRec, BlobRec, FailureRec, Rejection

\* A stack without frames is nested.
LEMMA EmptyNested ==
    /\ Nested(<<>>)
    /\ Len(<<>>) = 0
<1>1. <<>> \in Seq(FrameType) /\ Len(<<>>) = 0 /\ DOMAIN <<>> = 1 .. 0
  BY EmptySeq, LenProperties
<1>. QED BY <1>1 DEF Nested

\* A frame as it is made.
LEMMA FrameMade ==
    ASSUME NEW kind \in {"source", "archive", "mail"}, NEW pos \in Seq(Nat), NEW body \in Content,
           NEW depth \in Nat, NEW phase \in {"unpacking", "listing", "parts"}
    PROVE  /\ Frame(kind, pos, body, depth, phase) \in FrameType
           /\ Frame(kind, pos, body, depth, phase).kind = kind
           /\ Frame(kind, pos, body, depth, phase).at = pos
           /\ Frame(kind, pos, body, depth, phase).body = body
           /\ Frame(kind, pos, body, depth, phase).depth = depth
           /\ Frame(kind, pos, body, depth, phase).spent = 0
           /\ Frame(kind, pos, body, depth, phase).buffer = {}
<1>1. pos \in Positions /\ 1 \in Nat \ {0} /\ 0 \in Nat /\ {} \in SUBSET RecordType
      /\ phase \in {"unpacking", "listing", "extracting", "staging", "parts"}
  BY DEF Positions
<1>. QED BY <1>1 DEF Frame, FrameType

\* Nothing at hand changes while the stack stays.
LEMMA HeldStill ==
    ASSUME Shaped, stack' = stack, item' = item, failing' = failing, private' = private
    PROVE  ItemHeld' /\ FailureHeld' /\ PrivateHeld'
BY DEF Shaped, ItemHeld, FailureHeld, PrivateHeld, StagedHere, Extracted, Staging, Top, Inside

\* A part of the container at hand, staged.
LEMMA PartStaged ==
    ASSUME Shaped, stack # <<>>, SameFrames(stack, stack'),
           NEW body \in Content, NEW depth \in Nat, depth > Top.depth, NEW whole \in BOOLEAN,
           item' = Pick(PartAt, body, depth, whole), failing' = {}, private' = {}
    PROVE  ItemHeld'
<1>. PICK x : x = [at |-> PartAt, body |-> body, depth |-> depth, whole |-> whole]
  OBVIOUS
<1>1. item' = {x} /\ x.at = PartAt /\ x.depth = depth
  BY DEF Pick
<1>2. /\ Top = stack[Len(stack)] /\ Len(stack) \in 1 .. Len(stack) /\ Top.at \in Seq(Nat)
      /\ Top.next \in Nat /\ Top.depth \in Nat /\ Len(stack) \in Nat /\ Len(stack) \in DOMAIN stack
      /\ ~IsContainer(Top) => Len(stack) = 1 /\ Outer(stack) = 1
  BY TopFacts
<1>3. PartAt \in Seq(Nat) /\ PartAt # <<>> /\ IsStrictPrefix(Top.at, PartAt)
  BY <1>2, PrefixOfPart DEF PartAt
<1>4. x \in ItemType
  BY <1>3 DEF ItemType, Positions
<1>5. Nested(stack') /\ Outer(stack') = Outer(stack) /\ Len(stack') = Len(stack)
  BY NestedAlike DEF Shaped, SameFrames
<1>6. stack' # <<>> /\ Last(stack') = stack'[Len(stack)]
  BY <1>2, <1>5, StackFacts, EmptyNested
<1>7. Last(stack').at = Top.at
  BY <1>2, <1>6 DEF SameFrames, Alike
<1>8. Len(stack) <= depth + Outer(stack)
  <2>1. CASE IsContainer(Top)
    <3>1. Len(stack) <= Top.depth + 1 + Outer(stack) BY <1>2, <2>1 DEF Shaped, Nested
    <3>2. Outer(stack) \in Nat BY DEF Outer
    <3>. QED BY <1>2, <3>1, <3>2
  <2>2. CASE ~IsContainer(Top)
    <3>1. Len(stack) = 1 /\ Outer(stack) = 1 BY <1>2, <2>2
    <3>. QED BY <3>1
  <2>. QED BY <2>1, <2>2
<1>9. StagedHere(x)'
  <2>1. Outer(stack)' = Outer(stack) BY <1>5 DEF Outer
  <2>3. IsStrictPrefix(Top'.at, x.at) BY <1>1, <1>3, <1>6, <1>7 DEF Top
  <2>4. x.at # <<>> BY <1>1, <1>3
  <2>5. Len(stack') <= x.depth + Outer(stack)' BY <1>1, <1>5, <1>8, <2>1
  <2>. QED BY <1>4, <2>3, <2>4, <2>5 DEF StagedHere
<1>. QED BY <1>1, <1>9 DEF ItemHeld

\* The private files of the archive at hand, as it goes on.
LEMMA PrivateStays ==
    ASSUME Shaped, stack # <<>>, SameFrames(stack, stack'), NEW p, private' = {p},
           p \in PrivateType, p.at = Top.at, Top.kind = "archive",
           stack'[Len(stack)].phase # "parts",
           \A c \in p.pending : c.part \in DOMAIN p.written,
           stack'[Len(stack)].phase = "extracting" => Len(p.written) = Len(Inside),
           \A x \in p.fault : x.owner = None \/ x.owner \in Places(stack)
    PROVE  PrivateHeld'
<1>1. Top = stack[Len(stack)] /\ Len(stack) \in 1 .. Len(stack)
  BY TopFacts
<1>2. Nested(stack') /\ Places(stack') = Places(stack) /\ Len(stack') = Len(stack)
  BY NestedAlike DEF Shaped, SameFrames
<1>3. stack' # <<>> /\ Top' = stack'[Len(stack)]
  BY <1>1, <1>2, StackFacts, EmptyNested DEF Top
<1>4. Top'.at = Top.at /\ Top'.kind = Top.kind /\ Top'.body = Top.body
  BY <1>1, <1>3 DEF SameFrames, Alike
<1>5. Inside' = Inside
  BY <1>4 DEF Inside
<1>6. Staging'
  BY <1>3, <1>4 DEF Staging
<1>7. Extracted(p)'
  BY <1>2, <1>3, <1>4, <1>5, <1>6 DEF Extracted
<1>. QED BY <1>7 DEF PrivateHeld

-----------------------------------------------------------------------------
\* The steps, one by one.
LEMMA InitShaped == Init => Shaped
<1>. SUFFICES ASSUME Init PROVE Shaped OBVIOUS
<1>1. source \in Sources /\ policy \in Policies /\ source \in Seq(Content)
  BY ExpansionAssumption DEF Init
<1>2. todo \in 1 .. Len(source) + 1
  <2>1. Len(source) \in Nat BY <1>1, LenProperties
  <2>. QED BY <2>1 DEF Init
<1>3. ItemHeld /\ FailureHeld /\ PrivateHeld
  BY DEF Init, ItemHeld, FailureHeld, PrivateHeld
<1>. QED BY <1>1, <1>2, <1>3, EmptyNested DEF Init, Shaped, Unused

\* A record of the outgoing ones replaces one of the journal.
LEMMA WriteRecordShaped ==
    ASSUME Shaped, NEW r \in outgoing, WriteRecord(r)
    PROVE  Shaped'
<1>1. outgoing' \subseteq RecordType /\ journal' \subseteq RecordType
  BY DEF WriteRecord, Upsert, Shaped
<1>2. ItemHeld' /\ FailureHeld' /\ PrivateHeld'
  BY HeldStill DEF WriteRecord
<1>. QED BY <1>1, <1>2, ShapedNext DEF WriteRecord, Shaped

\* The file at hand, while the stack is empty.
LEMMA SourceFacts ==
    ASSUME Shaped, AtSource
    PROVE  /\ source[todo] \in Content /\ <<todo>> \in Seq(Nat) /\ <<todo>> # <<>>
           /\ todo \in DOMAIN source /\ todo \in Nat
           /\ stack = <<>> /\ item = {} /\ failing = {} /\ private = {} /\ outgoing = {}
<1>1. source \in Seq(Content)
  BY ExpansionAssumption DEF Shaped
<1>2. todo \in 1 .. Len(source) /\ Len(source) \in Nat /\ todo \in DOMAIN source
  BY <1>1, LenProperties DEF AtSource
<1>3. source[todo] \in Content
  BY <1>1, <1>2, ElementOfSeq
<1>4. stack = <<>> /\ item = {} /\ failing = {} /\ outgoing = {}
  BY DEF AtSource, Idle
<1>5. private = {}
  BY <1>4, PrivateFacts DEF Staging
<1>. QED BY <1>2, <1>3, <1>4, <1>5

\* The source file at hand is a mailbox.
LEMMA OpenMailboxShaped ==
    ASSUME Shaped, OpenMailbox
    PROVE  Shaped'
<1>. DEFINE f == Frame("source", <<todo>>, source[todo], 0, "parts")
<1>1. /\ AtSource /\ stack' = <<f>> /\ todo' = todo + 1
      /\ source' = source /\ policy' = policy /\ private' = private /\ item' = item
      /\ failing' = failing /\ used' = used /\ outgoing' = outgoing /\ journal' = journal
  BY DEF OpenMailbox
<1>2. /\ source[todo] \in Content /\ <<todo>> \in Seq(Nat) /\ <<todo>> # <<>> /\ todo \in DOMAIN source
      /\ stack = <<>> /\ item = {} /\ failing = {} /\ private = {}
  BY <1>1, SourceFacts
<1>3. f \in FrameType /\ f.kind = "source" /\ f.at = <<todo>>
  <2>1. \A pos \in Seq(Nat), body \in Content :
          /\ Frame("source", pos, body, 0, "parts") \in FrameType
          /\ Frame("source", pos, body, 0, "parts").kind = "source"
          /\ Frame("source", pos, body, 0, "parts").at = pos
    <3>1. "source" \in {"source", "archive", "mail"} /\ "parts" \in {"unpacking", "listing", "parts"} /\ 0 \in Nat
      OBVIOUS
    <3>. QED BY <3>1, FrameMade
  <2>. QED BY <1>2, <2>1
<1>. HIDE DEF f
<1>4. Nested(<<>>) /\ DOMAIN <<>> = {} /\ ~IsContainer(f) /\ f.at # <<>> /\ f.kind # "archive"
  BY <1>2, <1>3, EmptyNested DEF IsContainer
<1>5. Nested(Append(<<>>, f))
  BY <1>3, <1>4, NestedEntered
<1>6. Nested(stack')
  BY <1>1, <1>5
<1>7. ItemHeld' /\ FailureHeld' /\ PrivateHeld'
  BY <1>1, <1>2, NoneHeld
<1>. QED BY <1>1, <1>2, <1>6, <1>7, ShapedNext DEF Shaped

\* Charges are numbers.
LEMMA ChargedTyped ==
    ASSUME used \in [members : Nat, bytes : Nat], NEW bytes \in Nat
    PROVE  ChargedRun(bytes) \in [members : Nat, bytes : Nat]
BY DEF ChargedRun

\* The source file at hand is read, or is not.
LEMMA ReadSourceShaped ==
    ASSUME Shaped, ReadSource
    PROVE  Shaped'
<1>. DEFINE body == source[todo]
<1>1. /\ AtSource /\ todo' = todo + 1
      /\ source' = source /\ policy' = policy /\ private' = private
      /\ failing' = failing /\ journal' = journal
  BY DEF ReadSource
<1>2. /\ body \in Content /\ <<todo>> \in Seq(Nat) /\ <<todo>> # <<>> /\ todo \in DOMAIN source
      /\ stack = <<>> /\ item = {} /\ failing = {} /\ private = {} /\ outgoing = {} /\ Size[body] \in Nat
  BY <1>1, SourceFacts, ExpansionAssumption
<1>3. FailureHeld' /\ PrivateHeld'
  BY <1>1, <1>2, NoneHeld
<1>4. journal \subseteq RecordType /\ outgoing \subseteq RecordType /\ used \in [members : Nat, bytes : Nat]
      /\ Nested(stack)
  BY DEF Shaped
<1>5. ASSUME NEW reason \in {"unreadable", "depth", "undecoded"} \cup LimitReasons,
             Deposit(<<>>, {FailureRec(<<todo>>, reason)}), item' = item, used' = used
      PROVE  Shaped'
  <2>1. {FailureRec(<<todo>>, reason)} \in SUBSET RecordType BY <1>2, RecordsTyped
  <2>2. SameFrames(<<>>, stack') /\ outgoing' \subseteq RecordType
    BY <1>4, <1>5, <2>1, EmptyNested, DepositKeeps
  <2>3. Nested(stack') BY <2>2, EmptyNested, NestedAlike
  <2>4. ItemHeld' BY <1>2, <1>5, NoneHeld
  <2>. QED BY <1>1, <1>2, <1>3, <1>4, <1>5, <2>2, <2>3, <2>4, ShapedNext
<1>6. CASE \E x \in PayloadLimits(Size[body]) :
             Deposit(<<>>, {FailureRec(<<todo>>, x.reason)}) /\ item' = item /\ used' = used
  <2>1. PICK x \in PayloadLimits(Size[body]) :
               Deposit(<<>>, {FailureRec(<<todo>>, x.reason)}) /\ item' = item /\ used' = used
    BY <1>6
  <2>2. x.reason \in LimitReasons BY <1>4, <2>1, PayloadOwned
  <2>. QED BY <1>5, <2>1, <2>2
<1>7. CASE /\ used' = ChargedRun(Size[body]) /\ item' = Pick(<<todo>>, body, 0, FALSE)
           /\ stack' = stack /\ outgoing' = outgoing
  <2>1. PICK x : x = [at |-> <<todo>>, body |-> body, depth |-> 0, whole |-> FALSE]
    OBVIOUS
  <2>2. item' = {x} BY <1>7, <2>1 DEF Pick
  <2>3. x \in ItemType /\ x.at # <<>> /\ x.depth = 0 BY <1>2, <2>1 DEF ItemType, Positions
  <2>4. StagedHere(x)'
    <3>1. stack' = <<>> /\ Len(stack') = 0 /\ Outer(stack)' = 0 BY <1>2, <1>7, EmptyNested DEF Outer
    <3>. QED BY <2>3, <3>1 DEF StagedHere
  <2>5. ItemHeld' BY <1>1, <1>2, <2>2, <2>4 DEF ItemHeld
  <2>6. used' \in [members : Nat, bytes : Nat] BY <1>2, <1>4, <1>7, ChargedTyped
  <2>. QED BY <1>1, <1>2, <1>3, <1>4, <1>7, <2>5, <2>6, ShapedNext
<1>8. CASE Deposit(<<>>, {FailureRec(<<todo>>, "unreadable")}) /\ item' = item /\ used' = used
  BY <1>5, <1>8
<1>. QED BY <1>6, <1>7, <1>8 DEF ReadSource

-----------------------------------------------------------------------------
\* The staged blob.
LEMMA ClassifyFacts ==
    ASSUME Shaped, NEW x, Classify(x)
    PROVE  /\ StagedHere(x) /\ x.at \in Seq(Nat) /\ x.body \in Content /\ x.depth \in Nat
           /\ failing = {} /\ private = {} /\ item' = {} /\ outgoing = {}
<1>1. StagedHere(x) /\ failing = {} /\ private = {}
  BY DEF Shaped, ItemHeld, Classify
<1>2. x \in ItemType
  BY <1>1 DEF StagedHere
<1>. QED BY <1>1, <1>2 DEF ItemType, Positions, Classify

\* A blob or a refused container leaves its records.
LEMMA RecordedShaped ==
    ASSUME Shaped, NEW x, Classify(x), NEW recs \in SUBSET RecordType, Deposit(stack, recs),
           UNCHANGED <<source, policy, private, todo, failing, used, journal, mishaps>>
    PROVE  Shaped'
<1>1. failing = {} /\ private = {} /\ item' = {}
  BY ClassifyFacts
<1>2. ItemHeld' /\ FailureHeld' /\ PrivateHeld'
  BY <1>1, NoneHeld
<1>3. SameFrames(stack, stack') /\ outgoing' \subseteq RecordType
  BY DepositKeeps DEF Shaped
<1>4. Nested(stack')
  BY <1>3, NestedAlike DEF Shaped
<1>. QED BY <1>2, <1>3, <1>4, ShapedNext DEF Shaped

\* One blob is recorded as it is, ...
LEMMA KeepBlobShaped ==
    ASSUME Shaped, NEW x, KeepBlob(x)
    PROVE  Shaped'
<1>1. x.at \in Seq(Nat) /\ x.body \in Content /\ Classify(x)
  BY ClassifyFacts DEF KeepBlob
<1>2. {BlobRec(x.at, x.body, "kept")} \in SUBSET RecordType
  BY <1>1, RecordsTyped
<1>. QED BY <1>1, <1>2, RecordedShaped DEF KeepBlob

\* ... or as a container that is not opened.
LEMMA RefuseContainerShaped ==
    ASSUME Shaped, NEW x, RefuseContainer(x)
    PROVE  Shaped'
<1>1. x.at \in Seq(Nat) /\ x.body \in Content /\ Classify(x)
  BY ClassifyFacts DEF RefuseContainer
<1>2. Rejection(x.at, x.body) \in SUBSET RecordType
  BY <1>1, RecordsTyped
<1>. QED BY <1>1, <1>2, RecordedShaped DEF RefuseContainer

\* A container that is neither too deep nor inside itself is entered.
LEMMA EnterContainerShaped ==
    ASSUME Shaped, NEW x, EnterContainer(x)
    PROVE  Shaped'
<1>. DEFINE shape == Shape[x.body]
            kind == IF shape \in ArchiveShapes THEN "archive" ELSE "mail"
            phase == IF kind = "archive" THEN (IF shape = "zst" THEN "unpacking" ELSE "listing") ELSE "parts"
            f == Frame(kind, x.at, x.body, x.depth, phase)
<1>1. /\ Classify(x) /\ ~TooDeep(x) /\ ~Cyclic(x) /\ stack' = Append(stack, f)
      /\ UNCHANGED <<source, policy, private, todo, failing, used, outgoing, journal, mishaps>>
  BY DEF EnterContainer
<1>2. /\ StagedHere(x) /\ x.at \in Seq(Nat) /\ x.body \in Content /\ x.depth \in Nat
      /\ failing = {} /\ private = {} /\ item' = {}
  BY <1>1, ClassifyFacts
<1>3. /\ f \in FrameType /\ f.kind = kind /\ f.at = x.at /\ f.body = x.body /\ f.depth = x.depth
  BY <1>2, FrameMade
<1>4. IsContainer(f) /\ (f.kind = "archive" => Shape[f.body] \in ArchiveShapes)
  BY <1>3 DEF IsContainer
<1>. HIDE DEF f
<1>5. Nested(stack) /\ policy \in Policies /\ policy.depth \in Nat
  BY PolicyFacts DEF Shaped
<1>6. /\ f.at # <<>> /\ Len(stack) <= f.depth + Outer(stack) /\ f.depth < policy.depth
      /\ stack # <<>> => IsStrictPrefix(Last(stack).at, f.at)
  BY <1>1, <1>2, <1>3, <1>5 DEF StagedHere, TooDeep, Top
<1>7. \A i \in DOMAIN stack : IsContainer(stack[i]) => stack[i].body # f.body
  BY <1>1, <1>3 DEF Cyclic, Ancestors, Containers
<1>8. Nested(stack')
  BY <1>1, <1>3, <1>4, <1>5, <1>6, <1>7, NestedEntered
<1>9. ItemHeld' /\ FailureHeld' /\ PrivateHeld'
  BY <1>1, <1>2, NoneHeld
<1>. QED BY <1>1, <1>8, <1>9, ShapedNext DEF Shaped

-----------------------------------------------------------------------------
\* Archives.
LEMMA ArchiveFacts ==
    ASSUME Shaped, NEW phase, InFrame({"archive"}, phase)
    PROVE  /\ item = {} /\ failing = {} /\ outgoing = {} /\ stack # <<>>
           /\ Top.kind = "archive" /\ IsContainer(Top) /\ Top.phase = phase
           /\ Nested(stack)
BY DEF InFrame, Idle, IsContainer, Shaped

\* A failure of members(): nothing of it stays but the failure.
LEMMA MembersFailed ==
    ASSUME Shaped, NEW phase, InFrame({"archive"}, phase), NEW x, FailMembers(x),
           x.owner = None \/ x.owner \in Places(stack),
           SameFrames(stack, stack'), used' \in [members : Nat, bytes : Nat],
           UNCHANGED <<source, policy, todo, item, outgoing, journal>>
    PROVE  Shaped'
<1>1. item = {} /\ stack # <<>> /\ IsContainer(Top) /\ Nested(stack)
  BY ArchiveFacts
<1>2. Fail(x) /\ private' = {}
  BY DEF FailMembers, RemovePrivate
<1>3. PICK y : failing' = {y} /\ y.owner \in Places(stack)
  BY <1>1, <1>2, FailOwned
<1>4. Nested(stack') /\ Places(stack') = Places(stack)
  BY <1>1, NestedAlike
<1>5. FailureHeld'
  BY <1>2, <1>3, <1>4 DEF FailureHeld, Places
<1>6. ItemHeld' /\ PrivateHeld'
  BY <1>1, <1>2, NoneHeld
<1>. QED BY <1>4, <1>5, <1>6, ShapedNext DEF Shaped

\* A frame is alike itself.
LEMMA SameSelf ==
    ASSUME Nested(stack), stack' = stack
    PROVE  SameFrames(stack, stack')
BY DEF SameFrames, Alike, Nested

\* A failure that is of no limit.
LEMMA FaultOwned ==
    ASSUME NEW reason \in Reasons
    PROVE  Owned(Failure(reason, None)) /\ Failure(reason, None).owner = None
<1>1. None \in Positions
  BY EmptySeq DEF None, Positions
<1>. QED BY <1>1 DEF Failure, Owned, FaultType

\* The private files an archive begins with.
LEMMA NoFilesTyped ==
    ASSUME Shaped, stack # <<>>, NEW bytes \in Nat, NEW w \in Seq(Nat)
    PROVE  /\ [NoFiles EXCEPT !.stream = bytes] \in PrivateType
           /\ [NoFiles EXCEPT !.stream = bytes].at = Top.at
           /\ [NoFiles EXCEPT !.stream = bytes].pending = {}
           /\ [NoFiles EXCEPT !.stream = bytes].fault = {}
           /\ [NoFiles EXCEPT !.written = w] \in PrivateType
           /\ [NoFiles EXCEPT !.written = w].at = Top.at
           /\ [NoFiles EXCEPT !.written = w].pending = {}
           /\ [NoFiles EXCEPT !.written = w].fault = {}
           /\ [NoFiles EXCEPT !.written = w].written = w
<1>1. Top.at \in Positions /\ <<>> \in Seq(Nat)
  BY TopFacts, EmptySeq DEF Positions
<1>. QED BY <1>1 DEF NoFiles, PrivateType

\* A zstandard stream is unpacked or refused.
LEMMA UnpackStreamShaped ==
    ASSUME Shaped, UnpackStream
    PROVE  Shaped'
<1>. DEFINE bytes == Unrolled[Top.body]
<1>1. /\ InFrame({"archive"}, "unpacking")
      /\ UNCHANGED <<source, policy, todo, item, used, outgoing, journal, mishaps>>
  BY DEF UnpackStream
<1>2. /\ item = {} /\ failing = {} /\ stack # <<>> /\ Top.kind = "archive" /\ Nested(stack)
      /\ bytes \in Nat
  BY <1>1, ArchiveFacts, TopFacts, ExpansionAssumption
<1>3. CASE FailMembers(Failure("container size", None)) /\ UNCHANGED stack
  <2>1. Failure("container size", None).owner = None BY FaultOwned DEF Reasons
  <2>2. SameFrames(stack, stack') BY <1>2, <1>3, SameSelf
  <2>. QED BY <1>1, <1>3, <2>1, <2>2, MembersFailed DEF Shaped
<1>4. CASE /\ stack' = Advance("listing") /\ failing' = failing
           /\ private' = {[NoFiles EXCEPT !.stream = bytes]}
  <2>1. PICK p : p = [NoFiles EXCEPT !.stream = bytes] OBVIOUS
  <2>2. p \in PrivateType /\ p.at = Top.at /\ p.pending = {} /\ p.fault = {}
    <3>1. <<>> \in Seq(Nat) BY EmptySeq
    <3>. QED BY <1>2, <2>1, <3>1, NoFilesTyped
  <2>3. SameFrames(stack, stack') /\ stack'[Len(stack)].phase = "listing"
    BY <1>2, <1>4, AdvanceKeeps
  <2>4. PrivateHeld' BY <1>2, <1>4, <2>1, <2>2, <2>3, PrivateStays
  <2>5. Nested(stack') BY <1>2, <2>3, NestedAlike
  <2>6. ItemHeld' /\ FailureHeld' BY <1>1, <1>2, <1>4, NoneHeld
  <2>. QED BY <1>1, <1>4, <2>4, <2>5, <2>6, ShapedNext DEF Shaped
<1>. QED BY <1>3, <1>4 DEF UnpackStream

\* The private files go on as they are, in another phase or at another member.
LEMMA PrivateGoesOn ==
    ASSUME Shaped, stack # <<>>, Top.kind = "archive", SameFrames(stack, stack'), private' = private,
           stack'[Len(stack)].phase \notin {"parts", "extracting"}
    PROVE  PrivateHeld'
<1>1. CASE private = {}
  BY <1>1, NoneHeld
<1>2. CASE private # {}
  <2>1. PICK p : private = {p} /\ Extracted(p) BY <1>2 DEF Shaped, PrivateHeld
  <2>. QED BY <2>1, PrivateStays DEF Extracted
<1>. QED BY <1>1, <1>2

\* A listing is accepted or refused.
LEMMA ListArchiveShaped ==
    ASSUME Shaped, ListArchive
    PROVE  Shaped'
<1>1. /\ InFrame({"archive"}, "listing")
      /\ UNCHANGED <<source, policy, todo, item, used, outgoing, journal, mishaps>>
  BY DEF ListArchive
<1>2. item = {} /\ failing = {} /\ stack # <<>> /\ Top.kind = "archive" /\ Nested(stack)
  BY <1>1, ArchiveFacts
<1>3. CASE (\E x \in ListingLimits : FailMembers(x)) /\ UNCHANGED stack
  <2>1. PICK x \in ListingLimits : FailMembers(x) BY <1>3
  <2>2. x.owner = None \/ x.owner \in Places(stack) BY <1>2, <2>1, ListingOwned DEF Owned
  <2>3. SameFrames(stack, stack') BY <1>2, <1>3, SameSelf
  <2>. QED BY <1>1, <2>1, <2>2, <2>3, MembersFailed DEF Shaped
<1>4. CASE stack' = Advance("staging") /\ UNCHANGED <<failing, private>>
  <2>1. SameFrames(stack, stack') /\ stack'[Len(stack)].phase = "staging"
    BY <1>2, <1>4, AdvanceKeeps
  <2>2. PrivateHeld' BY <1>2, <1>4, <2>1, PrivateGoesOn
  <2>3. Nested(stack') BY <1>2, <2>1, NestedAlike
  <2>4. ItemHeld' /\ FailureHeld' BY <1>1, <1>2, <1>4, NoneHeld
  <2>. QED BY <1>1, <1>4, <2>2, <2>3, <2>4, ShapedNext DEF Shaped
<1>5. CASE /\ stack' = Advance("extracting") /\ failing' = failing
           /\ private' = {[NoFiles EXCEPT !.written = [i \in DOMAIN Inside |-> 0]]}
  <2>. DEFINE zeros == [i \in DOMAIN Inside |-> 0]
  <2>1. zeros \in Seq(Nat) /\ Len(zeros) = Len(Inside)
    <3>1. Len(Inside) \in Nat /\ DOMAIN Inside = 1 .. Len(Inside) BY <1>2, TopFacts
    <3>2. zeros \in [1 .. Len(Inside) -> Nat] BY <3>1
    <3>. HIDE DEF zeros
    <3>. QED BY <3>1, <3>2, FunctionSeq
  <2>2. PICK p : p = [NoFiles EXCEPT !.written = zeros] OBVIOUS
  <2>3. p \in PrivateType /\ p.at = Top.at /\ p.pending = {} /\ p.fault = {} /\ p.written = zeros
    <3>. HIDE DEF zeros
    <3>1. 0 \in Nat OBVIOUS
    <3>. QED BY <1>2, <2>1, <2>2, <3>1, NoFilesTyped
  <2>4. SameFrames(stack, stack') /\ stack'[Len(stack)].phase = "extracting"
    BY <1>2, <1>5, AdvanceKeeps
  <2>5. PrivateHeld'
    <3>1. private' = {p} BY <1>5, <2>2
    <3>. HIDE DEF zeros
    <3>. QED BY <1>2, <2>1, <2>3, <2>4, <3>1, PrivateStays
  <2>6. Nested(stack') BY <1>2, <2>4, NestedAlike
  <2>7. ItemHeld' /\ FailureHeld' BY <1>1, <1>2, <1>5, NoneHeld
  <2>. QED BY <1>1, <1>5, <2>5, <2>6, <2>7, ShapedNext DEF Shaped
<1>. QED BY <1>3, <1>4, <1>5 DEF ListArchive

\* The private files at hand.
LEMMA HandFacts ==
    ASSUME Shaped, NEW p \in private
    PROVE  /\ private = {p} /\ Extracted(p) /\ p \in PrivateType /\ stack # <<>>
           /\ Top.kind = "archive" /\ Top.phase # "parts" /\ Nested(stack)
           /\ p.written \in Seq(Nat) /\ DOMAIN p.written = 1 .. Len(p.written)
           /\ \A i \in DOMAIN p.written : p.written[i] \in Nat
           /\ p.observed \in Nat /\ p.stream \in Nat /\ p.at = Top.at
           /\ p.pending \subseteq [part : Nat \ {0}, bytes : Nat, total : Nat]
           /\ p.stopped \subseteq Nat /\ p.fault \subseteq FaultType
<1>1. private = {p} /\ Extracted(p) /\ Nested(stack)
  BY DEF Shaped, PrivateHeld
<1>2. p \in PrivateType /\ stack # <<>> /\ Top.kind = "archive" /\ Top.phase # "parts" /\ p.at = Top.at
  BY <1>1 DEF Extracted, Staging
<1>3. /\ p.written \in Seq(Nat) /\ p.observed \in Nat /\ p.stream \in Nat
      /\ p.pending \subseteq [part : Nat \ {0}, bytes : Nat, total : Nat]
      /\ p.stopped \subseteq Nat /\ p.fault \subseteq FaultType
  BY <1>2 DEF PrivateType
<1>4. DOMAIN p.written = 1 .. Len(p.written) /\ \A i \in DOMAIN p.written : p.written[i] \in Nat
  BY <1>3, LenProperties, ElementOfSeq
<1>. QED BY <1>1, <1>2, <1>3, <1>4

\* Whatever the threads do to the files, the files stay those of the archive.
LEMMA FilesChanged ==
    ASSUME Shaped, NEW p \in private, NEW q, q \in PrivateType, private' = {q},
           q.at = p.at, Len(q.written) = Len(p.written), DOMAIN q.written = DOMAIN p.written,
           \A c \in q.pending : c.part \in DOMAIN q.written,
           \A x \in q.fault : x.owner = None \/ x.owner \in Places(stack),
           UNCHANGED <<source, policy, todo, stack, item, failing, used, outgoing, journal>>
    PROVE  Shaped'
<1>1. Extracted(p) /\ private # {} /\ Nested(stack)
  BY HandFacts
<1>2. Extracted(q)'
  BY <1>1 DEF Extracted, Staging, Top, Inside, Places
<1>3. PrivateHeld'
  BY <1>2 DEF PrivateHeld
<1>4. item = {} /\ failing = {}
  BY <1>1, PrivateFacts
<1>5. ItemHeld' /\ FailureHeld'
  BY <1>4, NoneHeld
<1>6. Nested(stack')
  BY <1>1
<1>. QED BY <1>3, <1>5, <1>6, ShapedNext DEF Shaped

\* The thread of a folder ends with an exception.
LEMMA StopFolderShaped ==
    ASSUME Shaped, NEW p \in private, NEW i \in DOMAIN Inside, NEW x, Owned(x), StopFolder(p, i, x),
           UNCHANGED <<source, policy, todo, stack, item, failing, used, outgoing, journal>>
    PROVE  Shaped'
<1>. DEFINE q == [p EXCEPT !.stopped = @ \cup {Inside[i].folder},
                           !.fault = IF @ = {} THEN {x} ELSE @]
<1>1. Extracted(p) /\ p \in PrivateType /\ stack # <<>> /\ p.stopped \subseteq Nat /\ p.fault \subseteq FaultType
  BY HandFacts
<1>2. Inside[i] \in PartType
  BY <1>1, TopFacts
<1>3. Inside[i].folder \in Nat
  BY <1>2 DEF PartType
<1>4. /\ q \in PrivateType /\ q.at = p.at /\ q.written = p.written /\ q.pending = p.pending
      /\ q.fault = IF p.fault = {} THEN {x} ELSE p.fault
  BY <1>1, <1>3 DEF PrivateType, Owned
<1>5. private' = {q}
  BY DEF StopFolder
<1>. HIDE DEF q
<1>. QED BY <1>1, <1>4, <1>5, FilesChanged DEF Extracted, Owned

\* A chunk is checked, or the thread ends.
LEMMA CheckChunkShaped ==
    ASSUME Shaped, NEW p \in private, NEW i \in DOMAIN p.written, CheckChunk(p, i)
    PROVE  Shaped'
<1>1. /\ InFrame({"archive"}, "extracting") /\ MayWrite(p, i)
      /\ UNCHANGED <<source, policy, todo, stack, item, failing, used, outgoing, journal>>
  BY DEF CheckChunk
<1>2. /\ Extracted(p) /\ p \in PrivateType /\ stack # <<>> /\ Nested(stack)
      /\ p.written \in Seq(Nat) /\ DOMAIN p.written = 1 .. Len(p.written)
      /\ p.written[i] \in Nat /\ p.observed \in Nat
      /\ p.pending \subseteq [part : Nat \ {0}, bytes : Nat, total : Nat]
  BY HandFacts
<1>3. Top.phase = "extracting"
  BY <1>1 DEF InFrame
<1>4. i \in DOMAIN Inside /\ i \in Nat \ {0}
  <2>1. Len(p.written) = Len(Inside) BY <1>2, <1>3 DEF Extracted
  <2>2. DOMAIN Inside = 1 .. Len(Inside) /\ Len(Inside) \in Nat BY <1>2, TopFacts
  <2>. QED BY <1>2, <2>1, <2>2
<1>5. ASSUME NEW x, Owned(x), StopFolder(p, i, x)
      PROVE  Shaped'
  BY <1>1, <1>4, <1>5, StopFolderShaped
<1>6. ASSUME NEW n \in 1 .. Size[Inside[i].body] - p.written[i],
             private' = {[p EXCEPT !.pending =
                            @ \cup {[part |-> i, bytes |-> n, total |-> p.observed + n]}]}
      PROVE  Shaped'
  <2>. DEFINE c == [part |-> i, bytes |-> n, total |-> p.observed + n]
  <2>1. n \in Nat BY <1>6
  <2>2. c \in [part : Nat \ {0}, bytes : Nat, total : Nat] /\ c.part = i BY <1>2, <1>4, <2>1
  <2>. HIDE DEF c
  <2>3. PICK q : q = [p EXCEPT !.pending = @ \cup {c}] OBVIOUS
  <2>4. /\ q \in PrivateType /\ q.at = p.at /\ q.written = p.written /\ q.pending = p.pending \cup {c}
        /\ q.fault = p.fault
    BY <1>2, <2>2, <2>3 DEF PrivateType
  <2>5. private' = {q} BY <1>6, <2>3 DEF c
  <2>. QED BY <1>1, <1>2, <2>2, <2>4, <2>5, FilesChanged DEF Extracted
<1>7. CASE \E n \in 1 .. Size[Inside[i].body] - p.written[i], bound \in Tightest(Bounds(Inside[i])) :
             \/ StopFolder(p, i, Failure(bound.reason, bound.owner))
             \/ \E x \in ObservedLimits(p.observed + n) : StopFolder(p, i, x)
             \/ private' = {[p EXCEPT !.pending =
                               @ \cup {[part |-> i, bytes |-> n, total |-> p.observed + n]}]}
  <2>1. PICK n \in 1 .. Size[Inside[i].body] - p.written[i], bound \in Tightest(Bounds(Inside[i])) :
             \/ StopFolder(p, i, Failure(bound.reason, bound.owner))
             \/ \E x \in ObservedLimits(p.observed + n) : StopFolder(p, i, x)
             \/ private' = {[p EXCEPT !.pending =
                               @ \cup {[part |-> i, bytes |-> n, total |-> p.observed + n]}]}
    BY <1>7
  <2>2. Owned(Failure(bound.reason, bound.owner)) BY <1>2, <2>1, BoundOwned
  <2>3. \A x \in ObservedLimits(p.observed + n) : Owned(x) BY <1>2, PreflightOwned DEF ObservedLimits
  <2>4. CASE StopFolder(p, i, Failure(bound.reason, bound.owner)) BY <1>5, <2>2, <2>4
  <2>5. CASE \E x \in ObservedLimits(p.observed + n) : StopFolder(p, i, x) BY <1>5, <2>3, <2>5
  <2>6. CASE private' = {[p EXCEPT !.pending =
                            @ \cup {[part |-> i, bytes |-> n, total |-> p.observed + n]}]}
    BY <1>6, <2>6
  <2>. QED BY <2>1, <2>4, <2>5, <2>6
<1>8. CASE StopFolder(p, i, Failure("corrupt", None))
  BY <1>5, <1>8, FaultOwned DEF Reasons
<1>. QED BY <1>7, <1>8 DEF CheckChunk

\* A chunk is written.
LEMMA WriteChunkShaped ==
    ASSUME Shaped, NEW p \in private, NEW c \in p.pending, WriteChunk(p, c)
    PROVE  Shaped'
<1>1. UNCHANGED <<source, policy, todo, stack, item, failing, used, outgoing, journal>>
  BY DEF WriteChunk
<1>2. /\ Extracted(p) /\ p \in PrivateType
      /\ p.written \in Seq(Nat) /\ DOMAIN p.written = 1 .. Len(p.written)
      /\ \A i \in DOMAIN p.written : p.written[i] \in Nat
      /\ p.pending \subseteq [part : Nat \ {0}, bytes : Nat, total : Nat]
  BY HandFacts
<1>3. c \in [part : Nat \ {0}, bytes : Nat, total : Nat] /\ c.part \in DOMAIN p.written
  BY <1>2 DEF Extracted
<1>4. c.bytes \in Nat /\ c.total \in Nat /\ p.written[c.part] + c.bytes \in Nat
  BY <1>2, <1>3
<1>. DEFINE w == [p.written EXCEPT ![c.part] = @ + c.bytes]
<1>5. w \in Seq(Nat) /\ Len(w) = Len(p.written)
  BY <1>2, <1>3, <1>4, ExceptSeq
<1>6. DOMAIN w = DOMAIN p.written
  BY <1>2, <1>5, LenProperties
<1>7. PICK q : q = [p EXCEPT !.pending = @ \ {c}, !.observed = c.total,
                             !.written[c.part] = @ + c.bytes]
  OBVIOUS
<1>8. q = [p EXCEPT !.pending = p.pending \ {c}, !.observed = c.total, !.written = w]
  BY <1>2, <1>7 DEF PrivateType
<1>. HIDE DEF w
<1>9. /\ q \in PrivateType /\ q.at = p.at /\ q.written = w /\ q.pending = p.pending \ {c}
      /\ q.fault = p.fault
  BY <1>2, <1>4, <1>5, <1>8 DEF PrivateType
<1>10. private' = {q}
  BY <1>7 DEF WriteChunk
<1>. QED BY <1>1, <1>2, <1>5, <1>6, <1>9, <1>10, FilesChanged DEF Extracted

\* The extraction ends.
LEMMA EndExtractionShaped ==
    ASSUME Shaped, NEW p \in private, EndExtraction(p)
    PROVE  Shaped'
<1>1. /\ InFrame({"archive"}, "extracting")
      /\ UNCHANGED <<source, policy, todo, item, used, outgoing, journal, mishaps>>
  BY DEF EndExtraction
<1>2. item = {} /\ failing = {} /\ stack # <<>> /\ Top.kind = "archive" /\ Nested(stack)
  BY <1>1, ArchiveFacts
<1>3. Extracted(p)
  BY HandFacts
<1>4. CASE (\E x \in p.fault : FailMembers(x)) /\ UNCHANGED stack
  <2>1. PICK x \in p.fault : FailMembers(x) BY <1>4
  <2>2. x.owner = None \/ x.owner \in Places(stack) BY <1>3, <2>1 DEF Extracted
  <2>3. SameFrames(stack, stack') BY <1>2, <1>4, SameSelf
  <2>. QED BY <1>1, <2>1, <2>2, <2>3, MembersFailed DEF Shaped
<1>5. CASE FailMembers(Failure("corrupt", None)) /\ UNCHANGED stack
  <2>1. Failure("corrupt", None).owner = None BY FaultOwned DEF Reasons
  <2>2. SameFrames(stack, stack') BY <1>2, <1>5, SameSelf
  <2>. QED BY <1>1, <1>5, <2>1, <2>2, MembersFailed DEF Shaped
<1>6. CASE stack' = Advance("staging") /\ UNCHANGED <<failing, private>>
  <2>1. SameFrames(stack, stack') /\ stack'[Len(stack)].phase = "staging"
    BY <1>2, <1>6, AdvanceKeeps
  <2>2. PrivateHeld' BY <1>2, <1>6, <2>1, PrivateGoesOn
  <2>3. Nested(stack') BY <1>2, <2>1, NestedAlike
  <2>4. ItemHeld' /\ FailureHeld' BY <1>1, <1>2, <1>6, NoneHeld
  <2>. QED BY <1>1, <1>6, <2>2, <2>3, <2>4, ShapedNext DEF Shaped
<1>. QED BY <1>4, <1>5, <1>6 DEF EndExtraction

\* Frames that are alike those that are alike the stack.
LEMMA SameTwice ==
    ASSUME NEW s, NEW t, NEW u, SameFrames(s, t), SameFrames(t, u)
    PROVE  SameFrames(s, u)
BY DEF SameFrames, Alike

\* A payload that fits is charged and passed.
LEMMA PassedOn ==
    ASSUME Nested(stack), stack # <<>>, NEW bytes \in Nat
    PROVE  /\ SameFrames(stack, Stepped(ChargedStack(bytes)))
           /\ Stepped(ChargedStack(bytes))[Len(stack)].phase = stack[Len(stack)].phase
           /\ Nested(ChargedStack(bytes)) /\ ChargedStack(bytes) # <<>> /\ Len(ChargedStack(bytes)) = Len(stack)
<1>1. Len(stack) \in 1 .. Len(stack) /\ Len(stack) # 0
  BY StackFacts
<1>2. SameFrames(stack, ChargedStack(bytes)) /\ ChargedStack(bytes)[Len(stack)].phase = stack[Len(stack)].phase
  BY <1>1, ChargeKeeps
<1>. DEFINE t == ChargedStack(bytes)
<1>. HIDE DEF t
<1>3. Nested(t) /\ Len(t) = Len(stack)
  BY <1>2, NestedAlike DEF SameFrames, t
<1>4. t # <<>>
  BY <1>1, <1>3, EmptyNested
<1>5. SameFrames(t, Stepped(t)) /\ Stepped(t)[Len(t)].phase = t[Len(t)].phase
  BY <1>3, <1>4, SteppedKeeps
<1>. QED BY <1>2, <1>3, <1>4, <1>5, SameTwice DEF t

\* A member is staged.
LEMMA StageMemberShaped ==
    ASSUME Shaped, StageMember
    PROVE  Shaped'
<1>1. /\ InFrame({"archive"}, "staging") /\ Top.next <= Len(Inside)
      /\ UNCHANGED <<source, policy, todo, item, outgoing, journal, mishaps>>
  BY DEF StageMember
<1>2. /\ item = {} /\ failing = {} /\ stack # <<>> /\ Top.kind = "archive" /\ Nested(stack)
      /\ Top.phase = "staging" /\ used \in [members : Nat, bytes : Nat]
  BY <1>1, ArchiveFacts DEF Shaped
<1>. DEFINE bytes == Size[Inside[Top.next].body]
<1>3. bytes \in Nat
  <2>1. /\ Top.next \in DOMAIN Inside /\ Inside = Parts[Top.body] /\ Top.body \in Content
        /\ Shape[Top.body] \in ArchiveShapes
    BY <1>1, <1>2, TopFacts DEF Inside
  <2>2. Inside[Top.next].body \in Content BY <2>1, ExpansionAssumption
  <2>. QED BY <2>2, ExpansionAssumption
<1>4. PICK bound \in StagingBound(Inside[Top.next]) :
        \/ FailMembers(bound) /\ UNCHANGED <<stack, used>>
        \/ \E x \in Preflight(1, bytes) :
             /\ FailMembers(x)
             /\ used' = IF x.owner = None THEN used ELSE ChargedRun(bytes)
             /\ stack' = ChargedOutside(x.owner, bytes)
        \/ /\ used' = ChargedRun(bytes) /\ stack' = Stepped(ChargedStack(bytes))
           /\ UNCHANGED <<failing, private>>
  BY DEF StageMember
<1>. HIDE DEF bytes
<1>5. CASE FailMembers(bound) /\ UNCHANGED <<stack, used>>
  <2>1. bound.owner = None \/ bound.owner \in Places(stack) BY <1>2, StagingOwned
  <2>2. SameFrames(stack, stack') BY <1>2, <1>5, SameSelf
  <2>. QED BY <1>1, <1>2, <1>5, <2>1, <2>2, MembersFailed
<1>6. CASE \E x \in Preflight(1, bytes) :
             /\ FailMembers(x)
             /\ used' = IF x.owner = None THEN used ELSE ChargedRun(bytes)
             /\ stack' = ChargedOutside(x.owner, bytes)
  <2>1. PICK x \in Preflight(1, bytes) :
             /\ FailMembers(x)
             /\ used' = IF x.owner = None THEN used ELSE ChargedRun(bytes)
             /\ stack' = ChargedOutside(x.owner, bytes)
    BY <1>6
  <2>2. x.owner = None \/ x.owner \in Places(stack) BY <1>2, <2>1, PreflightOwned DEF Owned
  <2>3. used' \in [members : Nat, bytes : Nat] BY <1>2, <1>3, <2>1, ChargedTyped
  <2>4. SameFrames(stack, stack') BY <1>2, <1>3, <2>1, OutsideKeeps
  <2>. QED BY <1>1, <2>1, <2>2, <2>3, <2>4, MembersFailed
<1>7. CASE /\ used' = ChargedRun(bytes) /\ stack' = Stepped(ChargedStack(bytes))
           /\ UNCHANGED <<failing, private>>
  <2>1. SameFrames(stack, stack') /\ stack'[Len(stack)].phase = stack[Len(stack)].phase
    BY <1>2, <1>3, <1>7, PassedOn
  <2>2. Top = stack[Len(stack)] BY <1>2, TopFacts
  <2>3. stack'[Len(stack)].phase = "staging" BY <1>2, <2>1, <2>2
  <2>4. PrivateHeld' BY <1>2, <1>7, <2>1, <2>3, PrivateGoesOn
  <2>5. Nested(stack') BY <1>2, <2>1, NestedAlike
  <2>6. ItemHeld' /\ FailureHeld' BY <1>1, <1>2, <1>7, NoneHeld
  <2>7. used' \in [members : Nat, bytes : Nat] BY <1>2, <1>3, <1>7, ChargedTyped
  <2>. QED BY <1>1, <2>4, <2>5, <2>6, <2>7, ShapedNext DEF Shaped
<1>. QED BY <1>4, <1>5, <1>6, <1>7

\* The archive is read to its end, which may tell that it is broken.
LEMMA CheckArchiveShaped ==
    ASSUME Shaped, CheckArchive
    PROVE  Shaped'
<1>1. /\ InFrame({"archive"}, "staging") /\ private' = {}
      /\ UNCHANGED <<source, policy, todo, item, used, outgoing, journal, mishaps>>
  BY DEF CheckArchive
<1>2. item = {} /\ failing = {} /\ stack # <<>> /\ Top.kind = "archive" /\ Nested(stack)
  BY <1>1, ArchiveFacts
<1>3. CASE Fail(Failure("corrupt", None)) /\ UNCHANGED stack
  <2>1. Failure("corrupt", None).owner = None BY FaultOwned DEF Reasons
  <2>2. SameFrames(stack, stack') BY <1>2, <1>3, SameSelf
  <2>3. FailMembers(Failure("corrupt", None)) BY <1>1, <1>3 DEF FailMembers, RemovePrivate
  <2>. QED BY <1>1, <2>1, <2>2, <2>3, MembersFailed DEF Shaped
<1>4. CASE stack' = Advance("parts") /\ UNCHANGED failing
  <2>1. SameFrames(stack, stack') BY <1>2, <1>4, AdvanceKeeps
  <2>2. Nested(stack') BY <1>2, <2>1, NestedAlike
  <2>3. ItemHeld' /\ FailureHeld' /\ PrivateHeld' BY <1>1, <1>2, <1>4, NoneHeld
  <2>. QED BY <1>1, <2>2, <2>3, ShapedNext DEF Shaped
<1>. QED BY <1>3, <1>4 DEF CheckArchive

\* A read fails while members() works.
LEMMA FailArchiveShaped ==
    ASSUME Shaped, FailArchive
    PROVE  Shaped'
<1>1. /\ FailMembers(Failure("corrupt", None))
      /\ UNCHANGED <<source, policy, todo, stack, item, used, outgoing, journal>>
  BY DEF FailArchive
<1>2. PICK phase \in {"unpacking", "listing", "staging"} : InFrame({"archive"}, phase)
  BY DEF FailArchive
<1>3. Nested(stack)
  BY DEF Shaped
<1>4. Failure("corrupt", None).owner = None
  BY FaultOwned DEF Reasons
<1>5. SameFrames(stack, stack')
  BY <1>1, <1>3, SameSelf
<1>. QED BY <1>1, <1>2, <1>4, <1>5, MembersFailed DEF Shaped

\* The next member is processed.
LEMMA NextMemberShaped ==
    ASSUME Shaped, NextMember
    PROVE  Shaped'
<1>1. /\ InFrame({"archive"}, "parts") /\ Top.next <= Len(Inside) /\ stack' = Stepped(stack)
      /\ item' = Pick(PartAt, Inside[Top.next].body, Top.depth + 1, FALSE)
      /\ UNCHANGED <<source, policy, private, todo, failing, used, outgoing, journal, mishaps>>
  BY DEF NextMember
<1>2. /\ failing = {} /\ stack # <<>> /\ Top.kind = "archive" /\ Nested(stack) /\ Top.phase = "parts"
  BY <1>1, ArchiveFacts
<1>3. private = {}
  BY <1>2, PrivateFacts DEF Staging
<1>4. Inside[Top.next].body \in Content /\ Top.depth + 1 \in Nat /\ Top.depth + 1 > Top.depth
  <2>1. /\ Top.next \in DOMAIN Inside /\ Inside = Parts[Top.body] /\ Top.body \in Content
        /\ Shape[Top.body] \in ArchiveShapes /\ Top.depth \in Nat
    BY <1>1, <1>2, TopFacts DEF Inside
  <2>. QED BY <2>1, ExpansionAssumption
<1>5. SameFrames(stack, stack')
  BY <1>1, <1>2, SteppedKeeps
<1>6. ItemHeld'
  BY <1>1, <1>2, <1>3, <1>4, <1>5, PartStaged
<1>7. FailureHeld' /\ PrivateHeld'
  BY <1>1, <1>2, <1>3, NoneHeld
<1>8. Nested(stack')
  BY <1>2, <1>5, NestedAlike
<1>. QED BY <1>1, <1>6, <1>7, <1>8, ShapedNext DEF Shaped

-----------------------------------------------------------------------------
\* Mail.
LEMMA PartsFacts ==
    ASSUME Shaped, NEW kinds, InFrame(kinds, "parts")
    PROVE  /\ item = {} /\ failing = {} /\ outgoing = {} /\ private = {} /\ stack # <<>>
           /\ Top.kind \in kinds /\ Nested(stack)
           /\ used \in [members : Nat, bytes : Nat] /\ outgoing \subseteq RecordType
BY PrivateFacts DEF InFrame, Idle, Shaped, Staging

\* The leaf of a message or mailbox the walk is at.
LEMMA LeafFacts ==
    ASSUME Shaped, AtLeaf
    PROVE  /\ item = {} /\ failing = {} /\ outgoing = {} /\ private = {} /\ stack # <<>> /\ Nested(stack)
           /\ used \in [members : Nat, bytes : Nat] /\ outgoing \subseteq RecordType
           /\ PartAt \in Seq(Nat) /\ Leaf \in PartType
           /\ (Leaf.body # NoBody => Leaf.body \in Content) /\ Leaf.whole \in BOOLEAN
           /\ Top.depth + Leaf.hops \in Nat /\ Top.depth + Leaf.hops > Top.depth
<1>1. InFrame({"mail", "source"}, "parts") /\ Top.next <= Len(Inside)
  BY DEF AtLeaf
<1>2. /\ item = {} /\ failing = {} /\ outgoing = {} /\ private = {} /\ stack # <<>> /\ Nested(stack)
      /\ used \in [members : Nat, bytes : Nat] /\ outgoing \subseteq RecordType
  BY <1>1, PartsFacts
<1>3. /\ Top.next \in 1 .. Len(Inside) /\ Top.at \in Seq(Nat) /\ Top.next \in Nat /\ Top.depth \in Nat
      /\ \A i \in 1 .. Len(Inside) : Inside[i] \in PartType
  BY <1>1, <1>2, TopFacts
<1>4. Leaf \in PartType
  BY <1>3 DEF Leaf
<1>5. Leaf.hops \in Nat \ {0} /\ Leaf.body \in Content \cup {NoBody} /\ Leaf.whole \in BOOLEAN
  BY <1>4 DEF PartType
<1>6. PartAt \in Seq(Nat)
  BY <1>3, PrefixOfPart DEF PartAt
<1>7. Top.depth + Leaf.hops \in Nat /\ Top.depth + Leaf.hops > Top.depth
  BY <1>3, <1>5
<1>. QED BY <1>2, <1>4, <1>5, <1>6, <1>7

\* A container has too many leaves, or one of them a limit against it.
LEMMA LeafFailed ==
    ASSUME Shaped, AtLeaf, IsContainer(Top), NEW x, Fail(x), x.owner = None \/ x.owner \in Places(stack),
           UNCHANGED <<source, policy, private, todo, stack, item, used, outgoing, journal>>
    PROVE  Shaped'
<1>1. item = {} /\ private = {} /\ stack # <<>> /\ Nested(stack)
  BY LeafFacts
<1>2. PICK y : failing' = {y} /\ y.owner \in Places(stack)
  BY <1>1, FailOwned
<1>3. FailureHeld'
  BY <1>1, <1>2 DEF FailureHeld, Places
<1>4. ItemHeld' /\ PrivateHeld'
  BY <1>1, NoneHeld
<1>5. Nested(stack')
  BY <1>1
<1>. QED BY <1>3, <1>4, <1>5, ShapedNext DEF Shaped

\* One leaf more than a message may have.
LEMMA TooManyLeavesShaped ==
    ASSUME Shaped, TooManyLeaves
    PROVE  Shaped'
<1>1. AtLeaf /\ Fail(Failure("member count", None)) /\ IsContainer(Top)
  BY DEF TooManyLeaves, Overfull, IsContainer
<1>2. Failure("member count", None).owner = None
  BY FaultOwned DEF Reasons
<1>. QED BY <1>1, <1>2, LeafFailed DEF TooManyLeaves

\* A leaf leaves a record of its failure and is passed.
LEMMA LeafRecorded ==
    ASSUME Shaped, AtLeaf, NEW reason \in {"unreadable", "depth", "undecoded"} \cup LimitReasons,
           Deposit(Stepped(stack), {FailureRec(PartAt, reason)}),
           UNCHANGED <<source, policy, private, todo, item, failing, used, journal>>
    PROVE  Shaped'
<1>1. /\ item = {} /\ failing = {} /\ private = {} /\ stack # <<>> /\ Nested(stack)
      /\ outgoing \subseteq RecordType /\ PartAt \in Seq(Nat)
  BY LeafFacts
<1>2. Nested(Stepped(stack))
  BY <1>1, SteppedKeeps, NestedAlike
<1>3. {FailureRec(PartAt, reason)} \in SUBSET RecordType
  <2>1. Content # {} BY <1>1, TopFacts
  <2>. QED BY <1>1, <2>1, RecordsTyped
<1>4. SameFrames(Stepped(stack), stack') /\ outgoing' \subseteq RecordType
  BY <1>1, <1>2, <1>3, DepositKeeps
<1>5. Nested(stack')
  BY <1>2, <1>4, NestedAlike
<1>6. ItemHeld' /\ FailureHeld' /\ PrivateHeld'
  BY <1>1, NoneHeld
<1>. QED BY <1>4, <1>5, <1>6, ShapedNext DEF Shaped

\* A leaf that is only recorded.
LEMMA PassLeafShaped ==
    ASSUME Shaped, PassLeaf
    PROVE  Shaped'
<1>. DEFINE reason == IF LeafTooDeep THEN "depth" ELSE "undecoded"
<1>1. AtLeaf /\ Deposit(Stepped(stack), {FailureRec(PartAt, reason)})
  BY DEF PassLeaf, LeafFailure
<1>2. reason \in {"unreadable", "depth", "undecoded"} \cup LimitReasons
  OBVIOUS
<1>. HIDE DEF reason
<1>. QED BY <1>1, <1>2, LeafRecorded DEF PassLeaf

\* A leaf that is staged, or refused.
LEMMA StageLeafShaped ==
    ASSUME Shaped, StageLeaf
    PROVE  Shaped'
<1>1. /\ AtLeaf /\ Leaf.body # NoBody
      /\ UNCHANGED <<source, policy, private, todo, journal, mishaps>>
  BY DEF StageLeaf
<1>2. /\ item = {} /\ failing = {} /\ private = {} /\ stack # <<>> /\ Nested(stack)
      /\ used \in [members : Nat, bytes : Nat] /\ outgoing \subseteq RecordType
      /\ Leaf.body \in Content /\ Leaf.whole \in BOOLEAN
      /\ Top.depth + Leaf.hops \in Nat /\ Top.depth + Leaf.hops > Top.depth
      /\ Size[Leaf.body] \in Nat
  BY <1>1, LeafFacts, ExpansionAssumption
<1>3. CASE /\ \E x \in PayloadLimits(Size[Leaf.body]) :
                Deposit(Stepped(stack), {FailureRec(PartAt, x.reason)})
           /\ UNCHANGED <<item, failing, used>>
  <2>1. PICK x \in PayloadLimits(Size[Leaf.body]) : Deposit(Stepped(stack), {FailureRec(PartAt, x.reason)})
    BY <1>3
  <2>2. x.reason \in LimitReasons BY <1>2, <2>1, PayloadOwned
  <2>. QED BY <1>1, <1>3, <2>1, <2>2, LeafRecorded
<1>4. CASE /\ Containers # {} /\ \E x \in PayloadLimits(Size[Leaf.body]) : Fail(x)
           /\ UNCHANGED <<stack, item, used, outgoing>>
  <2>1. PICK x \in PayloadLimits(Size[Leaf.body]) : Fail(x)
    BY <1>4
  <2>2. x.owner = None \/ x.owner \in Places(stack) BY <1>2, <2>1, PayloadOwned DEF Owned
  <2>3. IsContainer(Top)
    <3>1. PICK i \in DOMAIN stack : IsContainer(stack[i]) BY <1>4 DEF Containers
    <3>2. /\ Top = stack[Len(stack)] /\ DOMAIN stack = 1 .. Len(stack)
          /\ ~IsContainer(Top) => Len(stack) = 1
      BY <1>2, TopFacts
    <3>. QED BY <3>1, <3>2
  <2>. QED BY <1>1, <1>4, <2>1, <2>2, <2>3, LeafFailed
<1>5. CASE /\ used' = ChargedRun(Size[Leaf.body])
           /\ stack' = Stepped(ChargedStack(Size[Leaf.body]))
           /\ item' = Pick(PartAt, Leaf.body, Top.depth + Leaf.hops, Leaf.whole)
           /\ UNCHANGED <<failing, outgoing>>
  <2>1. SameFrames(stack, stack') BY <1>2, <1>5, PassedOn
  <2>2. ItemHeld' BY <1>1, <1>2, <1>5, <2>1, PartStaged
  <2>3. FailureHeld' /\ PrivateHeld' BY <1>1, <1>2, <1>5, NoneHeld
  <2>4. Nested(stack') BY <1>2, <2>1, NestedAlike
  <2>5. used' \in [members : Nat, bytes : Nat] BY <1>2, <1>5, ChargedTyped
  <2>. QED BY <1>1, <1>5, <2>2, <2>3, <2>4, <2>5, ShapedNext DEF Shaped
<1>. QED BY <1>3, <1>4, <1>5 DEF StageLeaf

\* The source file is given up: what it had on the stack is gone.
LEMMA GiveUpSourceShaped ==
    ASSUME Shaped, GiveUpSource
    PROVE  Shaped'
<1>1. /\ AtLeaf \/ item # {}
      /\ Deposit(<<>>, {FailureRec(<<todo - 1>>, "unreadable")}) /\ item' = {}
      /\ UNCHANGED <<source, policy, private, todo, failing, used, journal>>
  BY DEF GiveUpSource
<1>2. failing = {} /\ private = {}
  BY <1>1, LeafFacts, PrivateFacts
<1>3. Content # {}
  <2>1. CASE AtLeaf BY <2>1, LeafFacts, TopFacts
  <2>2. CASE item # {}
    <3>1. PICK x : StagedHere(x) BY <2>2 DEF Shaped, ItemHeld
    <3>. QED BY <3>1 DEF StagedHere, ItemType
  <2>. QED BY <1>1, <2>1, <2>2
<1>4. <<todo - 1>> \in Seq(Nat)
  <2>1. source \in Seq(Content) BY ExpansionAssumption DEF Shaped
  <2>2. todo - 1 \in Nat BY <2>1, LenProperties DEF Shaped
  <2>. QED BY <2>2
<1>5. {FailureRec(<<todo - 1>>, "unreadable")} \in SUBSET RecordType
  BY <1>3, <1>4, RecordsTyped
<1>6. SameFrames(<<>>, stack') /\ outgoing' \subseteq RecordType
  BY <1>1, <1>5, EmptyNested, DepositKeeps DEF Shaped
<1>7. Nested(stack')
  BY <1>6, EmptyNested, NestedAlike
<1>8. ItemHeld' /\ FailureHeld' /\ PrivateHeld'
  BY <1>1, <1>2, NoneHeld
<1>. QED BY <1>1, <1>6, <1>7, <1>8, ShapedNext DEF Shaped

-----------------------------------------------------------------------------
\* Leaving a container.
LEMMA CloseContainerShaped ==
    ASSUME Shaped, CloseContainer
    PROVE  Shaped'
<1>1. /\ InFrame({"archive", "mail", "source"}, "parts")
      /\ Deposit(Below, Top.buffer \cup {ContainerRec(Top.at, Top.body, "expanded")})
      /\ UNCHANGED <<source, policy, private, todo, item, failing, used, journal, mishaps>>
  BY DEF CloseContainer, AtEnd
<1>2. /\ item = {} /\ failing = {} /\ private = {} /\ stack # <<>> /\ Nested(stack)
      /\ outgoing \subseteq RecordType
  BY <1>1, PartsFacts
<1>3. Nested(Below)
  BY <1>2, NestedBelow DEF Below
<1>4. Top \in FrameType /\ Top.at \in Seq(Nat) /\ Top.body \in Content
  BY <1>2, TopFacts
<1>5. Top.buffer \cup {ContainerRec(Top.at, Top.body, "expanded")} \in SUBSET RecordType
  BY <1>4, FrameFields, RecordsTyped
<1>6. SameFrames(Below, stack') /\ outgoing' \subseteq RecordType
  BY <1>1, <1>2, <1>3, <1>5, DepositKeeps
<1>7. Nested(stack')
  BY <1>3, <1>6, NestedAlike
<1>8. ItemHeld' /\ FailureHeld' /\ PrivateHeld'
  BY <1>1, <1>2, NoneHeld
<1>. QED BY <1>1, <1>6, <1>7, <1>8, ShapedNext DEF Shaped

\* A mailbox among the source files ends.
LEMMA CloseMailboxShaped ==
    ASSUME Shaped, CloseMailbox
    PROVE  Shaped'
<1>1. /\ InFrame({"archive", "mail", "source"}, "parts") /\ stack' = Below
      /\ UNCHANGED <<source, policy, private, todo, item, failing, used, outgoing, journal, mishaps>>
  BY DEF CloseMailbox, AtEnd
<1>2. /\ item = {} /\ failing = {} /\ private = {} /\ stack # <<>> /\ Nested(stack)
  BY <1>1, PartsFacts
<1>3. Nested(stack')
  BY <1>1, <1>2, NestedBelow DEF Below
<1>4. ItemHeld' /\ FailureHeld' /\ PrivateHeld'
  BY <1>1, <1>2, NoneHeld
<1>. QED BY <1>1, <1>3, <1>4, ShapedNext DEF Shaped

\* A failure unwinds by one container, or has found its own.
LEMMA UnwindShaped ==
    ASSUME Shaped, Unwind
    PROVE  Shaped'
<1>1. /\ failing # {} /\ stack # <<>>
      /\ UNCHANGED <<source, policy, private, todo, item, used, journal, mishaps>>
  BY DEF Unwind
<1>2. PICK x : failing = {x} /\ x.owner \in Places(stack) /\ private = {} /\ item = {}
  BY <1>1, PrivateFacts DEF Shaped, FailureHeld
<1>3. /\ Nested(Below) /\ Places(stack) \subseteq Places(Below) \cup {Top.at}
      /\ outgoing \subseteq RecordType
  BY <1>1, NestedBelow DEF Shaped, Below, Top
<1>4. ItemHeld' /\ PrivateHeld'
  BY <1>1, <1>2, NoneHeld
<1>5. CASE x.owner # Top.at /\ stack' = Below /\ UNCHANGED <<failing, outgoing>>
  <2>1. x.owner \in Places(stack') BY <1>2, <1>3, <1>5
  <2>2. FailureHeld' BY <1>1, <1>2, <1>5, <2>1 DEF FailureHeld, Places
  <2>. QED BY <1>1, <1>3, <1>4, <1>5, <2>2, ShapedNext DEF Shaped
<1>6. CASE Deposit(Below, Rejection(Top.at, Top.body)) /\ failing' = {}
  <2>1. Rejection(Top.at, Top.body) \in SUBSET RecordType BY <1>1, TopFacts, RecordsTyped
  <2>2. SameFrames(Below, stack') /\ outgoing' \subseteq RecordType
    BY <1>3, <1>6, <2>1, DepositKeeps
  <2>3. Nested(stack') BY <1>3, <2>2, NestedAlike
  <2>4. FailureHeld' BY <1>6, NoneHeld
  <2>. QED BY <1>1, <1>4, <2>2, <2>3, <2>4, ShapedNext DEF Shaped
<1>. QED BY <1>2, <1>5, <1>6 DEF Unwind, OnlyRejection

\* Discovery begins again.
LEMMA RestartShaped ==
    ASSUME Shaped, Restart
    PROVE  Shaped'
<1>1. /\ todo' = 1 /\ stack' = <<>> /\ item' = {} /\ failing' = {} /\ private' = {}
      /\ used' = Unused /\ outgoing' = {} /\ UNCHANGED <<source, policy, journal>>
  BY DEF Restart
<1>2. source \in Sources /\ source \in Seq(Content)
  BY ExpansionAssumption DEF Shaped
<1>3. todo' \in 1 .. Len(source') + 1
  <2>1. Len(source) \in Nat BY <1>2, LenProperties
  <2>. QED BY <1>1, <2>1
<1>4. ItemHeld' /\ FailureHeld' /\ PrivateHeld'
  BY <1>1, NoneHeld
<1>5. Nested(stack)'
  BY <1>1, EmptyNested, NestedNext
<1>. QED BY <1>1, <1>3, <1>4, <1>5 DEF Shaped, Unused

-----------------------------------------------------------------------------
\* No step leaves the invariant.
LEMMA NextShaped ==
    ASSUME Shaped, [Next]_vars
    PROVE  Shaped'
<1>1. CASE \E r \in outgoing : WriteRecord(r)
  BY <1>1, WriteRecordShaped
<1>2. CASE OpenMailbox \/ ReadSource
  BY <1>2, OpenMailboxShaped, ReadSourceShaped
<1>3. CASE \E x \in item : KeepBlob(x) \/ RefuseContainer(x) \/ EnterContainer(x)
  BY <1>3, KeepBlobShaped, RefuseContainerShaped, EnterContainerShaped
<1>4. CASE UnpackStream \/ ListArchive
  BY <1>4, UnpackStreamShaped, ListArchiveShaped
<1>5. CASE \E p \in private :
             \/ \E i \in DOMAIN p.written : CheckChunk(p, i)
             \/ \E c \in p.pending : WriteChunk(p, c)
             \/ EndExtraction(p)
  BY <1>5, CheckChunkShaped, WriteChunkShaped, EndExtractionShaped
<1>6. CASE StageMember \/ CheckArchive \/ FailArchive \/ NextMember
  BY <1>6, StageMemberShaped, CheckArchiveShaped, FailArchiveShaped, NextMemberShaped
<1>7. CASE TooManyLeaves \/ PassLeaf \/ StageLeaf \/ GiveUpSource
  BY <1>7, TooManyLeavesShaped, PassLeafShaped, StageLeafShaped, GiveUpSourceShaped
<1>8. CASE CloseContainer \/ CloseMailbox \/ Unwind
  BY <1>8, CloseContainerShaped, CloseMailboxShaped, UnwindShaped
<1>9. CASE Restart
  BY <1>9, RestartShaped
<1>10. CASE UNCHANGED vars
  <2>1. ItemHeld' /\ FailureHeld' /\ PrivateHeld' BY <1>10, HeldStill DEF vars
  <2>2. Nested(stack') BY <1>10 DEF vars, Shaped
  <2>. QED BY <1>10, <2>1, <2>2, ShapedNext DEF vars, Shaped
<1>. QED BY <1>1, <1>2, <1>3, <1>4, <1>5, <1>6, <1>7, <1>8, <1>9, <1>10 DEF Next

\* The stack stays nested and typed, a failure has an open container for its owner,
\* and private files are those of the archive that is being read, for all contents,
\* policies and interleavings.
THEOREM ExpansionShaped == Spec => []Shaped
<1>1. Shaped /\ [Next]_vars => Shaped'
  BY NextShaped
<1>. QED BY InitShaped, <1>1, PTL DEF Spec

-----------------------------------------------------------------------------
\* What the invariant says.
LEMMA AtMostOne ==
    ASSUME NEW S, S = {} \/ \E x : S = {x}
    PROVE  Cardinality(S) <= 1
<1>1. CASE S = {}
  BY <1>1, FS_EmptySet
<1>2. CASE \E x : S = {x}
  BY <1>2, FS_Singleton
<1>. QED BY <1>1, <1>2

\* Shaped holds at least the types.
LEMMA ShapedTypes ==
    ASSUME Shaped
    PROVE  TypeOK
<1>1. \A i \in DOMAIN stack :
         /\ stack[i] \in FrameType
         /\ i > 1 => IsContainer(stack[i]) /\ IsStrictPrefix(stack[i - 1].at, stack[i].at)
  <2>. SUFFICES ASSUME NEW i \in DOMAIN stack
                PROVE  /\ stack[i] \in FrameType
                       /\ i > 1 => IsContainer(stack[i]) /\ IsStrictPrefix(stack[i - 1].at, stack[i].at)
    OBVIOUS
  <2>1. DOMAIN stack = 1 .. Len(stack) /\ Len(stack) \in Nat /\ stack[i] \in FrameType
    BY StackFacts DEF Shaped
  <2>2. ASSUME i > 1
        PROVE  IsContainer(stack[i]) /\ IsStrictPrefix(stack[i - 1].at, stack[i].at)
    <3>1. i - 1 \in DOMAIN stack /\ i - 1 < i BY <2>1, <2>2
    <3>. QED BY <2>2, <3>1 DEF Shaped, Nested
  <2>. QED BY <2>1, <2>2
<1>2. Cardinality(item) <= 1
  BY AtMostOne DEF Shaped, ItemHeld
<1>3. Cardinality(failing) <= 1
  BY AtMostOne DEF Shaped, FailureHeld
<1>4. Cardinality(private) <= 1
  BY AtMostOne DEF Shaped, PrivateHeld
<1>5. ASSUME NEW p \in private
      PROVE  /\ p.at \in Positions /\ p.written \in Seq(Nat)
             /\ p.stream \in Nat /\ p.observed \in Nat
             /\ p.pending \subseteq [part : DOMAIN p.written, bytes : Nat, total : Nat]
  <2>1. /\ p \in PrivateType /\ p.written \in Seq(Nat) /\ p.stream \in Nat /\ p.observed \in Nat
        /\ p.pending \subseteq [part : Nat \ {0}, bytes : Nat, total : Nat] /\ Extracted(p)
    BY HandFacts
  <2>2. p.at \in Positions BY <2>1 DEF PrivateType
  <2>3. ASSUME NEW c \in p.pending PROVE c \in [part : DOMAIN p.written, bytes : Nat, total : Nat]
    <3>1. c \in [part : Nat \ {0}, bytes : Nat, total : Nat] /\ c.part \in DOMAIN p.written
      BY <2>1 DEF Extracted
    <3>. QED BY <3>1
  <2>. QED BY <2>1, <2>2, <2>3
<1>. QED BY <1>1, <1>2, <1>3, <1>4, <1>5 DEF TypeOK, Shaped

\* Types, for all contents and policies.
THEOREM ExpansionTypes == Spec => []TypeOK
<1>1. Shaped => TypeOK
  BY ShapedTypes
<1>. QED BY ExpansionShaped, <1>1, PTL

\* Every failure that unwinds, whatever limit, broken member or thread made it, finds
\* the open container it belongs to: no failure reaches _discover, which would not
\* catch it.
THEOREM OwnersFound == Spec => []FailureHasOwner
<1>1. Shaped => FailureHasOwner
  BY DEF Shaped, FailureHeld, FailureHasOwner, Places, Containers
<1>. QED BY ExpansionShaped, <1>1, PTL

\* The private files of an archive are gone before anything else is opened, staged or
\* unwound, on every way out of members().
THEOREM PrivateFilesReleased == Spec => []PrivateReleased
<1>1. Shaped => PrivateReleased
  <2>. SUFFICES ASSUME Shaped, NEW p \in private
                PROVE  Staging /\ p.at = Top.at /\ failing = {} /\ item = {}
    BY DEF PrivateReleased
  <2>1. Extracted(p) BY HandFacts
  <2>2. failing = {} /\ item = {} BY PrivateFacts
  <2>. QED BY <2>1, <2>2 DEF Extracted
<1>. QED BY ExpansionShaped, <1>1, PTL

-----------------------------------------------------------------------------
\* Containers have places one after the other, the outermost at depth nought: as
\* many are open as the depth limit says, each another content than the others.
LEMMA ContainersInOrder ==
    ASSUME Nested(stack)
    PROVE  /\ Outer(stack) \in Nat /\ Outer(stack) <= Len(stack)
           /\ Containers = Outer(stack) + 1 .. Len(stack)
           /\ Cardinality(Containers) = Len(stack) - Outer(stack)
           /\ IsFiniteSet(Containers)
<1>1. /\ Len(stack) \in Nat /\ DOMAIN stack = 1 .. Len(stack) /\ (stack = <<>> <=> Len(stack) = 0)
  BY StackFacts
<1>2. \A i \in 1 .. Len(stack) : i > 1 => IsContainer(stack[i])
  BY <1>1 DEF Nested
<1>3. CASE stack # <<>> /\ ~IsContainer(stack[1])
  <2>1. Outer(stack) = 1 BY <1>3 DEF Outer
  <2>2. Containers = 2 .. Len(stack) BY <1>1, <1>2, <1>3 DEF Containers
  <2>3. IsFiniteSet(2 .. Len(stack)) /\ Cardinality(2 .. Len(stack)) = Len(stack) - 1
    <3>1. Len(stack) > 0 BY <1>1, <1>3
    <3>2. /\ IsFiniteSet(2 .. Len(stack))
          /\ Cardinality(2 .. Len(stack)) = IF 2 > Len(stack) THEN 0 ELSE Len(stack) - 2 + 1
      BY <1>1, FS_Interval
    <3>. QED BY <1>1, <3>1, <3>2, SMTT(30)
  <2>. QED BY <1>1, <1>3, <2>1, <2>2, <2>3
<1>4. CASE ~(stack # <<>> /\ ~IsContainer(stack[1]))
  <2>1. Outer(stack) = 0 BY <1>4 DEF Outer
  <2>2. Containers = 1 .. Len(stack) BY <1>1, <1>2, <1>4 DEF Containers
  <2>3. IsFiniteSet(1 .. Len(stack)) /\ Cardinality(1 .. Len(stack)) = Len(stack)
    <3>1. /\ IsFiniteSet(1 .. Len(stack))
          /\ Cardinality(1 .. Len(stack)) = IF 1 > Len(stack) THEN 0 ELSE Len(stack) - 1 + 1
      BY <1>1, FS_Interval
    <3>. QED BY <1>1, <3>1, SMTT(30)
  <2>. QED BY <1>1, <2>1, <2>2, <2>3
<1>. QED BY <1>3, <1>4

\* No content is inside itself, and no more containers are open than the depth limit
\* allows, whatever the archives and messages contain: the walk of _process_blob over
\* hostile nesting is bounded.
THEOREM RecursionIsBounded == Spec => []RecursionBounded
<1>1. Shaped => RecursionBounded
  <2>. SUFFICES ASSUME Shaped PROVE RecursionBounded OBVIOUS
  <2>1. Nested(stack) /\ policy.depth \in Nat BY PolicyFacts DEF Shaped
  <2>2. /\ Containers = Outer(stack) + 1 .. Len(stack) /\ IsFiniteSet(Containers)
        /\ Cardinality(Containers) = Len(stack) - Outer(stack) /\ Outer(stack) \in Nat
        /\ Outer(stack) <= Len(stack)
    BY <2>1, ContainersInOrder
  <2>3. Len(stack) \in Nat /\ DOMAIN stack = 1 .. Len(stack) BY <2>1, StackFacts
  <2>4. Cardinality(Containers) <= policy.depth
    <3>1. CASE Containers = {} BY <2>1, <3>1, FS_EmptySet
    <3>2. CASE Containers # {}
      <4>1. Len(stack) \in Containers /\ Len(stack) \in DOMAIN stack BY <2>2, <2>3, <3>2
      <4>2. IsContainer(stack[Len(stack)]) BY <4>1 DEF Containers
      <4>3. /\ Len(stack) <= stack[Len(stack)].depth + 1 + Outer(stack)
            /\ stack[Len(stack)].depth < policy.depth
        BY <2>1, <4>1, <4>2 DEF Nested
      <4>4. stack[Len(stack)] \in FrameType BY <2>1, <2>3, <4>1, StackFacts
      <4>5. stack[Len(stack)].depth \in Nat BY <4>4, FrameFields
      <4>. QED BY <2>1, <2>2, <2>3, <4>3, <4>5
    <3>. QED BY <3>1, <3>2
  <2>5. Cardinality(Ancestors) = Cardinality(Containers)
    <3>. DEFINE f == [i \in Containers |-> stack[i].body]
    <3>1. f \in Surjection(Containers, Ancestors) BY DEF Surjection, Ancestors
    <3>2. \A i, j \in Containers : i # j => f[i] # f[j]
      <4>. SUFFICES ASSUME NEW i \in Containers, NEW j \in Containers, i # j, stack[i].body = stack[j].body
                    PROVE  FALSE
        OBVIOUS
      <4>1. i \in DOMAIN stack /\ j \in DOMAIN stack /\ IsContainer(stack[i]) /\ IsContainer(stack[j])
        BY DEF Containers
      <4>2. i < j \/ j < i BY <2>3, <4>1
      <4>. QED BY <2>1, <4>1, <4>2 DEF Nested
    <3>3. f \in Bijection(Containers, Ancestors)
      <4>1. f \in [Containers -> Ancestors] BY DEF Ancestors
      <4>. HIDE DEF f
      <4>. QED BY <3>1, <3>2, <4>1 DEF Bijection, Injection, IsInjective
    <3>. HIDE DEF f
    <3>4. ExistsBijection(Containers, Ancestors) BY <3>3 DEF ExistsBijection
    <3>. QED BY <2>2, <3>4, FS_Bijection
  <2>. QED BY <2>4, <2>5 DEF RecursionBounded
<1>. QED BY ExpansionShaped, <1>1, PTL

-----------------------------------------------------------------------------
\* Charges: the inductive invariant, as a predicate of a stack and of what the run
\* was charged.
Budgeted(s, bytes) ==
    \A i \in DOMAIN s : IsContainer(s[i]) =>
        /\ s[i].spent <= policy.containerBytes /\ s[i].spent <= bytes
        /\ \A j \in DOMAIN s : i < j /\ IsContainer(s[j]) => s[j].spent <= s[i].spent

Charged ==
    /\ used.members <= policy.partsPerRun /\ used.bytes <= policy.runBytes
    /\ Budgeted(stack, used.bytes)

\* What a check that finds nothing has established.
LEMMA PreflightPasses ==
    ASSUME Nested(stack), NEW members, NEW bytes, Preflight(members, bytes) = {}
    PROVE  /\ ~(used.members + members > policy.partsPerRun)
           /\ ~(used.bytes + bytes > policy.runBytes)
           /\ Overrun(bytes) = {}
<1>1. /\ Exceeds(used.members + members > policy.partsPerRun, "run count") = {}
      /\ Exceeds(used.bytes + bytes > policy.runBytes, "run size") = {}
      /\ ContainerLimits(bytes) = {}
  BY DEF Preflight, ??
<1>2. Overrun(bytes) = {}
  <2>. SUFFICES ASSUME Overrun(bytes) # {} PROVE FALSE OBVIOUS
  <2>1. Overrun(bytes) \subseteq Nat BY StackFacts DEF Overrun, Budgets, Containers
  <2>2. PICK i \in Overrun(bytes) : \A k \in Overrun(bytes) : i <= k BY <2>1, LeastNumber
  <2>3. Failure("container size", stack[i].at) \in ContainerLimits(bytes) BY <2>2 DEF ContainerLimits
  <2>. QED BY <1>1, <2>3
<1>. QED BY <1>1, <1>2 DEF Exceeds

\* What passes the check of a payload keeps every limit when it is charged.
LEMMA PayloadPasses ==
    ASSUME NEW bytes, PayloadLimits(bytes) = {}
    PROVE  Preflight(1, bytes) = {}
<1>1. PayloadLimits(bytes) = IF Exceeds(bytes > policy.memberBytes, "member size") # {}
                               THEN Exceeds(bytes > policy.memberBytes, "member size")
                               ELSE Preflight(1, bytes)
  BY DEF PayloadLimits, ??
<1>. QED BY <1>1

\* What a check that finds a container too small has established.
LEMMA PreflightStops ==
    ASSUME Nested(stack), NEW members, NEW bytes, NEW x \in Preflight(members, bytes), x.owner # None
    PROVE  /\ ~(used.members + members > policy.partsPerRun)
           /\ ~(used.bytes + bytes > policy.runBytes)
           /\ \E i \in Overrun(bytes) : x.owner = stack[i].at /\ \A k \in Overrun(bytes) : i <= k
<1>1. "run count" \in Reasons /\ "run size" \in Reasons
  BY DEF Reasons
<1>2. /\ x \notin Exceeds(used.members + members > policy.partsPerRun, "run count")
      /\ x \notin Exceeds(used.bytes + bytes > policy.runBytes, "run size")
  BY <1>1, ExceedsOwned
<1>3. /\ Exceeds(used.members + members > policy.partsPerRun, "run count") = {}
      /\ Exceeds(used.bytes + bytes > policy.runBytes, "run size") = {}
      /\ x \in ContainerLimits(bytes)
  BY <1>2 DEF Preflight, ??
<1>4. \E i \in Overrun(bytes) : x.owner = stack[i].at /\ \A k \in Overrun(bytes) : i <= k
  BY <1>3, ContainerOwned
<1>. QED BY <1>3, <1>4 DEF Exceeds

\* The spent bytes of frames are numbers.
LEMMA SpentTyped ==
    ASSUME Nested(stack)
    PROVE  /\ \A i \in DOMAIN stack : stack[i].spent \in Nat
           /\ DOMAIN stack = 1 .. Len(stack) /\ Len(stack) \in Nat
BY StackFacts, FrameFields

\* Budgets of frames that were not charged, ...
SameBudgets(s, t) ==
    DOMAIN t = DOMAIN s /\ \A i \in DOMAIN s : t[i].kind = s[i].kind /\ t[i].spent = s[i].spent

\* Stacks that differ in phases, cursors and buffers have the same budgets.
LEMMA BudgetedSame ==
    ASSUME NEW s, NEW t, SameBudgets(s, t), NEW bytes, Budgeted(s, bytes)
    PROVE  Budgeted(t, bytes)
BY DEF Budgeted, SameBudgets, IsContainer

\* ... that changed in other ways, ...
LEMMA FramesBudgets ==
    ASSUME NEW s, NEW t, Nested(s), SameFrames(s, t), SameSpent(s, t)
    PROVE  SameBudgets(s, t)
<1>1. DOMAIN s = 1 .. Len(s) /\ DOMAIN t = 1 .. Len(s)
  BY StackFacts, LenProperties DEF SameFrames
<1>. QED BY <1>1 DEF SameFrames, SameSpent, Alike, SameBudgets

\* ... that received records, ...
LEMMA DepositBudgets ==
    ASSUME NEW st, Nested(st), NEW recs, Deposit(st, recs)
    PROVE  SameBudgets(st, stack')
<1>1. /\ st \in Seq(FrameType) /\ Len(st) \in Nat /\ DOMAIN st = 1 .. Len(st)
      /\ \A i \in 1 .. Len(st) : st[i] \in FrameType
      /\ st # <<>> => Last(st) = st[Len(st)] /\ Len(st) \in 1 .. Len(st)
  BY StackFacts DEF Nested
<1>2. CASE st # <<>> /\ IsContainer(Last(st))
  <2>0. /\ Front(st) \in Seq(FrameType) /\ Len(Front(st)) = Len(st) - 1
        /\ \A i \in 1 .. Len(st) - 1 : Front(st)[i] = st[i]
    BY <1>1, <1>2, FrontLast
  <2>. DEFINE f == [Last(st) EXCEPT !.buffer = @ \cup recs]
              b == Front(st)
              n == Len(st)
  <2>1. stack' = Append(b, f)
    BY <1>2 DEF Deposit
  <2>2. Last(st) \in FrameType /\ Last(st) = st[n] /\ n \in 1 .. n /\ n \in Nat
    BY <1>1, <1>2
  <2>3. f.kind = Last(st).kind /\ f.spent = Last(st).spent
    BY <2>2 DEF FrameType
  <2>4. b \in Seq(FrameType) /\ Len(b) = n - 1 /\ \A i \in 1 .. n - 1 : b[i] = st[i]
    BY <2>0
  <2>. HIDE DEF f, b, n
  <2>5. b \in Seq(FrameType \cup {f})
    <3>1. b \in [1 .. n - 1 -> FrameType] /\ n - 1 \in Nat
      BY <2>2, <2>4, LenProperties
    <3>2. b \in [1 .. n - 1 -> FrameType \cup {f}]
      BY <3>1
    <3>. QED BY <3>1, <3>2, FunctionSeq
  <2>6. /\ Append(b, f) \in Seq(FrameType \cup {f}) /\ Len(Append(b, f)) = Len(b) + 1
        /\ \A i \in 1 .. Len(b) : Append(b, f)[i] = b[i]
        /\ Append(b, f)[Len(b) + 1] = f
    BY <2>5, AppendProperties
  <2>7. Len(b) + 1 = n /\ DOMAIN Append(b, f) = 1 .. n
    BY <2>2, <2>4, <2>6, LenProperties
  <2>8. DOMAIN stack' = DOMAIN st
    <3>1. DOMAIN st = 1 .. n BY <1>1 DEF n
    <3>2. DOMAIN stack' = DOMAIN Append(b, f) BY <2>1
    <3>. QED BY <2>7, <3>1, <3>2
  <2>9. ASSUME NEW i \in 1 .. n
        PROVE  stack'[i].kind = st[i].kind /\ stack'[i].spent = st[i].spent
    <3>1. CASE i = n BY <2>1, <2>2, <2>3, <2>6, <2>7, <3>1
    <3>2. CASE i # n
      <4>1. i \in 1 .. n - 1 BY <2>2, <3>2
      <4>. QED BY <2>1, <2>4, <2>6, <4>1
    <3>. QED BY <3>1, <3>2
  <2>. QED BY <1>1, <2>8, <2>9 DEF SameBudgets, n
<1>3. CASE ~(st # <<>> /\ IsContainer(Last(st)))
  BY <1>3 DEF Deposit, SameBudgets
<1>. QED BY <1>2, <1>3

\* ... of those that are left, ...
LEMMA BudgetedBelow ==
    ASSUME NEW s, Nested(s), s # <<>>, NEW bytes, Budgeted(s, bytes)
    PROVE  Budgeted(Front(s), bytes)
<1>1. /\ DOMAIN s = 1 .. Len(s) /\ Len(s) \in Nat /\ Len(Front(s)) = Len(s) - 1
      /\ \A i \in 1 .. Len(s) - 1 : Front(s)[i] = s[i]
      /\ DOMAIN Front(s) = 1 .. Len(Front(s))
  BY StackFacts, NestedBelow
<1>2. \A i \in DOMAIN Front(s) : i \in DOMAIN s /\ Front(s)[i] = s[i]
  BY <1>1
<1>. QED BY <1>2 DEF Budgeted

\* ... and of a new one.
LEMMA BudgetedEntered ==
    ASSUME NEW s, Nested(s), NEW f \in FrameType, f.spent = 0, NEW bytes \in Nat, Budgeted(s, bytes),
           policy.containerBytes \in Nat
    PROVE  Budgeted(Append(s, f), bytes)
<1>. DEFINE t == Append(s, f)
<1>1. /\ s \in Seq(FrameType) /\ DOMAIN s = 1 .. Len(s) /\ Len(s) \in Nat
      /\ \A i \in 1 .. Len(s) : s[i] \in FrameType
  BY StackFacts DEF Nested
<1>2. /\ t \in Seq(FrameType) /\ Len(t) = Len(s) + 1 /\ \A i \in 1 .. Len(s) : t[i] = s[i]
      /\ t[Len(s) + 1] = f
  BY <1>1, AppendProperties
<1>3. DOMAIN t = 1 .. Len(s) + 1
  BY <1>2, LenProperties
<1>4. \A i \in 1 .. Len(s) : s[i].spent \in Nat
  BY <1>1, FrameFields
<1>. HIDE DEF t
<1>5. ASSUME NEW i \in DOMAIN t, IsContainer(t[i])
      PROVE  /\ t[i].spent <= policy.containerBytes /\ t[i].spent <= bytes
             /\ \A j \in DOMAIN t : i < j /\ IsContainer(t[j]) => t[j].spent <= t[i].spent
  <2>1. CASE i \in 1 .. Len(s)
    <3>1. t[i] = s[i] /\ i \in DOMAIN s /\ s[i].spent \in Nat BY <1>1, <1>2, <1>4, <2>1
    <3>2. t[i].spent <= policy.containerBytes /\ t[i].spent <= bytes BY <1>5, <3>1 DEF Budgeted
    <3>3. ASSUME NEW j \in DOMAIN t, i < j, IsContainer(t[j])
          PROVE  t[j].spent <= t[i].spent
      <4>1. CASE j \in 1 .. Len(s) BY <1>1, <1>2, <1>5, <3>1, <3>3, <4>1 DEF Budgeted
      <4>2. CASE j = Len(s) + 1 BY <1>2, <3>1, <4>2
      <4>. QED BY <1>1, <1>3, <4>1, <4>2
    <3>. QED BY <3>2, <3>3
  <2>2. CASE i = Len(s) + 1
    <3>1. t[i].spent = 0 BY <1>2, <2>2
    <3>2. \A j \in DOMAIN t : ~(i < j) BY <1>1, <1>3, <2>2
    <3>. QED BY <3>1, <3>2
  <2>. QED BY <1>1, <1>3, <2>1, <2>2
<1>6. Budgeted(t, bytes)
  BY <1>5 DEF Budgeted
<1>. QED BY <1>6 DEF t

\* A payload for which the run and every container have room is charged to all.
LEMMA BudgetedCharged ==
    ASSUME Shaped, Charged, NEW bytes \in Nat, Preflight(1, bytes) = {}
    PROVE  /\ Budgeted(ChargedStack(bytes), used.bytes + bytes)
           /\ used.bytes + bytes <= policy.runBytes /\ used.members + 1 <= policy.partsPerRun
<1>. DEFINE t == ChargedStack(bytes)
<1>1. /\ Nested(stack) /\ used.bytes \in Nat /\ used.members \in Nat
      /\ policy.containerBytes \in Nat /\ policy.runBytes \in Nat /\ policy.partsPerRun \in Nat
  BY PolicyFacts DEF Shaped
<1>2. /\ ~(used.members + 1 > policy.partsPerRun) /\ ~(used.bytes + bytes > policy.runBytes)
      /\ Overrun(bytes) = {}
  BY <1>1, PreflightPasses
<1>3. /\ SameFrames(stack, t)
      /\ \A i \in 1 .. Len(stack) :
           t[i].spent = IF IsContainer(stack[i]) THEN stack[i].spent + bytes ELSE stack[i].spent
  BY <1>1, ChargeKeeps
<1>4. /\ DOMAIN stack = 1 .. Len(stack) /\ Len(stack) \in Nat /\ DOMAIN t = 1 .. Len(stack)
      /\ \A i \in DOMAIN stack : stack[i].spent \in Nat
  BY <1>1, <1>3, SpentTyped, LenProperties DEF SameFrames
<1>. HIDE DEF t
<1>5. \A i \in 1 .. Len(stack) : IsContainer(t[i]) <=> IsContainer(stack[i])
  BY <1>3 DEF SameFrames, Alike, IsContainer
<1>6. \A i \in DOMAIN stack : IsContainer(stack[i]) => stack[i].spent + bytes <= policy.containerBytes
  BY <1>1, <1>2, <1>4, SMTT(30) DEF Overrun, Budgets, Containers
<1>7. ASSUME NEW i \in DOMAIN t, IsContainer(t[i])
      PROVE  /\ t[i].spent <= policy.containerBytes /\ t[i].spent <= used.bytes + bytes
             /\ \A j \in DOMAIN t : i < j /\ IsContainer(t[j]) => t[j].spent <= t[i].spent
  <2>1. /\ i \in DOMAIN stack /\ IsContainer(stack[i]) /\ stack[i].spent \in Nat
        /\ t[i].spent = stack[i].spent + bytes
    BY <1>3, <1>4, <1>5, <1>7
  <2>2. t[i].spent <= policy.containerBytes BY <1>6, <2>1
  <2>3. stack[i].spent <= used.bytes BY <2>1 DEF Charged, Budgeted
  <2>4. t[i].spent <= used.bytes + bytes BY <1>1, <2>1, <2>3
  <2>5. ASSUME NEW j \in DOMAIN t, i < j, IsContainer(t[j])
        PROVE  t[j].spent <= t[i].spent
    <3>1. /\ j \in DOMAIN stack /\ IsContainer(stack[j]) /\ stack[j].spent \in Nat
          /\ t[j].spent = stack[j].spent + bytes
      BY <1>3, <1>4, <1>5, <2>5
    <3>2. stack[j].spent <= stack[i].spent BY <2>1, <2>5, <3>1 DEF Charged, Budgeted
    <3>. QED BY <2>1, <3>1, <3>2
  <2>. QED BY <2>2, <2>4, <2>5
<1>8. Budgeted(t, used.bytes + bytes)
  BY <1>7 DEF Budgeted
<1>9. used.bytes + bytes <= policy.runBytes /\ used.members + 1 <= policy.partsPerRun
  BY <1>1, <1>2
<1>. QED BY <1>8, <1>9 DEF t

\* Inside the frame at place i nothing is outside of it.
LEMMA OutsideOf ==
    ASSUME Nested(stack), NEW i \in DOMAIN stack, NEW k \in DOMAIN stack
    PROVE  IsStrictPrefix(stack[k].at, stack[i].at) <=> k < i
<1>1. stack[k].at \in Seq(Nat) /\ stack[i].at \in Seq(Nat) /\ i \in Nat /\ k \in Nat
  BY StackFacts
<1>2. k < i => IsStrictPrefix(stack[k].at, stack[i].at)
  BY DEF Nested
<1>3. i < k => IsStrictPrefix(stack[i].at, stack[k].at)
  BY DEF Nested
<1>4. ~IsStrictPrefix(stack[i].at, stack[i].at)
  BY DEF IsStrictPrefix
<1>5. ASSUME IsStrictPrefix(stack[k].at, stack[i].at), i < k
      PROVE  FALSE
  BY <1>1, <1>3, <1>4, <1>5, StrictPrefixTransitive
<1>. QED BY <1>1, <1>2, <1>4, <1>5

\* A payload for which a container has no room is charged to those around it.
LEMMA BudgetedOutside ==
    ASSUME Shaped, Charged, NEW bytes \in Nat, NEW x \in Preflight(1, bytes), x.owner # None
    PROVE  /\ Budgeted(ChargedOutside(x.owner, bytes), used.bytes + bytes)
           /\ used.bytes + bytes <= policy.runBytes /\ used.members + 1 <= policy.partsPerRun
<1>. DEFINE t == ChargedOutside(x.owner, bytes)
<1>1. /\ Nested(stack) /\ used.bytes \in Nat /\ used.members \in Nat
      /\ policy.containerBytes \in Nat /\ policy.runBytes \in Nat /\ policy.partsPerRun \in Nat
  BY PolicyFacts DEF Shaped
<1>2. ~(used.members + 1 > policy.partsPerRun) /\ ~(used.bytes + bytes > policy.runBytes)
  BY <1>1, PreflightStops
<1>3. PICK n \in Overrun(bytes) : x.owner = stack[n].at /\ \A k \in Overrun(bytes) : n <= k
  BY <1>1, PreflightStops
<1>4. n \in DOMAIN stack
  BY <1>3 DEF Overrun, Budgets, Containers
<1>5. /\ SameFrames(stack, t)
      /\ \A i \in 1 .. Len(stack) :
           t[i].spent = IF IsContainer(stack[i]) /\ IsStrictPrefix(stack[i].at, x.owner)
                          THEN stack[i].spent + bytes ELSE stack[i].spent
  BY <1>1, OutsideKeeps
<1>6. /\ DOMAIN stack = 1 .. Len(stack) /\ Len(stack) \in Nat /\ DOMAIN t = 1 .. Len(stack)
      /\ \A i \in DOMAIN stack : stack[i].spent \in Nat
  BY <1>1, <1>5, SpentTyped, LenProperties DEF SameFrames
<1>. HIDE DEF t
<1>7. \A i \in 1 .. Len(stack) : IsContainer(t[i]) <=> IsContainer(stack[i])
  BY <1>5 DEF SameFrames, Alike, IsContainer
<1>8. ASSUME NEW i \in DOMAIN stack, IsContainer(stack[i])
      PROVE  /\ t[i].spent = IF i < n THEN stack[i].spent + bytes ELSE stack[i].spent
             /\ i < n => stack[i].spent + bytes <= policy.containerBytes
  <2>1. IsStrictPrefix(stack[i].at, x.owner) <=> i < n BY <1>1, <1>3, <1>4, OutsideOf
  <2>2. t[i].spent = IF i < n THEN stack[i].spent + bytes ELSE stack[i].spent
    BY <1>5, <1>6, <1>8, <2>1
  <2>3. ASSUME i < n PROVE stack[i].spent + bytes <= policy.containerBytes
    <3>1. i \notin Overrun(bytes) BY <1>3, <1>4, <1>6, <2>3
    <3>2. ~(stack[i].spent + bytes > policy.containerBytes)
      BY <1>8, <3>1 DEF Overrun, Budgets, Containers
    <3>. QED BY <1>1, <1>6, <3>2
  <2>. QED BY <2>2, <2>3
<1>9. ASSUME NEW i \in DOMAIN t, IsContainer(t[i])
      PROVE  /\ t[i].spent <= policy.containerBytes /\ t[i].spent <= used.bytes + bytes
             /\ \A j \in DOMAIN t : i < j /\ IsContainer(t[j]) => t[j].spent <= t[i].spent
  <2>1. i \in DOMAIN stack /\ IsContainer(stack[i]) /\ stack[i].spent \in Nat
    BY <1>6, <1>7, <1>9
  <2>2. stack[i].spent <= used.bytes /\ stack[i].spent <= policy.containerBytes
    BY <2>1 DEF Charged, Budgeted
  <2>3. /\ t[i].spent = IF i < n THEN stack[i].spent + bytes ELSE stack[i].spent
        /\ i < n => stack[i].spent + bytes <= policy.containerBytes
    BY <1>8, <2>1
  <2>4. t[i].spent <= policy.containerBytes /\ t[i].spent <= used.bytes + bytes
    BY <1>1, <2>1, <2>2, <2>3
  <2>5. ASSUME NEW j \in DOMAIN t, i < j, IsContainer(t[j])
        PROVE  t[j].spent <= t[i].spent
    <3>1. j \in DOMAIN stack /\ IsContainer(stack[j]) /\ stack[j].spent \in Nat
      BY <1>6, <1>7, <2>5
    <3>2. stack[j].spent <= stack[i].spent BY <2>1, <2>5, <3>1 DEF Charged, Budgeted
    <3>3. t[j].spent = IF j < n THEN stack[j].spent + bytes ELSE stack[j].spent
      BY <1>8, <3>1
    <3>4. i \in Nat /\ j \in Nat /\ n \in Nat BY <1>4, <1>6, <2>1, <3>1
    <3>. QED BY <2>1, <2>3, <2>5, <3>1, <3>2, <3>3, <3>4
  <2>. QED BY <2>4, <2>5
<1>10. Budgeted(t, used.bytes + bytes)
  BY <1>9 DEF Budgeted
<1>11. used.bytes + bytes <= policy.runBytes /\ used.members + 1 <= policy.partsPerRun
  BY <1>1, <1>2
<1>. QED BY <1>10, <1>11 DEF t

-----------------------------------------------------------------------------
\* The invariant of the charges after a step, ...
LEMMA ChargedNext ==
    ASSUME policy' = policy, used'.members <= policy.partsPerRun, used'.bytes <= policy.runBytes,
           Budgeted(stack', used'.bytes)
    PROVE  Charged'
BY DEF Charged, Budgeted

\* ... one that charges nothing, whatever frames it leaves ...
LEMMA ChargedStill ==
    ASSUME Charged, policy' = policy, used' = used, Budgeted(stack', used.bytes)
    PROVE  Charged'
BY ChargedNext DEF Charged

\* ... all of them, ...
LEMMA ChargedKept ==
    ASSUME Shaped, Charged, policy' = policy, used' = used,
           stack' = stack \/ (SameFrames(stack, stack') /\ SameSpent(stack, stack'))
    PROVE  Charged'
<1>1. Budgeted(stack, used.bytes) /\ Nested(stack)
  BY DEF Charged, Shaped
<1>2. Budgeted(stack', used.bytes)
  BY <1>1, FramesBudgets, BudgetedSame
<1>. QED BY <1>2, ChargedStill

\* ... or those that a deposit goes to.
LEMMA ChargedDeposit ==
    ASSUME Charged, policy' = policy, used' = used,
           NEW st, Nested(st), Budgeted(st, used.bytes), NEW recs, Deposit(st, recs)
    PROVE  Charged'
<1>1. Budgeted(stack', used.bytes)
  BY DepositBudgets, BudgetedSame
<1>. QED BY <1>1, ChargedStill

\* Nothing is charged to a stack without frames.
LEMMA EmptyBudgeted ==
    ASSUME NEW bytes
    PROVE  Budgeted(<<>>, bytes) /\ Nested(<<>>)
<1>1. DOMAIN <<>> = {}
  BY EmptyNested, LenProperties DEF Nested
<1>. QED BY <1>1, EmptyNested DEF Budgeted

\* A source file is read: charged to the run when it has room for it.
LEMMA ReadSourceCharged ==
    ASSUME Shaped, Charged, ReadSource
    PROVE  Charged'
<1>. DEFINE bytes == Size[source[todo]]
<1>1. policy' = policy /\ stack = <<>> /\ bytes \in Nat
  BY SourceFacts, ExpansionAssumption DEF ReadSource
<1>2. ASSUME NEW recs, Deposit(<<>>, recs), used' = used
      PROVE  Charged'
  BY <1>1, <1>2, EmptyBudgeted, ChargedDeposit
<1>3. CASE PayloadLimits(bytes) = {} /\ used' = ChargedRun(bytes) /\ stack' = stack
  <2>1. Preflight(1, bytes) = {} BY <1>3, PayloadPasses
  <2>2. used.bytes + bytes <= policy.runBytes /\ used.members + 1 <= policy.partsPerRun
    BY <1>1, <2>1, BudgetedCharged
  <2>3. used'.bytes = used.bytes + bytes /\ used'.members = used.members + 1
    BY <1>3 DEF ChargedRun
  <2>4. Budgeted(stack', used'.bytes) BY <1>1, <1>3, EmptyBudgeted
  <2>. QED BY <1>1, <2>2, <2>3, <2>4, ChargedNext
<1>. QED BY <1>2, <1>3 DEF ReadSource

\* A new container has been charged nothing.
LEMMA EnteredCharged ==
    ASSUME Shaped, Charged, policy' = policy, used' = used,
           NEW f \in FrameType, f.spent = 0, stack' = Append(stack, f)
    PROVE  Charged'
<1>1. Nested(stack) /\ used.bytes \in Nat /\ policy.containerBytes \in Nat /\ Budgeted(stack, used.bytes)
  BY PolicyFacts DEF Shaped, Charged
<1>2. Budgeted(stack', used.bytes)
  BY <1>1, BudgetedEntered
<1>. QED BY <1>2, ChargedStill

\* A mailbox among the source files is no container.
LEMMA OpenMailboxCharged ==
    ASSUME Shaped, Charged, OpenMailbox
    PROVE  Charged'
<1>. DEFINE f == Frame("source", <<todo>>, source[todo], 0, "parts")
<1>1. policy' = policy /\ used' = used /\ stack' = <<f>> /\ AtSource
  BY DEF OpenMailbox
<1>2. DOMAIN <<f>> = {1} /\ <<f>>[1] = f
  OBVIOUS
<1>3. ~IsContainer(f)
  BY DEF Frame, IsContainer
<1>. HIDE DEF f
<1>4. Budgeted(stack', used.bytes)
  BY <1>1, <1>2, <1>3 DEF Budgeted
<1>. QED BY <1>1, <1>4, ChargedStill

\* A container is entered.
LEMMA EnterContainerCharged ==
    ASSUME Shaped, Charged, NEW x, EnterContainer(x)
    PROVE  Charged'
<1>. DEFINE shape == Shape[x.body]
            kind == IF shape \in ArchiveShapes THEN "archive" ELSE "mail"
            phase == IF kind = "archive" THEN (IF shape = "zst" THEN "unpacking" ELSE "listing") ELSE "parts"
            f == Frame(kind, x.at, x.body, x.depth, phase)
<1>1. /\ Classify(x) /\ stack' = Append(stack, f)
      /\ UNCHANGED <<source, policy, private, todo, failing, used, outgoing, journal, mishaps>>
  BY DEF EnterContainer
<1>2. x.at \in Seq(Nat) /\ x.body \in Content /\ x.depth \in Nat
  BY <1>1, ClassifyFacts
<1>3. f \in FrameType /\ f.spent = 0
  BY <1>2, FrameMade
<1>. HIDE DEF f
<1>. QED BY <1>1, <1>3, EnteredCharged

\* A payload that passed the checks is charged and the next part is at hand.
LEMMA PassedCharged ==
    ASSUME Shaped, Charged, policy' = policy, stack # <<>>, NEW bytes \in Nat, Preflight(1, bytes) = {},
           used' = ChargedRun(bytes), stack' = Stepped(ChargedStack(bytes))
    PROVE  Charged'
<1>1. /\ Budgeted(ChargedStack(bytes), used.bytes + bytes)
      /\ used.bytes + bytes <= policy.runBytes /\ used.members + 1 <= policy.partsPerRun
  BY BudgetedCharged
<1>2. Nested(ChargedStack(bytes)) /\ ChargedStack(bytes) # <<>>
  BY PassedOn DEF Shaped
<1>3. used'.bytes = used.bytes + bytes /\ used'.members = used.members + 1
  BY DEF ChargedRun
<1>. DEFINE t == ChargedStack(bytes)
<1>. HIDE DEF t
<1>4. SameBudgets(t, Stepped(t))
  BY <1>2, SteppedKeeps, FramesBudgets DEF t
<1>5. Budgeted(stack', used'.bytes)
  BY <1>1, <1>3, <1>4, BudgetedSame DEF t
<1>. QED BY <1>1, <1>3, <1>5, ChargedNext

\* A member is staged, or a charge for it stops at the container without room.
LEMMA StageMemberCharged ==
    ASSUME Shaped, Charged, StageMember
    PROVE  Charged'
<1>1. InFrame({"archive"}, "staging") /\ Top.next <= Len(Inside) /\ policy' = policy
  BY DEF StageMember
<1>2. stack # <<>> /\ Nested(stack) /\ Top.kind = "archive"
  BY <1>1, ArchiveFacts
<1>. DEFINE bytes == Size[Inside[Top.next].body]
<1>3. bytes \in Nat
  <2>1. /\ Top.next \in DOMAIN Inside /\ Inside = Parts[Top.body] /\ Top.body \in Content
        /\ Shape[Top.body] \in ArchiveShapes
    BY <1>1, <1>2, TopFacts DEF Inside
  <2>2. Inside[Top.next].body \in Content BY <2>1, ExpansionAssumption
  <2>. QED BY <2>2, ExpansionAssumption
<1>4. \/ UNCHANGED <<stack, used>>
      \/ \E x \in Preflight(1, bytes) :
           /\ used' = IF x.owner = None THEN used ELSE ChargedRun(bytes)
           /\ stack' = ChargedOutside(x.owner, bytes)
      \/ /\ Preflight(1, bytes) = {}
         /\ used' = ChargedRun(bytes) /\ stack' = Stepped(ChargedStack(bytes))
  BY DEF StageMember
<1>. HIDE DEF bytes
<1>5. CASE UNCHANGED <<stack, used>>
  BY <1>1, <1>5, ChargedKept
<1>6. CASE \E x \in Preflight(1, bytes) :
           /\ used' = IF x.owner = None THEN used ELSE ChargedRun(bytes)
           /\ stack' = ChargedOutside(x.owner, bytes)
  <2>1. PICK x \in Preflight(1, bytes) :
           /\ used' = IF x.owner = None THEN used ELSE ChargedRun(bytes)
           /\ stack' = ChargedOutside(x.owner, bytes)
    BY <1>6
  <2>2. CASE x.owner # None
    <3>1. /\ Budgeted(stack', used.bytes + bytes)
          /\ used.bytes + bytes <= policy.runBytes /\ used.members + 1 <= policy.partsPerRun
      BY <1>3, <2>1, <2>2, BudgetedOutside
    <3>2. used'.bytes = used.bytes + bytes /\ used'.members = used.members + 1
      BY <2>1, <2>2 DEF ChargedRun
    <3>. QED BY <1>1, <3>1, <3>2, ChargedNext
  <2>3. CASE x.owner = None
    <3>1. /\ SameFrames(stack, stack')
          /\ \A i \in 1 .. Len(stack) :
               stack'[i].spent = IF IsContainer(stack[i]) /\ IsStrictPrefix(stack[i].at, None)
                                   THEN stack[i].spent + bytes ELSE stack[i].spent
      BY <1>2, <1>3, <2>1, <2>3, OutsideKeeps
    <3>2. \A i \in 1 .. Len(stack) : ~IsStrictPrefix(stack[i].at, None)
      <4>1. \A i \in 1 .. Len(stack) : stack[i].at \in Seq(Nat) BY <1>2, StackFacts
      <4>2. Len(<<>>) = 0 /\ <<>> \in Seq(Nat) BY EmptySeq, EmptyNested
      <4>3. \A at \in Seq(Nat) : Len(at) \in Nat /\ (IsStrictPrefix(at, <<>>) => Len(at) < Len(<<>>))
        BY <4>2, LenProperties, StrictPrefixIs
      <4>. QED BY <4>1, <4>2, <4>3 DEF None
    <3>3. SameSpent(stack, stack') BY <3>1, <3>2 DEF SameSpent
    <3>. QED BY <1>1, <2>1, <2>3, <3>1, <3>3, ChargedKept
  <2>. QED BY <2>2, <2>3
<1>7. CASE /\ Preflight(1, bytes) = {}
           /\ used' = ChargedRun(bytes) /\ stack' = Stepped(ChargedStack(bytes))
  BY <1>1, <1>2, <1>3, <1>7, PassedCharged
<1>. QED BY <1>4, <1>5, <1>6, <1>7

\* A leaf of mail is staged, or is too large for its containers or for the run.
LEMMA StageLeafCharged ==
    ASSUME Shaped, Charged, StageLeaf
    PROVE  Charged'
<1>. DEFINE bytes == Size[Leaf.body]
<1>1. AtLeaf /\ Leaf.body # NoBody /\ policy' = policy
  BY DEF StageLeaf
<1>2. stack # <<>> /\ Nested(stack) /\ bytes \in Nat
  BY <1>1, LeafFacts, ExpansionAssumption
<1>3. \/ used' = used /\ \E recs : Deposit(Stepped(stack), recs)
      \/ used' = used /\ stack' = stack
      \/ PayloadLimits(bytes) = {} /\ used' = ChargedRun(bytes) /\ stack' = Stepped(ChargedStack(bytes))
  BY DEF StageLeaf
<1>. HIDE DEF bytes
<1>4. Nested(Stepped(stack)) /\ Budgeted(Stepped(stack), used.bytes)
  <2>1. SameFrames(stack, Stepped(stack)) /\ SameSpent(stack, Stepped(stack)) BY <1>2, SteppedKeeps
  <2>. QED BY <1>2, <2>1, NestedAlike, FramesBudgets, BudgetedSame DEF Charged
<1>5. CASE used' = used /\ \E recs : Deposit(Stepped(stack), recs)
  BY <1>1, <1>4, <1>5, ChargedDeposit
<1>6. CASE used' = used /\ stack' = stack
  BY <1>1, <1>6, ChargedKept
<1>7. CASE PayloadLimits(bytes) = {} /\ used' = ChargedRun(bytes) /\ stack' = Stepped(ChargedStack(bytes))
  <2>1. Preflight(1, bytes) = {} BY <1>7, PayloadPasses
  <2>. QED BY <1>1, <1>2, <1>7, <2>1, PassedCharged
<1>. QED BY <1>3, <1>5, <1>6, <1>7

\* A leaf is passed, or the source file given up.
LEMMA PassLeafCharged ==
    ASSUME Shaped, Charged, PassLeaf
    PROVE  Charged'
<1>1. AtLeaf /\ policy' = policy /\ used' = used /\ Deposit(Stepped(stack), LeafFailure(PartAt))
  BY DEF PassLeaf
<1>2. stack # <<>> /\ Nested(stack)
  BY <1>1, LeafFacts
<1>3. Nested(Stepped(stack)) /\ Budgeted(Stepped(stack), used.bytes)
  <2>1. SameFrames(stack, Stepped(stack)) /\ SameSpent(stack, Stepped(stack)) BY <1>2, SteppedKeeps
  <2>. QED BY <1>2, <2>1, NestedAlike, FramesBudgets, BudgetedSame DEF Charged
<1>. QED BY <1>1, <1>3, ChargedDeposit

\* A source file given up leaves no frame behind.
LEMMA GiveUpSourceCharged ==
    ASSUME Charged, GiveUpSource
    PROVE  Charged'
<1>1. policy' = policy /\ used' = used /\ Deposit(<<>>, {FailureRec(<<todo - 1>>, "unreadable")})
  BY DEF GiveUpSource
<1>. QED BY <1>1, EmptyBudgeted, ChargedDeposit

\* A container is left, with or without its records.
LEMMA LeftCharged ==
    ASSUME Shaped, Charged, stack # <<>>, policy' = policy, used' = used,
           stack' = Below \/ \E recs : Deposit(Below, recs)
    PROVE  Charged'
<1>1. Nested(Below) /\ Budgeted(Below, used.bytes)
  BY NestedBelow, BudgetedBelow DEF Shaped, Charged, Below
<1>. QED BY <1>1, ChargedStill, ChargedDeposit

\* Closing and unwinding take frames off the top of the stack.
LEMMA LeavingCharged ==
    ASSUME Shaped, Charged, CloseContainer \/ CloseMailbox \/ Unwind
    PROVE  Charged'
<1>1. stack # <<>> /\ policy' = policy /\ used' = used
  BY DEF CloseContainer, CloseMailbox, Unwind, AtEnd, InFrame
<1>2. stack' = Below \/ \E recs : Deposit(Below, recs)
  BY DEF CloseContainer, CloseMailbox, Unwind
<1>. QED BY <1>1, <1>2, LeftCharged

\* A blob is kept or a container refused.
LEMMA RecordedCharged ==
    ASSUME Shaped, Charged, NEW x, KeepBlob(x) \/ RefuseContainer(x)
    PROVE  Charged'
<1>1. policy' = policy /\ used' = used /\ \E recs : Deposit(stack, recs)
  BY DEF KeepBlob, RefuseContainer
<1>2. Nested(stack) /\ Budgeted(stack, used.bytes)
  BY DEF Shaped, Charged
<1>. QED BY <1>1, <1>2, ChargedDeposit

\* An archive goes on to its next phase or member, or fails.
LEMMA ArchiveCharged ==
    ASSUME Shaped, Charged,
           UnpackStream \/ ListArchive \/ CheckArchive \/ FailArchive \/ NextMember
    PROVE  Charged'
<1>1. policy' = policy /\ used' = used
  BY DEF UnpackStream, ListArchive, CheckArchive, FailArchive, NextMember
<1>2. stack # <<>> /\ Nested(stack)
  BY DEF UnpackStream, ListArchive, CheckArchive, FailArchive, NextMember, InFrame, Shaped
<1>3. \/ stack' = stack \/ stack' = Stepped(stack)
      \/ \E phase \in {"listing", "extracting", "staging", "parts"} : stack' = Advance(phase)
  BY DEF UnpackStream, ListArchive, CheckArchive, FailArchive, NextMember
<1>4. stack' = stack \/ (SameFrames(stack, stack') /\ SameSpent(stack, stack'))
  BY <1>2, <1>3, SteppedKeeps, AdvanceKeeps
<1>. QED BY <1>1, <1>4, ChargedKept

\* What the threads of an extraction do is charged later, member by member.
LEMMA ExtractionCharged ==
    ASSUME Shaped, Charged, NEW p,
           (\E i : CheckChunk(p, i)) \/ (\E c : WriteChunk(p, c)) \/ EndExtraction(p)
    PROVE  Charged'
<1>1. CASE (\E i : CheckChunk(p, i)) \/ (\E c : WriteChunk(p, c))
  <2>1. policy' = policy /\ used' = used /\ stack' = stack BY <1>1 DEF CheckChunk, WriteChunk
  <2>. QED BY <2>1, ChargedKept
<1>2. CASE EndExtraction(p)
  <2>1. policy' = policy /\ used' = used BY <1>2 DEF EndExtraction
  <2>2. stack # <<>> /\ Nested(stack) BY <1>2 DEF EndExtraction, InFrame, Shaped
  <2>3. stack' = stack \/ stack' = Advance("staging") BY <1>2 DEF EndExtraction
  <2>4. stack' = stack \/ (SameFrames(stack, stack') /\ SameSpent(stack, stack'))
    BY <2>2, <2>3, AdvanceKeeps
  <2>. QED BY <2>1, <2>4, ChargedKept
<1>. QED BY <1>1, <1>2

\* Nothing is charged at first, ...
LEMMA InitCharged == Init => Charged
<1>. SUFFICES ASSUME Init PROVE Charged OBVIOUS
<1>1. stack = <<>> /\ used.members = 0 /\ used.bytes = 0 /\ policy \in Policies
  BY DEF Init, Unused
<1>2. policy.partsPerRun \in Nat /\ policy.runBytes \in Nat
  BY <1>1, PolicyFacts
<1>. QED BY <1>1, <1>2, EmptyBudgeted DEF Charged

\* ... nor after a restart, ...
LEMMA RestartCharged ==
    ASSUME Shaped, Restart
    PROVE  Charged'
<1>1. policy' = policy /\ stack' = <<>> /\ used'.members = 0 /\ used'.bytes = 0 /\ policy \in Policies
  BY DEF Restart, Unused, Shaped
<1>2. policy.partsPerRun \in Nat /\ policy.runBytes \in Nat
  BY <1>1, PolicyFacts
<1>. QED BY <1>1, <1>2, EmptyBudgeted, ChargedNext

\* ... and every step keeps what is charged within its limits.
LEMMA NextCharged ==
    ASSUME Shaped, Charged, [Next]_vars
    PROVE  Charged'
<1>1. CASE \E r \in outgoing : WriteRecord(r)
  <2>1. policy' = policy /\ used' = used /\ stack' = stack BY <1>1 DEF WriteRecord
  <2>. QED BY <2>1, ChargedKept
<1>2. CASE OpenMailbox \/ ReadSource
  BY <1>2, OpenMailboxCharged, ReadSourceCharged
<1>3. CASE \E x \in item : KeepBlob(x) \/ RefuseContainer(x) \/ EnterContainer(x)
  BY <1>3, RecordedCharged, EnterContainerCharged
<1>4. CASE UnpackStream \/ ListArchive
  BY <1>4, ArchiveCharged
<1>5. CASE \E p \in private :
             \/ \E i \in DOMAIN p.written : CheckChunk(p, i)
             \/ \E c \in p.pending : WriteChunk(p, c)
             \/ EndExtraction(p)
  BY <1>5, ExtractionCharged
<1>6. CASE StageMember \/ CheckArchive \/ FailArchive \/ NextMember
  BY <1>6, StageMemberCharged, ArchiveCharged
<1>7. CASE TooManyLeaves \/ PassLeaf \/ StageLeaf \/ GiveUpSource
  <2>1. CASE TooManyLeaves
    <3>1. policy' = policy /\ used' = used /\ stack' = stack BY <2>1 DEF TooManyLeaves
    <3>. QED BY <3>1, ChargedKept
  <2>. QED BY <1>7, <2>1, PassLeafCharged, StageLeafCharged, GiveUpSourceCharged
<1>8. CASE CloseContainer \/ CloseMailbox \/ Unwind
  BY <1>8, LeavingCharged
<1>9. CASE Restart
  BY <1>9, RestartCharged
<1>10. CASE UNCHANGED vars
  <2>1. policy' = policy /\ used' = used /\ stack' = stack BY <1>10 DEF vars
  <2>. QED BY <2>1, ChargedKept
<1>. QED BY <1>1, <1>2, <1>3, <1>4, <1>5, <1>6, <1>7, <1>8, <1>9, <1>10 DEF Next

\* The run and every open container have been charged what was staged inside them and
\* no more than their limits, and a container no more than those around it.
LEMMA ExpansionCharged == Spec => []Charged
<1>1. Shaped /\ Charged /\ [Next]_vars => Charged'
  BY NextCharged
<1>. QED BY ExpansionShaped, InitCharged, <1>1, PTL DEF Spec

\* No limit of the run or of a container is ever exceeded by what was charged, even
\* when a charge for a member stops half-way down the containers around it.
THEOREM ChargesWithinLimits == Spec => []ChargesFit
<1>1. Charged => ChargesFit
  BY DEF Charged, Budgeted, ChargesFit, Containers
<1>. QED BY ExpansionCharged, <1>1, PTL

\* What a container was charged, those around it and the run were charged as well,
\* discarded members and duplicates included.
THEOREM BudgetsInsideBudgets == Spec => []BudgetsNested
<1>1. Charged => BudgetsNested
  BY DEF Charged, Budgeted, BudgetsNested, Containers
<1>. QED BY ExpansionCharged, <1>1, PTL

\* Both at once: no account is overdrawn and none is left out.
THEOREM AccountsKept == Spec => []ChargesAccounted
<1>1. ChargesFit /\ BudgetsNested => ChargesAccounted
  BY DEF ChargesAccounted
<1>. QED BY ChargesWithinLimits, BudgetsInsideBudgets, <1>1, PTL

-----------------------------------------------------------------------------
(***************************************************************************)
(* What an extraction writes before anything of it is charged.             *)
(***************************************************************************)

\* f is the function that Sum evaluates, on 0 .. n.
Adds(f, s, n) == f = [m \in 0 .. n |-> IF m = 0 THEN 0 ELSE f[m - 1] + s[m]]

\* Such a function exists.
LEMMA AddsExists ==
    ASSUME NEW s, NEW n \in Nat
    PROVE  \E f : Adds(f, s, n)
<1>. DEFINE T == {m \in Nat : ~\E f : Adds(f, s, m)}
<1>. SUFFICES ASSUME T # {} PROVE FALSE OBVIOUS
<1>1. PICK m \in T : \A k \in T : m <= k
  <2>1. T \subseteq Nat OBVIOUS
  <2>. HIDE DEF T
  <2>. QED BY <2>1, LeastNumber
<1>2. m \in Nat /\ ~\E f : Adds(f, s, m) OBVIOUS
<1>3. CASE m = 0
  <2>. DEFINE g == [x \in 0 .. m |-> 0]
  <2>1. \A x \in 0 .. m : x = 0 BY <1>3
  <2>2. g = [x \in 0 .. m |-> IF x = 0 THEN 0 ELSE g[x - 1] + s[x]] BY <2>1
  <2>. QED BY <2>2, <1>2 DEF Adds
<1>4. CASE m # 0
  <2>1. m - 1 \in Nat /\ m - 1 \notin T BY <1>1, <1>2, <1>4
  <2>2. PICK f : Adds(f, s, m - 1) BY <2>1
  <2>3. f = [x \in 0 .. m - 1 |-> IF x = 0 THEN 0 ELSE f[x - 1] + s[x]] BY <2>2 DEF Adds
  <2>4. \A x \in 0 .. m - 1 : f[x] = IF x = 0 THEN 0 ELSE f[x - 1] + s[x] BY ONLY <2>3
  <2>. DEFINE h(x) == IF x < m THEN f[x] ELSE f[x - 1] + s[x]
              g == [x \in 0 .. m |-> h(x)]
              r(x) == IF x = 0 THEN 0 ELSE g[x - 1] + s[x]
  <2>5. ASSUME NEW x \in 0 .. m PROVE h(x) = r(x)
    <3>1. CASE x = 0 BY <3>1, <2>4, <1>2, <1>4
    <3>2. CASE x # 0
      <4>1. x - 1 \in 0 .. m /\ x - 1 < m /\ x \in Nat BY <3>2, <1>2
      <4>2. g[x - 1] = f[x - 1] BY <4>1
      <4>. HIDE DEF g
      <4>3. CASE x < m
        <5>1. x \in 0 .. m - 1 BY <4>3, <1>2
        <5>2. f[x] = f[x - 1] + s[x] BY <5>1, <3>2, <2>4
        <5>. QED BY <5>2, <4>2, <4>3, <3>2
      <4>4. CASE ~(x < m) BY <4>2, <4>4, <3>2
      <4>. QED BY <4>3, <4>4
    <3>. QED BY <3>1, <3>2
  <2>6. g = [x \in 0 .. m |-> r(x)]
    <3>. HIDE DEF h, r
    <3>. QED BY <2>5
  <2>7. Adds(g, s, m) BY ONLY <2>6 DEF Adds
  <2>. QED BY <2>7, <1>2
<1>. QED BY <1>3, <1>4

\* Sum is the last of the partial sums.
LEMMA SumFacts ==
    ASSUME NEW s \in Seq(Nat)
    PROVE  \E f : /\ Sum(s) = f[Len(s)] /\ f[0] = 0
                  /\ \A m \in 1 .. Len(s) : f[m] = f[m - 1] + s[m]
<1>1. Len(s) \in Nat BY LenProperties
<1>. DEFINE f == CHOOSE g : Adds(g, s, Len(s))
<1>2. Sum(s) = f[Len(s)] BY DEF Sum, Adds
<1>3. Adds(f, s, Len(s))
  <2>1. \E g : Adds(g, s, Len(s)) BY <1>1, AddsExists
  <2>. QED BY <2>1
<1>. HIDE DEF f
<1>4. f = [m \in 0 .. Len(s) |-> IF m = 0 THEN 0 ELSE f[m - 1] + s[m]] BY <1>3 DEF Adds
<1>5. \A m \in 0 .. Len(s) : f[m] = IF m = 0 THEN 0 ELSE f[m - 1] + s[m] BY ONLY <1>4
<1>6. f[0] = 0 BY <1>1, <1>5
<1>7. \A m \in 1 .. Len(s) : f[m] = f[m - 1] + s[m] BY <1>1, <1>5
<1>. QED BY <1>2, <1>6, <1>7

\* Nothing adds up to nothing.
LEMMA SumZero ==
    ASSUME NEW s \in Seq(Nat), \A i \in DOMAIN s : s[i] = 0
    PROVE  Sum(s) = 0
<1>1. Len(s) \in Nat /\ DOMAIN s = 1 .. Len(s) BY LenProperties
<1>2. PICK f : /\ Sum(s) = f[Len(s)] /\ f[0] = 0
               /\ \A m \in 1 .. Len(s) : f[m] = f[m - 1] + s[m]
  BY SumFacts
<1>. DEFINE T == {m \in 0 .. Len(s) : f[m] # 0}
<1>3. T = {}
  <2>. SUFFICES ASSUME T # {} PROVE FALSE OBVIOUS
  <2>1. PICK m \in T : \A k \in T : m <= k
    <3>1. T \subseteq Nat BY <1>1
    <3>. HIDE DEF T
    <3>. QED BY <3>1, LeastNumber
  <2>2. m \in 0 .. Len(s) /\ f[m] # 0 OBVIOUS
  <2>3. m \in 1 .. Len(s) /\ m - 1 \in 0 .. Len(s) /\ m - 1 \notin T BY <1>1, <1>2, <2>1, <2>2
  <2>4. f[m - 1] = 0 /\ f[m] = f[m - 1] + s[m] /\ s[m] = 0 BY <1>1, <1>2, <2>3
  <2>. QED BY <2>2, <2>4
<1>. QED BY <1>1, <1>2, <1>3

\* One step of two sums that differ in one number.
LEMMA SumStep ==
    ASSUME NEW a \in Nat, NEW x \in Nat, NEW d \in Nat
    PROVE  a + x \in Nat /\ a + (x + d) = (a + x) + d /\ (a + d) + x = (a + x) + d
OBVIOUS

\* A number that grows makes the sum grow by as much.
LEMMA SumGrows ==
    ASSUME NEW s \in Seq(Nat), NEW t \in Seq(Nat), Len(t) = Len(s), NEW k \in DOMAIN s, NEW d \in Nat,
           t[k] = s[k] + d, \A i \in DOMAIN s : i # k => t[i] = s[i]
    PROVE  Sum(t) = Sum(s) + d
<1>1. Len(s) \in Nat /\ DOMAIN s = 1 .. Len(s) /\ \A i \in DOMAIN s : s[i] \in Nat /\ t[i] \in Nat
  BY LenProperties, ElementOfSeq
<1>2. PICK f : /\ Sum(s) = f[Len(s)] /\ f[0] = 0
               /\ \A m \in 1 .. Len(s) : f[m] = f[m - 1] + s[m]
  BY SumFacts
<1>3. PICK g : /\ Sum(t) = g[Len(s)] /\ g[0] = 0
               /\ \A m \in 1 .. Len(s) : g[m] = g[m - 1] + t[m]
  <2>1. \E g : /\ Sum(t) = g[Len(t)] /\ g[0] = 0
               /\ \A m \in 1 .. Len(t) : g[m] = g[m - 1] + t[m]
    BY SumFacts
  <2>. QED BY <2>1
<1>. DEFINE More(m) == f[m] \in Nat /\ g[m] = IF k <= m THEN f[m] + d ELSE f[m]
            T == {m \in 0 .. Len(s) : ~More(m)}
<1>4. \A m \in 0 .. Len(s) : More(m)
  <2>. SUFFICES ASSUME T # {} PROVE FALSE OBVIOUS
  <2>1. PICK m \in T : \A j \in T : m <= j
    <3>1. T \subseteq Nat BY <1>1
    <3>. HIDE DEF T
    <3>. QED BY <3>1, LeastNumber
  <2>2. m \in 0 .. Len(s) /\ ~More(m) OBVIOUS
  <2>3. k \in Nat /\ k # 0 /\ m \in Nat
    <3>. HIDE DEF More, T
    <3>1. k \in 1 .. Len(s) BY <1>1
    <3>2. m \in 0 .. Len(s) BY <2>2
    <3>. QED BY <1>1, <3>1, <3>2
  <2>4. More(0) BY <1>1, <1>2, <1>3, <2>3
  <2>5. m # 0 /\ m \in 1 .. Len(s) /\ m - 1 \in 0 .. Len(s)
    <3>1. m # 0
      <4>. HIDE DEF More
      <4>. QED BY <2>2, <2>4
    <3>. QED BY <1>1, <2>2, <3>1
  <2>6. More(m - 1)
    <3>1. m - 1 \notin T
      <4>. HIDE DEF T
      <4>. QED BY <2>1, <2>3
    <3>. HIDE DEF More
    <3>. QED BY <2>5, <3>1
  <2>7. f[m] = f[m - 1] + s[m] /\ g[m] = g[m - 1] + t[m] /\ s[m] \in Nat BY <1>1, <1>2, <1>3, <2>5
  <2>8. t[m] = IF k = m THEN s[m] + d ELSE s[m] BY <1>1, <2>5
  <2>9. More(m)
    <3>. HIDE DEF T
    <3>1. CASE k = m
      <4>1. ~(k <= m - 1) /\ k <= m BY <2>3, <3>1
      <4>2. f[m - 1] \in Nat /\ g[m - 1] = f[m - 1] BY <2>6, <4>1
      <4>3. f[m] \in Nat /\ g[m] = f[m] + d
        <5>. HIDE DEF More
        <5>1. f[m - 1] + s[m] \in Nat /\ f[m - 1] + (s[m] + d) = (f[m - 1] + s[m]) + d
          BY <2>7, <4>2, SumStep
        <5>2. t[m] = s[m] + d BY <2>8, <3>1
        <5>. QED BY <2>7, <4>2, <5>1, <5>2, Zenon
      <4>. QED BY <4>1, <4>3
    <3>2. CASE k # m
      <4>1. (k <= m - 1 /\ k <= m) \/ (~(k <= m - 1) /\ ~(k <= m))
        <5>. HIDE DEF More
        <5>. QED BY <2>3, <3>2
      <4>2. f[m - 1] \in Nat /\ t[m] = s[m] BY <2>6, <2>8, <3>2
      <4>3. CASE k <= m - 1 /\ k <= m
        <5>1. g[m - 1] = f[m - 1] + d BY <2>6, <4>3
        <5>2. f[m] \in Nat /\ g[m] = f[m] + d
          <6>. HIDE DEF More
          <6>1. f[m - 1] + s[m] \in Nat /\ (f[m - 1] + d) + s[m] = (f[m - 1] + s[m]) + d
            BY <2>7, <4>2, SumStep
          <6>. QED BY <2>7, <4>2, <5>1, <6>1, Zenon
        <5>. QED BY <4>3, <5>2
      <4>4. CASE ~(k <= m - 1) /\ ~(k <= m)
        <5>1. g[m - 1] = f[m - 1] BY <2>6, <4>4
        <5>2. f[m] \in Nat /\ g[m] = f[m]
          <6>. HIDE DEF More
          <6>. QED BY <2>7, <4>2, <5>1, SumStep
        <5>. QED BY <4>4, <5>2
      <4>. QED BY <4>1, <4>3, <4>4
    <3>. QED BY <3>1, <3>2
  <2>. QED BY <2>2, <2>9
<1>5. f[Len(s)] \in Nat /\ g[Len(s)] = f[Len(s)] + d
  <2>1. Len(s) \in 0 .. Len(s) /\ k <= Len(s) BY <1>1
  <2>. QED BY <1>4, <2>1
<1>. QED BY <1>2, <1>3, <1>5
\* What the files of an extraction by one thread hold, and what it is about to add,
\* fits the run and every open container.
Fits(total) ==
    /\ used.bytes + total <= policy.runBytes
    /\ \A i \in Containers : stack[i].spent + total <= policy.containerBytes

Contained(p) ==
    /\ p.observed = Written(p)
    /\ Fits(p.observed)
    /\ \A c \in p.pending :
         /\ p.pending = {c}
         /\ c.total = p.observed + c.bytes
         /\ Fits(c.total)

OneFolder == \A i, j \in DOMAIN Inside : Inside[i].folder = Inside[j].folder

Extracting == stack # <<>> /\ Top.phase = "extracting"

Filled ==
    \A p \in private :
        /\ p.stream <= policy.containerBytes
        /\ Extracting /\ OneFolder => Contained(p)

\* All the members are in one folder if there is one folder.
LEMMA FoldersCounted ==
    ASSUME Shaped, stack # <<>>, Cardinality(Folders) = 1
    PROVE  OneFolder
<1>1. Len(Inside) \in Nat /\ DOMAIN Inside = 1 .. Len(Inside)
  BY TopFacts
<1>. DEFINE f == [i \in 1 .. Len(Inside) |-> Inside[i].folder]
<1>2. f \in Surjection(1 .. Len(Inside), Folders)
  <2>1. Range(Inside) = {Inside[i] : i \in DOMAIN Inside} BY DEF Range
  <2>2. Folders = {Inside[i].folder : i \in 1 .. Len(Inside)} BY <1>1, <2>1 DEF Folders
  <2>. QED BY <2>2 DEF Surjection
<1>3. IsFiniteSet(1 .. Len(Inside))
  BY <1>1, FS_Interval
<1>4. IsFiniteSet(Folders)
  <2>. HIDE DEF f
  <2>. QED BY <1>2, <1>3, FS_Surjection
<1>5. PICK x : Folders = {x}
  BY <1>4, FS_Singleton
<1>6. \A i \in DOMAIN Inside : Inside[i].folder \in Folders
  BY DEF Folders, Range
<1>. QED BY <1>5, <1>6 DEF OneFolder

\* Files that are as they were, of an archive whose frame is as it was or no longer
\* extracting, and files that are gone.
LEMMA FilledStill ==
    ASSUME Filled, policy' = policy, private' \subseteq private,
           \/ private' = {}
           \/ ~Extracting'
           \/ stack' = stack /\ used' = used
    PROVE  Filled'
<1>1. CASE private' = {} \/ ~Extracting'
  <2>1. \A p \in private : p.stream <= policy.containerBytes BY DEF Filled
  <2>2. \A p \in private' : p.stream <= policy'.containerBytes BY <2>1
  <2>. QED BY <1>1, <2>2 DEF Filled
<1>2. CASE stack' = stack /\ used' = used
  <2>1. (Extracting' <=> Extracting) /\ (OneFolder' <=> OneFolder)
    BY <1>2 DEF Extracting, OneFolder, Top, Inside
  <2>2. ASSUME NEW p \in private', Extracting', OneFolder' PROVE Contained(p)'
    <3>1. Contained(p) BY <2>1, <2>2 DEF Filled
    <3>. QED BY <1>2, <3>1 DEF Contained, Fits, Containers, Written
  <2>3. \A p \in private' : p.stream <= policy'.containerBytes BY DEF Filled
  <2>. QED BY <2>2, <2>3 DEF Filled
<1>. QED BY <1>1, <1>2

\* Nothing was written yet and nothing is left over the limits.
LEMMA NothingFits ==
    ASSUME Shaped, Charged
    PROVE  Fits(0)
<1>1. /\ used.bytes \in Nat /\ policy.runBytes \in Nat /\ policy.containerBytes \in Nat
      /\ \A i \in DOMAIN stack : stack[i].spent \in Nat
  BY PolicyFacts, SpentTyped DEF Shaped
<1>2. used.bytes <= policy.runBytes
  BY DEF Charged
<1>3. \A i \in Containers : i \in DOMAIN stack /\ stack[i].spent <= policy.containerBytes
  BY DEF Charged, Budgeted, Containers
<1>4. used.bytes + 0 <= policy.runBytes
  BY <1>1, <1>2
<1>5. \A i \in Containers : stack[i].spent + 0 <= policy.containerBytes
  BY <1>1, <1>3
<1>. QED BY <1>4, <1>5 DEF Fits

\* What the limits let pass fits.
LEMMA ObservedFits ==
    ASSUME Shaped, NEW total \in Nat, ObservedLimits(total) = {}
    PROVE  Fits(total)
<1>1. Nested(stack) /\ Preflight(0, total) = {}
  BY DEF Shaped, ObservedLimits
<1>2. ~(used.bytes + total > policy.runBytes) /\ Overrun(total) = {}
  BY <1>1, PreflightPasses
<1>3. /\ used.bytes \in Nat /\ policy.runBytes \in Nat /\ policy.containerBytes \in Nat
      /\ \A i \in DOMAIN stack : stack[i].spent \in Nat
  BY PolicyFacts, SpentTyped DEF Shaped
<1>4. used.bytes + total <= policy.runBytes
  BY <1>2, <1>3
<1>5. ASSUME NEW i \in Containers
      PROVE  stack[i].spent + total <= policy.containerBytes
  <2>1. ~(stack[i].spent + total > policy.containerBytes) BY <1>2, <1>5 DEF Overrun, Budgets
  <2>2. stack[i].spent \in Nat BY <1>3, <1>5 DEF Containers
  <2>. QED BY <1>3, <2>1, <2>2
<1>. QED BY <1>4, <1>5 DEF Fits
\* A stream is unpacked as far as a container may hold.
LEMMA UnpackStreamFilled ==
    ASSUME Shaped, Filled, UnpackStream
    PROVE  Filled'
<1>1. /\ InFrame({"archive"}, "unpacking")
      /\ UNCHANGED <<source, policy, todo, item, used, outgoing, journal, mishaps>>
  BY DEF UnpackStream
<1>2. CASE private' = {}
  BY <1>1, <1>2, FilledStill
<1>3. CASE /\ Unrolled[Top.body] <= policy.containerBytes
           /\ stack' = Advance("listing")
           /\ private' = {[NoFiles EXCEPT !.stream = Unrolled[Top.body]]}
  <2>1. stack # <<>> /\ Nested(stack) BY <1>1 DEF InFrame, Shaped
  <2>2. SameFrames(stack, stack') /\ stack'[Len(stack)].phase = "listing"
    BY <1>3, <2>1, AdvanceKeeps
  <2>3. ~Extracting' BY <2>1, <2>2 DEF Extracting, Top, Last, SameFrames
  <2>4. [NoFiles EXCEPT !.stream = Unrolled[Top.body]].stream = Unrolled[Top.body] BY DEF NoFiles
  <2>. QED BY <1>1, <1>3, <2>3, <2>4 DEF Filled
<1>4. \/ private' = {}
      \/ /\ Unrolled[Top.body] <= policy.containerBytes
         /\ stack' = Advance("listing")
         /\ private' = {[NoFiles EXCEPT !.stream = Unrolled[Top.body]]}
  BY DEF UnpackStream, FailMembers, RemovePrivate
<1>. QED BY <1>2, <1>3, <1>4

\* An extraction begins with empty files.
LEMMA ListArchiveFilled ==
    ASSUME Shaped, Charged, Filled, ListArchive
    PROVE  Filled'
<1>1. /\ policy' = policy /\ used' = used /\ InFrame({"archive"}, "listing")
      /\ stack # <<>> /\ Nested(stack)
  BY DEF ListArchive, InFrame, Shaped
<1>2. CASE private' = {}
  BY <1>1, <1>2, FilledStill
<1>3. CASE stack' = Advance("staging") /\ private' = private
  <2>1. SameFrames(stack, stack') /\ stack'[Len(stack)].phase = "staging"
    BY <1>1, <1>3, AdvanceKeeps
  <2>2. ~Extracting' BY <1>1, <2>1 DEF Extracting, Top, Last, SameFrames
  <2>. QED BY <1>1, <1>3, <2>2, FilledStill
<1>4. CASE /\ stack' = Advance("extracting")
           /\ private' = {[NoFiles EXCEPT !.written = [i \in DOMAIN Inside |-> 0]]}
  <2>. DEFINE zeros == [i \in DOMAIN Inside |-> 0]
  <2>1. zeros \in Seq(Nat) /\ \A i \in DOMAIN zeros : zeros[i] = 0
    <3>1. Len(Inside) \in Nat /\ DOMAIN Inside = 1 .. Len(Inside) BY <1>1, TopFacts
    <3>2. zeros \in [1 .. Len(Inside) -> Nat] BY <3>1
    <3>3. zeros \in Seq(Nat)
      <4>. HIDE DEF zeros
      <4>. QED BY <3>1, <3>2, FunctionSeq
    <3>. QED BY <3>3
  <2>2. PICK p : p = [NoFiles EXCEPT !.written = zeros] OBVIOUS
  <2>3. p.written = zeros /\ p.observed = 0 /\ p.stream = 0 /\ p.pending = {} BY <2>2 DEF NoFiles
  <2>. HIDE DEF zeros
  <2>4. Written(p) = 0 BY <2>1, <2>3, SumZero DEF Written
  <2>5. SameFrames(stack, stack') /\ SameSpent(stack, stack') BY <1>1, <1>4, AdvanceKeeps
  <2>6. Fits(0) BY NothingFits
  <2>7. Fits(0)'
    <3>1. /\ DOMAIN stack = 1 .. Len(stack) /\ DOMAIN stack' = DOMAIN stack
          /\ \A i \in DOMAIN stack : stack'[i].kind = stack[i].kind /\ stack'[i].spent = stack[i].spent
      BY <1>1, <2>5, SameTwice, StackFacts, LenProperties DEF SameFrames, SameSpent, Alike
    <3>2. Containers' = Containers BY <3>1 DEF Containers, IsContainer
    <3>3. \A i \in Containers : i \in DOMAIN stack BY DEF Containers
    <3>. QED BY <1>1, <2>6, <3>1, <3>2, <3>3 DEF Fits
  <2>8. 0 <= policy.containerBytes BY PolicyFacts DEF Shaped
  <2>9. private' = {p} BY <1>4, <2>2 DEF zeros
  <2>10. Contained(p)' BY <2>3, <2>4, <2>7 DEF Contained, Written
  <2>. QED BY <1>1, <2>3, <2>8, <2>9, <2>10 DEF Filled
<1>. QED BY <1>2, <1>3, <1>4 DEF ListArchive, FailMembers, RemovePrivate

\* Files of which the part that counts is as before.
LEMMA ContainedAs ==
    ASSUME NEW p, NEW q, Contained(p), q.written = p.written, q.observed = p.observed, q.pending = p.pending,
           policy' = policy, stack' = stack, used' = used
    PROVE  Contained(q)'
BY DEF Contained, Fits, Containers, Written

\* A chunk that is checked fits.
LEMMA CheckChunkFilled ==
    ASSUME Shaped, Filled, NEW p \in private, NEW i \in DOMAIN p.written, CheckChunk(p, i)
    PROVE  Filled'
<1>1. /\ InFrame({"archive"}, "extracting") /\ MayWrite(p, i)
      /\ policy' = policy /\ stack' = stack /\ used' = used
  BY DEF CheckChunk
<1>2. /\ Extracted(p) /\ p \in PrivateType /\ stack # <<>> /\ private = {p}
      /\ DOMAIN p.written = 1 .. Len(p.written) /\ p.observed \in Nat
      /\ p.pending \subseteq [part : Nat \ {0}, bytes : Nat, total : Nat]
  BY HandFacts
<1>3. Extracting /\ (Extracting' <=> Extracting) /\ (OneFolder' <=> OneFolder)
  BY <1>1 DEF InFrame, Extracting, OneFolder, Top, Inside
<1>4. p.stream <= policy.containerBytes /\ (OneFolder => Contained(p))
  BY <1>3 DEF Filled
<1>5. ASSUME NEW x, StopFolder(p, i, x)
      PROVE  Filled'
  <2>. DEFINE files == [p EXCEPT !.stopped = @ \cup {Inside[i].folder},
                                 !.fault = IF @ = {} THEN {x} ELSE @]
  <2>1. /\ files.written = p.written /\ files.observed = p.observed /\ files.pending = p.pending
        /\ files.stream = p.stream
    BY <1>2 DEF PrivateType
  <2>2. private' = {files} BY <1>5 DEF StopFolder
  <2>. HIDE DEF files
  <2>3. PICK q : /\ private' = {q} /\ q.stream = p.stream
                 /\ q.written = p.written /\ q.observed = p.observed /\ q.pending = p.pending
    BY <2>1, <2>2
  <2>4. OneFolder' => Contained(q)' BY <1>1, <1>3, <1>4, <2>3, ContainedAs
  <2>. QED BY <1>1, <1>4, <2>3, <2>4 DEF Filled
<1>6. ASSUME NEW n \in 1 .. Size[Inside[i].body] - p.written[i], ObservedLimits(p.observed + n) = {},
             private' = {[p EXCEPT !.pending =
                            @ \cup {[part |-> i, bytes |-> n, total |-> p.observed + n]}]}
      PROVE  Filled'
  <2>1. n \in Nat /\ p.observed + n \in Nat
    <3>1. n \in Nat OBVIOUS
    <3>. QED BY <1>2, <3>1
  <2>2. PICK c : c = [part |-> i, bytes |-> n, total |-> p.observed + n] OBVIOUS
  <2>3. c.bytes = n /\ c.total = p.observed + c.bytes BY <2>2
  <2>4. PICK q : q = [p EXCEPT !.pending = @ \cup {c}] OBVIOUS
  <2>5. /\ q.written = p.written /\ q.observed = p.observed /\ q.pending = p.pending \cup {c}
        /\ q.stream = p.stream
    BY <1>2, <2>4 DEF PrivateType
  <2>6. private' = {q} BY <1>6, <2>2, <2>4
  <2>7. Fits(p.observed + n) BY <1>6, <2>1, ObservedFits
  <2>8. ASSUME OneFolder PROVE p.pending = {}
    <3>1. Len(p.written) = Len(Inside) /\ \A d \in p.pending : d.part \in DOMAIN p.written
      BY <1>2, <1>3 DEF Extracted, Extracting
    <3>2. DOMAIN Inside = 1 .. Len(Inside) BY <1>2, TopFacts
    <3>3. i \in DOMAIN Inside /\ \A d \in p.pending : d.part \in DOMAIN Inside BY <1>2, <3>1, <3>2
    <3>4. \A d \in p.pending : Inside[d.part].folder = Inside[i].folder BY <2>8, <3>3 DEF OneFolder
    <3>. QED BY <1>1, <3>4 DEF MayWrite
  <2>9. ASSUME OneFolder PROVE Contained(q)'
    <3>1. p.pending = {} /\ Contained(p) BY <1>4, <2>8, <2>9
    <3>2. q.pending = {c} BY <2>5, <3>1
    <3>3. Fits(p.observed) /\ p.observed = Written(p) BY <3>1 DEF Contained
    <3>4. Fits(p.observed)' BY <1>1, <3>3 DEF Fits, Containers
    <3>5. c.total = p.observed + n BY <2>3
    <3>6. Fits(p.observed + n)' BY <1>1, <2>7 DEF Fits, Containers
    <3>7. Fits(c.total)' BY <3>5, <3>6 DEF Fits
    <3>. QED BY <2>3, <2>5, <3>2, <3>3, <3>4, <3>7 DEF Contained, Written
  <2>. QED BY <1>1, <1>3, <1>4, <2>5, <2>6, <2>9 DEF Filled
<1>. QED BY <1>5, <1>6 DEF CheckChunk

\* A chunk that is written makes the files hold what was checked.
LEMMA WriteChunkFilled ==
    ASSUME Shaped, Filled, NEW p \in private, NEW c \in p.pending, WriteChunk(p, c)
    PROVE  Filled'
<1>1. policy' = policy /\ stack' = stack /\ used' = used
  BY DEF WriteChunk
<1>2. /\ Extracted(p) /\ p \in PrivateType
      /\ p.written \in Seq(Nat) /\ DOMAIN p.written = 1 .. Len(p.written)
      /\ \A i \in DOMAIN p.written : p.written[i] \in Nat
      /\ p.pending \subseteq [part : Nat \ {0}, bytes : Nat, total : Nat]
  BY HandFacts
<1>3. c \in [part : Nat \ {0}, bytes : Nat, total : Nat] /\ c.part \in DOMAIN p.written
  BY <1>2 DEF Extracted
<1>4. c.bytes \in Nat /\ p.written[c.part] + c.bytes \in Nat
  BY <1>2, <1>3
<1>. DEFINE w == [p.written EXCEPT ![c.part] = @ + c.bytes]
<1>5. w \in Seq(Nat) /\ Len(w) = Len(p.written)
  BY <1>2, <1>3, <1>4, ExceptSeq
<1>6. w[c.part] = p.written[c.part] + c.bytes /\ \A k \in DOMAIN p.written : k # c.part => w[k] = p.written[k]
  BY <1>3
<1>7. PICK q : q = [p EXCEPT !.pending = @ \ {c}, !.observed = c.total,
                             !.written[c.part] = @ + c.bytes]
  OBVIOUS
<1>8. q = [p EXCEPT !.pending = p.pending \ {c}, !.observed = c.total, !.written = w]
  BY <1>2, <1>7 DEF PrivateType
<1>. HIDE DEF w
<1>9. /\ q.written = w /\ q.pending = p.pending \ {c} /\ q.observed = c.total /\ q.stream = p.stream
  BY <1>2, <1>8 DEF PrivateType
<1>10. private' = {q}
  BY <1>7 DEF WriteChunk
<1>11. (Extracting' <=> Extracting) /\ (OneFolder' <=> OneFolder)
  BY <1>1 DEF Extracting, OneFolder, Top, Inside
<1>12. p.stream <= policy.containerBytes /\ (Extracting /\ OneFolder => Contained(p))
  BY DEF Filled
<1>13. ASSUME Contained(p) PROVE Contained(q)'
  <2>1. /\ p.observed = Sum(p.written) /\ p.pending = {c} /\ c.total = p.observed + c.bytes
        /\ Fits(c.total)
    BY <1>13 DEF Contained, Written
  <2>2. Sum(w) = Sum(p.written) + c.bytes
    BY ONLY <1>2, <1>3, <1>4, <1>5, <1>6, SumGrows
  <2>3. q.observed = Sum(q.written) /\ q.pending = {} BY <1>9, <2>1, <2>2
  <2>4. Fits(q.observed) BY <1>9, <2>1
  <2>5. Fits(q.observed)' BY <1>1, <2>4 DEF Fits, Containers
  <2>. QED BY <2>3, <2>5 DEF Contained, Written
<1>. QED BY <1>1, <1>9, <1>10, <1>11, <1>12, <1>13 DEF Filled

\* An extraction that ends leaves its files to be staged, or none.
LEMMA EndExtractionFilled ==
    ASSUME Shaped, Filled, NEW p, EndExtraction(p)
    PROVE  Filled'
<1>1. policy' = policy /\ stack # <<>> /\ Nested(stack)
  BY DEF EndExtraction, InFrame, Shaped
<1>2. CASE private' = {}
  BY <1>1, <1>2, FilledStill
<1>3. CASE stack' = Advance("staging") /\ private' = private
  <2>1. SameFrames(stack, stack') /\ stack'[Len(stack)].phase = "staging"
    BY <1>1, <1>3, AdvanceKeeps
  <2>2. ~Extracting' BY <1>1, <2>1 DEF Extracting, Top, Last, SameFrames
  <2>. QED BY <1>1, <1>3, <2>2, FilledStill
<1>. QED BY <1>2, <1>3 DEF EndExtraction, FailMembers, RemovePrivate
\* A member that is staged, and the end of the archive, come after the extraction.
LEMMA StagingFilled ==
    ASSUME Shaped, Filled, StageMember \/ CheckArchive \/ FailArchive
    PROVE  Filled'
<1>1. policy' = policy
  BY DEF StageMember, CheckArchive, FailArchive
<1>2. private' = {} \/ (StageMember /\ private' = private)
  BY DEF StageMember, CheckArchive, FailArchive, FailMembers, RemovePrivate
<1>3. CASE private' = {}
  BY <1>1, <1>3, FilledStill
<1>4. CASE StageMember /\ private' = private /\ private' # {}
  <2>1. stack # <<>> /\ Nested(stack) /\ Top.phase = "staging"
    BY <1>4 DEF StageMember, InFrame, Shaped
  <2>2. stack' = Stepped(ChargedStack(Size[Inside[Top.next].body]))
    BY <1>4 DEF StageMember, FailMembers, RemovePrivate
  <2>3. Size[Inside[Top.next].body] \in Nat
    <3>1. Top.next <= Len(Inside) /\ Top.kind = "archive" BY <1>4 DEF StageMember, InFrame
    <3>2. /\ Top.next \in DOMAIN Inside /\ Inside = Parts[Top.body] /\ Top.body \in Content
          /\ Shape[Top.body] \in ArchiveShapes
      BY <2>1, <3>1, TopFacts DEF Inside
    <3>3. Inside[Top.next].body \in Content BY <3>2, ExpansionAssumption
    <3>. QED BY <3>3, ExpansionAssumption
  <2>4. SameFrames(stack, stack') /\ stack'[Len(stack)].phase = stack[Len(stack)].phase
    BY <2>1, <2>2, <2>3, PassedOn
  <2>5. ~Extracting'
    <3>1. Top = stack[Len(stack)] BY <2>1, TopFacts
    <3>2. Len(stack') = Len(stack) BY <2>4 DEF SameFrames
    <3>. QED BY <2>1, <2>4, <3>1, <3>2 DEF Extracting, Top, Last
  <2>. QED BY <1>1, <1>4, <2>5, FilledStill
<1>. QED BY <1>2, <1>3, <1>4

\* Private files are there only while members() works.
LEMMA NoneElsewhere ==
    ASSUME Shaped, stack = <<>> \/ item # {} \/ failing # {} \/ Top.phase = "parts"
    PROVE  private = {}
BY PrivateFacts DEF Staging

\* Whatever a step does, what an extraction by one thread has written fits.
LEMMA NextFilled ==
    ASSUME Shaped, Charged, Filled, [Next]_vars
    PROVE  Filled'
<1>1. CASE \E r \in outgoing : WriteRecord(r)
  <2>1. policy' = policy /\ private' = private /\ used' = used /\ stack' = stack
    BY <1>1 DEF WriteRecord
  <2>. QED BY <2>1, FilledStill
<1>2. CASE OpenMailbox \/ ReadSource
  <2>1. policy' = policy /\ private' = private /\ stack = <<>>
    BY <1>2 DEF OpenMailbox, ReadSource, AtSource
  <2>. QED BY <2>1, NoneElsewhere, FilledStill
<1>3. CASE \E x \in item : KeepBlob(x) \/ RefuseContainer(x) \/ EnterContainer(x)
  <2>1. policy' = policy /\ private' = private /\ item # {}
    BY <1>3 DEF KeepBlob, RefuseContainer, EnterContainer
  <2>. QED BY <2>1, NoneElsewhere, FilledStill
<1>4. CASE UnpackStream \/ ListArchive
  BY <1>4, UnpackStreamFilled, ListArchiveFilled
<1>5. CASE \E p \in private :
             \/ \E i \in DOMAIN p.written : CheckChunk(p, i)
             \/ \E c \in p.pending : WriteChunk(p, c)
             \/ EndExtraction(p)
  BY <1>5, CheckChunkFilled, WriteChunkFilled, EndExtractionFilled
<1>6. CASE StageMember \/ CheckArchive \/ FailArchive
  BY <1>6, StagingFilled
<1>7. CASE NextMember \/ TooManyLeaves \/ PassLeaf \/ StageLeaf \/ CloseContainer \/ CloseMailbox
  <2>1. policy' = policy /\ private' = private
    BY <1>7 DEF NextMember, TooManyLeaves, PassLeaf, StageLeaf, CloseContainer, CloseMailbox
  <2>2. Top.phase = "parts"
    BY <1>7 DEF NextMember, TooManyLeaves, PassLeaf, StageLeaf, CloseContainer, CloseMailbox,
                AtLeaf, AtEnd, InFrame
  <2>. QED BY <2>1, <2>2, NoneElsewhere, FilledStill
<1>8. CASE GiveUpSource
  <2>1. policy' = policy /\ private' = private BY <1>8 DEF GiveUpSource
  <2>2. Top.phase = "parts" \/ item # {} BY <1>8 DEF GiveUpSource, AtLeaf, InFrame
  <2>. QED BY <2>1, <2>2, NoneElsewhere, FilledStill
<1>9. CASE Unwind
  <2>1. policy' = policy /\ private' = private /\ failing # {} BY <1>9 DEF Unwind
  <2>. QED BY <2>1, NoneElsewhere, FilledStill
<1>10. CASE Restart
  <2>1. policy' = policy /\ private' = {} BY <1>10 DEF Restart
  <2>. QED BY <2>1, FilledStill
<1>11. CASE UNCHANGED vars
  <2>1. policy' = policy /\ private' = private /\ used' = used /\ stack' = stack
    BY <1>11 DEF vars
  <2>. QED BY <2>1, FilledStill
<1>. QED BY <1>1, <1>2, <1>3, <1>4, <1>5, <1>6, <1>7, <1>8, <1>9, <1>10, <1>11 DEF Next

\* A thread that extracts on its own never writes more than the run and every container
\* around it have left, although nothing is charged before all is written; an
\* unpacked stream fits a container (_BoundedWriter, _open_tar).
THEOREM PrivateFilesBounded == Spec => []PrivateBounded
<1>1. Init => Filled
  BY DEF Init, Filled
<1>2. Shaped /\ Charged /\ Filled /\ [Next]_vars => Filled'
  BY NextFilled
<1>3. Shaped /\ Filled => PrivateBounded
  <2>. SUFFICES ASSUME Shaped, Filled, NEW p \in private
                PROVE  /\ p.stream <= policy.containerBytes
                       /\ Top.phase = "extracting" /\ Cardinality(Folders) = 1 =>
                            /\ used.bytes + Written(p) <= policy.runBytes
                            /\ \A i \in Containers : stack[i].spent + Written(p) <= policy.containerBytes
    BY DEF PrivateBounded
  <2>1. stack # <<>> BY HandFacts
  <2>2. p.stream <= policy.containerBytes BY DEF Filled
  <2>3. ASSUME Top.phase = "extracting", Cardinality(Folders) = 1 PROVE Fits(Written(p))
    <3>1. Extracting /\ OneFolder BY <2>1, <2>3, FoldersCounted DEF Extracting
    <3>2. Fits(p.observed) /\ p.observed = Written(p) BY <3>1 DEF Filled, Contained
    <3>. QED BY <3>2
  <2>. QED BY <2>2, <2>3 DEF Fits
<1>. QED BY ExpansionShaped, ExpansionCharged, <1>1, <1>2, <1>3, PTL DEF Spec
=============================================================================
