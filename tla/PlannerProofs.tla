---------------------------- MODULE PlannerProofs ---------------------------
(***************************************************************************)
(* The names given to a run's records, for any number of records and any   *)
(* texts, safe texts and folded texts.                                     *)
(***************************************************************************)
EXTENDS Planner, SequenceLemmas

-----------------------------------------------------------------------------
\* Names.

\* What safe_component and collision_key make of a name is a name.
LEMMA NameTypes ==
    ASSUME NEW n \in Name
    PROVE  Key(n) \in Name /\ Safe(n) \in Name
BY PlannerAssumption DEF Name, Key, Safe

\* A candidate is a name.
LEMMA CandidateType ==
    ASSUME NEW n \in Name, NEW k \in Nat
    PROVE  Candidate(n, k) \in Name
<1>1. n.suffixes \in Seq(Nat) BY DEF Name
<1>2. Append(n.suffixes, k) \in Seq(Nat) BY <1>1, AppendProperties
<1>. QED BY <1>2 DEF Name, Candidate, Suffixed

\* A suffix is added to the folded name as it is to the name.
LEMMA KeyOfCandidate ==
    ASSUME NEW n \in Name, NEW k \in Nat
    PROVE  Key(Candidate(n, k)) = Candidate(Key(n), k)
BY PlannerAssumption DEF Name, Key, Candidate, Suffixed

\* A candidate says which suffix it was given.
LEMMA SuffixOfCandidate ==
    ASSUME NEW n \in Name, NEW j \in Nat, NEW k \in Nat, Candidate(n, j) = Suffixed(n, k)
    PROVE  j = k
<1>1. n.suffixes \in Seq(Nat) /\ Len(n.suffixes) \in Nat BY LenProperties DEF Name
<1>2. /\ Len(Append(n.suffixes, k)) = Len(n.suffixes) + 1
      /\ Append(n.suffixes, k)[Len(n.suffixes) + 1] = k
  BY <1>1, AppendProperties
<1>3. /\ Len(Append(n.suffixes, j)) = Len(n.suffixes) + 1
      /\ Append(n.suffixes, j)[Len(n.suffixes) + 1] = j
  BY <1>1, AppendProperties
<1>4. Suffixed(n, k).suffixes = Append(n.suffixes, k) BY DEF Suffixed, Name
<1>5. j # 0
  <2>. SUFFICES ASSUME j = 0 PROVE FALSE OBVIOUS
  <2>1. n.suffixes = Append(n.suffixes, k) BY <1>4 DEF Candidate
  <2>. QED BY <2>1, <1>1, <1>2
<1>6. Suffixed(n, j).suffixes = Append(n.suffixes, j) BY DEF Suffixed, Name
<1>7. Append(n.suffixes, j) = Append(n.suffixes, k) BY <1>4, <1>5, <1>6 DEF Candidate
<1>. QED BY <1>2, <1>3, <1>7

\* Folding keeps the shape of a path.
LEMMA DirKeyType ==
    ASSUME NEW path \in Seq(Name)
    PROVE  /\ DirKey(path) \in Seq(Name)
           /\ Len(DirKey(path)) = Len(path)
           /\ \A i \in 1 .. Len(path) : DirKey(path)[i] = Key(path[i])
<1>1. DOMAIN path = 1 .. Len(path) /\ Len(path) \in Nat BY LenProperties
<1>2. \A i \in 1 .. Len(path) : Key(path[i]) \in Name BY ElementOfSeq, NameTypes
<1>3. DirKey(path) \in [1 .. Len(path) -> Name] BY <1>1, <1>2 DEF DirKey
<1>4. \A i \in 1 .. Len(path) : DirKey(path)[i] = Key(path[i]) BY <1>1 DEF DirKey
<1>. HIDE DEF DirKey
<1>5. DirKey(path) \in Seq(Name) /\ Len(DirKey(path)) = Len(path) BY <1>1, <1>3, FunctionSeq
<1>. QED BY <1>4, <1>5

\* A path is folded a component at a time.
LEMMA DirKeyAppend ==
    ASSUME NEW path \in Seq(Name), NEW n \in Name
    PROVE  DirKey(Append(path, n)) = Append(DirKey(path), Key(n))
<1>1. Key(n) \in Name /\ Len(path) \in Nat BY NameTypes, LenProperties
<1>2. /\ Append(path, n) \in Seq(Name) /\ Len(Append(path, n)) = Len(path) + 1
      /\ Append(path, n)[Len(path) + 1] = n
      /\ \A i \in 1 .. Len(path) : Append(path, n)[i] = path[i]
  BY AppendProperties
<1>3. /\ DirKey(path) \in Seq(Name) /\ Len(DirKey(path)) = Len(path)
      /\ \A i \in 1 .. Len(path) : DirKey(path)[i] = Key(path[i])
  BY DirKeyType
<1>4. /\ DirKey(Append(path, n)) \in Seq(Name)
      /\ Len(DirKey(Append(path, n))) = Len(path) + 1
      /\ \A i \in 1 .. Len(path) + 1 : DirKey(Append(path, n))[i] = Key(Append(path, n)[i])
  <2>. DEFINE longer == Append(path, n)
  <2>1. longer \in Seq(Name) /\ Len(longer) = Len(path) + 1 BY <1>2
  <2>. HIDE DEF longer
  <2>2. /\ DirKey(longer) \in Seq(Name) /\ Len(DirKey(longer)) = Len(longer)
        /\ \A i \in 1 .. Len(longer) : DirKey(longer)[i] = Key(longer[i])
    BY <2>1, DirKeyType
  <2>. QED BY <2>1, <2>2 DEF longer
<1>5. /\ Append(DirKey(path), Key(n)) \in Seq(Name)
      /\ Len(Append(DirKey(path), Key(n))) = Len(path) + 1
      /\ Append(DirKey(path), Key(n))[Len(path) + 1] = Key(n)
      /\ \A i \in 1 .. Len(path) : Append(DirKey(path), Key(n))[i] = DirKey(path)[i]
  BY <1>1, <1>3, AppendProperties
<1>6. ASSUME NEW i \in 1 .. Len(path) + 1
      PROVE  DirKey(Append(path, n))[i] = Append(DirKey(path), Key(n))[i]
  <2>1. CASE i \in 1 .. Len(path) BY <2>1, <1>2, <1>3, <1>4, <1>5
  <2>2. CASE i = Len(path) + 1 BY <2>2, <1>2, <1>4, <1>5
  <2>3. i \in 1 .. Len(path) \/ i = Len(path) + 1 BY <1>1
  <2>. QED BY <2>1, <2>2, <2>3
<1>. QED BY <1>4, <1>5, <1>6, SeqEqual

-----------------------------------------------------------------------------
\* Without and Parts.

\* Below: kept is the function that Without evaluates, on 0 .. n.
Keeps(kept, name, path, n) ==
    kept = [m \in 0 .. n |->
              IF m = 0 THEN <<>>
              ELSE IF path[m] = name THEN kept[m - 1] ELSE Append(kept[m - 1], path[m])]

\* Such a function exists.
LEMMA KeepsExists ==
    ASSUME NEW name, NEW path, NEW n \in Nat
    PROVE  \E kept : Keeps(kept, name, path, n)
<1>. DEFINE T == {m \in Nat : ~\E kept : Keeps(kept, name, path, m)}
<1>. SUFFICES ASSUME T # {} PROVE FALSE OBVIOUS
<1>1. PICK m \in T : \A k \in T : m <= k
  <2>1. T \subseteq Nat OBVIOUS
  <2>. HIDE DEF T
  <2>. QED BY <2>1, LeastNumber
<1>2. m \in Nat /\ ~\E kept : Keeps(kept, name, path, m) OBVIOUS
<1>3. CASE m = 0
  <2>. DEFINE g == [x \in 0 .. m |-> <<>>]
  <2>1. \A x \in 0 .. m : x = 0 BY <1>3
  <2>2. g = [x \in 0 .. m |->
              IF x = 0 THEN <<>>
              ELSE IF path[x] = name THEN g[x - 1] ELSE Append(g[x - 1], path[x])]
    BY <2>1
  <2>. QED BY <2>2, <1>2 DEF Keeps
<1>4. CASE m # 0
  <2>1. m - 1 \in Nat /\ m - 1 \notin T BY <1>1, <1>2, <1>4
  <2>2. PICK f : Keeps(f, name, path, m - 1) BY <2>1
  <2>3. /\ f = [x \in 0 .. m - 1 |->
              IF x = 0 THEN <<>>
              ELSE IF path[x] = name THEN f[x - 1] ELSE Append(f[x - 1], path[x])]
    BY <2>2 DEF Keeps
  <2>4. \A x \in 0 .. m - 1 : f[x] =
              IF x = 0 THEN <<>>
              ELSE IF path[x] = name THEN f[x - 1] ELSE Append(f[x - 1], path[x])
    BY ONLY <2>3
  <2>. DEFINE h(x) == IF x < m THEN f[x]
                      ELSE IF path[x] = name THEN f[x - 1] ELSE Append(f[x - 1], path[x])
              g == [x \in 0 .. m |-> h(x)]
              r(x) == IF x = 0 THEN <<>>
                      ELSE IF path[x] = name THEN g[x - 1] ELSE Append(g[x - 1], path[x])
  <2>5. ASSUME NEW x \in 0 .. m PROVE h(x) = r(x)
    <3>1. CASE x = 0 BY <3>1, <2>4, <1>2, <1>4
    <3>2. CASE x # 0
      <4>1. x - 1 \in 0 .. m /\ x - 1 < m /\ x \in Nat BY <3>2, <1>2
      <4>2. g[x - 1] = f[x - 1] BY <4>1
      <4>. HIDE DEF g
      <4>3. CASE x < m
        <5>1. x \in 0 .. m - 1 BY <4>3, <1>2
        <5>2. f[x] = IF path[x] = name THEN f[x - 1] ELSE Append(f[x - 1], path[x])
          BY <5>1, <3>2, <2>4
        <5>. QED BY <5>2, <4>2, <4>3, <3>2
      <4>4. CASE ~(x < m) BY <4>2, <4>4, <3>2
      <4>. QED BY <4>3, <4>4
    <3>. QED BY <3>1, <3>2
  <2>6. g = [x \in 0 .. m |-> r(x)]
    <3>. HIDE DEF h, r
    <3>. QED BY <2>5
  <2>7. Keeps(g, name, path, m) BY ONLY <2>6 DEF Keeps
  <2>. QED BY <2>7, <1>2
<1>. QED BY <1>3, <1>4

\* Without leaves a path of names.
LEMMA WithoutType ==
    ASSUME NEW name, NEW path \in Seq(Name)
    PROVE  Without(name, path) \in Seq(Name)
<1>1. Len(path) \in Nat BY LenProperties
<1>. DEFINE kept == CHOOSE k : Keeps(k, name, path, Len(path))
<1>2. Without(name, path) = kept[Len(path)] BY DEF Without, Keeps
<1>3. Keeps(kept, name, path, Len(path))
  <2>1. \E k : Keeps(k, name, path, Len(path)) BY <1>1, KeepsExists
  <2>. QED BY <2>1
<1>. HIDE DEF kept
<1>4. \A m \in 0 .. Len(path) : kept[m] =
              IF m = 0 THEN <<>>
              ELSE IF path[m] = name THEN kept[m - 1] ELSE Append(kept[m - 1], path[m])
  <2>1. kept = [m \in 0 .. Len(path) |->
              IF m = 0 THEN <<>>
              ELSE IF path[m] = name THEN kept[m - 1] ELSE Append(kept[m - 1], path[m])]
    BY <1>3 DEF Keeps
  <2>. QED BY ONLY <2>1
<1>. DEFINE T == {m \in 0 .. Len(path) : kept[m] \notin Seq(Name)}
<1>5. T = {}
  <2>. SUFFICES ASSUME T # {} PROVE FALSE OBVIOUS
  <2>1. PICK m \in T : \A k \in T : m <= k
    <3>1. T \subseteq Nat BY <1>1
    <3>. HIDE DEF T
    <3>. QED BY <3>1, LeastNumber
  <2>2. m \in 0 .. Len(path) /\ m \in Nat /\ kept[m] \notin Seq(Name) BY <1>1
  <2>3. m # 0
    <3>1. <<>> \in Seq(Name) BY EmptySeq
    <3>. QED BY <3>1, <2>2, <1>4
  <2>4. m - 1 \in 0 .. Len(path) /\ m - 1 \notin T /\ m \in 1 .. Len(path) BY <1>1, <2>1, <2>2, <2>3
  <2>5. kept[m - 1] \in Seq(Name) /\ path[m] \in Name BY <2>4, ElementOfSeq
  <2>6. Append(kept[m - 1], path[m]) \in Seq(Name) BY <2>5, AppendProperties
  <2>7. kept[m] = kept[m - 1] \/ kept[m] = Append(kept[m - 1], path[m]) BY <1>4, <2>2, <2>3
  <2>. QED BY <2>2, <2>5, <2>6, <2>7
<1>. QED BY <1>1, <1>2, <1>5

\* A record asks for a path of at least one directory.
LEMMA PartsType ==
    ASSUME NEW r \in Record
    PROVE  Parts(r) \in Seq(Name) /\ Len(Parts(r)) \in Nat /\ RequestedName(r) \in Name
<1>1. r.group \in Name /\ r.name \in Name /\ r.ancestry \in Seq(Name) BY DEF Record
<1>2. <<r.group>> \in Seq(Name) BY <1>1
<1>3. Without(RequestedName(r), r.ancestry) \in Seq(Name) BY <1>1, WithoutType
<1>. HIDE DEF Without
<1>4. <<r.group>> \o Without(RequestedName(r), r.ancestry) \in Seq(Name) BY <1>2, <1>3, ConcatProperties
<1>5. Parts(r) \in Seq(Name) BY <1>2, <1>4 DEF Parts
<1>. QED BY <1>1, <1>5, NameTypes, LenProperties DEF RequestedName

-----------------------------------------------------------------------------
\* The inductive invariant.

PlanRecords == [status : Statuses \cup {"published", "duplicate"}, canonical : 0 .. M, path : Seq(Name)]

\* Each directory of a path that is being, or was, resolved is the one assigned
\* to that part below the directories before it.
Led(table, names, parts) ==
    /\ Len(names) <= Len(parts)
    /\ \A n \in 1 .. Len(names) : \E e \in table :
          /\ e.parent = [m \in 1 .. n - 1 |-> Key(names[m])]
          /\ e.raw = parts[n] /\ e.assigned = names[n]

\* A path that was given: the directories of the record's parts and a name.
Placed(i) ==
    /\ Len(out[i].path) = Len(Parts(input[i])) + 1
    /\ Led(assigned, Front(out[i].path), Parts(input[i]))

\* What was yielded for record i, given who owns its digest by now.
Passed(i) ==
    /\ ~Publishable(input[i])
    /\ out[i] = [status |-> input[i].status, canonical |-> 0, path |-> <<>>]

Owner(i) ==
    /\ Publishable(input[i]) /\ canonical[input[i].digest] = i /\ out[i].canonical = i
    /\ out[i].status = IF input[i].status = "eligible" THEN "published" ELSE input[i].status
    /\ Placed(i)

Repeated(i) ==
    LET c == canonical[input[i].digest] IN
    /\ Publishable(input[i]) /\ c \in 1 .. i - 1
    /\ out[i] = [status |-> "duplicate", canonical |-> c, path |-> out[c].path]

Answered == \A i \in DOMAIN out : Passed(i) \/ Owner(i) \/ Repeated(i)

\* A digest is owned by an earlier publishable record that carries it.
Owned ==
    \A d \in Digest : canonical[d] # 0 =>
        /\ canonical[d] \in DOMAIN out
        /\ input[canonical[d]].digest = d /\ Publishable(input[canonical[d]])

\* The table of occupied names holds the planned paths and nothing else.
Cell(i) == [dir |-> DirKey(Front(out[i].path)), key |-> Key(FileName(i)), digest |-> input[i].digest]
Housed == occupied = {Cell(i) : i \in Planned}

\* Below a cursor every suffix is taken.
Rows ==
    \A q \in fileCursor : \A n \in 0 .. q[3] : n < q[3] =>
        \E f \in occupied : f.dir = q[1] /\ f.key = Candidate(q[2], n)

\* An assignment is keyed by its raw part, which is assigned once per parent.
Uniform ==
    /\ \A e \in assigned : e.key = Key(Safe(e.raw))
    /\ \A e, f \in assigned : e.parent = f.parent /\ e.raw = f.raw => e = f

Leading ==
    /\ Placing => Led(assigned, resolved, Parts(Current))
    /\ ~Placing => resolved = <<>>

IInv ==
    /\ TypeOK /\ Answered /\ Owned /\ Housed /\ Rows /\ Uniform /\ Leading
    /\ KeysUnique /\ NoSuffixGap

-----------------------------------------------------------------------------
\* Facts about one state.

\* The record at hand is a record, the next after those that were yielded.
LEMMA AtHand ==
    ASSUME TypeOK, Busy
    PROVE  /\ pos \in 1 .. M /\ pos \in Nat /\ Current \in Record /\ pos = Len(out) + 1
           /\ DOMAIN out = 1 .. pos - 1 /\ pos \notin DOMAIN out
<1>1. M \in Nat /\ pos \in 1 .. M + 1 /\ pos <= M BY PlannerAssumption DEF TypeOK, Busy
<1>2. pos \in 1 .. M /\ pos \in Nat BY <1>1
<1>3. Current \in Record BY <1>2, RecordsAssumption DEF TypeOK, Current
<1>4. out \in Seq(PlanRecords) /\ Len(out) = pos - 1 BY DEF TypeOK, PlanRecords
<1>5. DOMAIN out = 1 .. pos - 1 BY <1>4, LenProperties
<1>. QED BY <1>2, <1>3, <1>4, <1>5

\* What was yielded, one at a time.
LEMMA Yielded ==
    ASSUME TypeOK, NEW i \in DOMAIN out
    PROVE  /\ i \in 1 .. M /\ i \in Nat /\ i # 0 /\ i < pos
           /\ input[i] \in Record /\ out[i] \in PlanRecords
           /\ out[i].path \in Seq(Name) /\ Len(out[i].path) \in Nat
           /\ DOMAIN out = 1 .. pos - 1 /\ pos \in Nat
<1>1. M \in Nat /\ pos \in 1 .. M + 1 BY PlannerAssumption DEF TypeOK
<1>2. out \in Seq(PlanRecords) /\ Len(out) = pos - 1 BY DEF TypeOK, PlanRecords
<1>3. DOMAIN out = 1 .. pos - 1 BY <1>2, LenProperties
<1>4. i \in 1 .. M /\ i \in Nat /\ i # 0 /\ i < pos /\ i \in 1 .. Len(out) BY <1>1, <1>2, <1>3
<1>5. input[i] \in Record BY <1>4, RecordsAssumption DEF TypeOK
<1>6. out[i] \in PlanRecords BY <1>2, <1>4, ElementOfSeq
<1>7. out[i].path \in Seq(Name) BY <1>6 DEF PlanRecords
<1>8. Len(out[i].path) \in Nat BY <1>7, LenProperties
<1>. QED BY <1>1, <1>3, <1>4, <1>5, <1>6, <1>7, <1>8

\* Publishable bytes have a digest.
LEMMA PublishableDigest ==
    ASSUME NEW r \in Record, Publishable(r)
    PROVE  r.digest \in Digest
BY DEF Record, Publishable

\* The planned records are the owners.
LEMMA PlannedAreOwners ==
    ASSUME TypeOK, Answered, NEW i \in DOMAIN out
    PROVE  i \in Planned <=> Owner(i)
<1>1. i # 0 /\ i \in Nat BY Yielded
<1>2. Passed(i) \/ Owner(i) \/ Repeated(i) BY DEF Answered
<1>3. Passed(i) => out[i].canonical = 0 BY DEF Passed
<1>4. Repeated(i) => out[i].canonical \in 1 .. i - 1 BY DEF Repeated
<1>5. Owner(i) => out[i].canonical = i BY DEF Owner
<1>6. i \in Planned <=> out[i].canonical = i BY DEF Planned, IsCanonical
<1>7. ~(i \in 1 .. i - 1) BY <1>1
<1>8. ASSUME out[i].canonical = i PROVE Owner(i)
  <2>1. ~Passed(i) BY <1>1, <1>3, <1>8
  <2>2. ~Repeated(i) BY <1>4, <1>7, <1>8
  <2>. QED BY <1>2, <2>1, <2>2
<1>. QED BY <1>5, <1>6, <1>8

\* A path is its directories and its name.
LEMMA PathIs ==
    ASSUME NEW path \in Seq(Name), Len(path) > 0
    PROVE  /\ Front(path) \in Seq(Name) /\ path[Len(path)] \in Name
           /\ Len(Front(path)) = Len(path) - 1
           /\ \A m \in 1 .. Len(path) - 1 : Front(path)[m] = path[m]
           /\ path = Append(Front(path), path[Len(path)])
<1>1. Len(path) \in Nat /\ path # <<>> BY LenProperties, EmptySeq
<1>2. Last(path) = path[Len(path)] BY DEF Last
<1>3. /\ Front(path) \in Seq(Name) /\ path[Len(path)] \in Name
      /\ Len(Front(path)) = Len(path) - 1
      /\ \A m \in 1 .. Len(path) - 1 : Front(path)[m] = path[m]
  BY <1>1, <1>2, FrontLast
<1>. DEFINE front == Front(path)
            last == path[Len(path)]
<1>4. front \in Seq(Name) /\ last \in Name BY <1>3
<1>5. Len(front) = Len(path) - 1 /\ \A m \in 1 .. Len(path) - 1 : front[m] = path[m] BY <1>3
<1>. HIDE DEF front, last
<1>6. /\ Append(front, last) \in Seq(Name) /\ Len(Append(front, last)) = Len(front) + 1
      /\ Append(front, last)[Len(front) + 1] = last
      /\ \A m \in 1 .. Len(front) : Append(front, last)[m] = front[m]
  BY <1>4, AppendProperties
<1>7. Append(front, last)[Len(path)] = path[Len(path)] BY <1>1, <1>5, <1>6 DEF last
<1>8. ASSUME NEW m \in 1 .. Len(path) PROVE Append(front, last)[m] = path[m]
  <2>1. m = Len(path) \/ m \in 1 .. Len(path) - 1 BY <1>1
  <2>2. CASE m \in 1 .. Len(path) - 1 BY <2>2, <1>5, <1>6
  <2>. QED BY <2>1, <2>2, <1>7
<1>9. Len(Append(front, last)) = Len(path) BY <1>1, <1>5, <1>6
<1>10. path = Append(front, last) BY <1>6, <1>8, <1>9, SeqEqual
<1>. QED BY <1>3, <1>10 DEF front, last

\* A path that was given is a cell of the table of occupied names.
LEMMA CellOfPath ==
    ASSUME TypeOK, NEW i \in DOMAIN out, Placed(i)
    PROVE  /\ Len(out[i].path) > 0
           /\ Cell(i).dir \in Seq(Name) /\ Cell(i).key \in Name
           /\ Len(Cell(i).dir) = Len(out[i].path) - 1
           /\ PathKey(i) = Append(Cell(i).dir, Cell(i).key)
<1>1. input[i] \in Record /\ out[i].path \in Seq(Name) /\ Len(out[i].path) \in Nat BY Yielded
<1>2. Len(Parts(input[i])) \in Nat BY <1>1, PartsType
<1>3. Len(out[i].path) > 0 BY <1>1, <1>2 DEF Placed
<1>. DEFINE path == out[i].path
            front == Front(path)
            last == path[Len(path)]
<1>4. path \in Seq(Name) /\ Len(path) > 0 BY <1>1, <1>3
<1>5. front \in Seq(Name) /\ last \in Name /\ Len(front) = Len(path) - 1 /\ path = Append(front, last)
  <2>. HIDE DEF path
  <2>. QED BY <1>4, PathIs
<1>6. PathKey(i) = DirKey(Append(front, last)) BY <1>5 DEF PathKey
<1>7. Cell(i).dir = DirKey(front) /\ Cell(i).key = Key(last) BY DEF Cell, FileName
<1>. HIDE DEF front, last, path
<1>8. DirKey(Append(front, last)) = Append(DirKey(front), Key(last)) BY <1>5, DirKeyAppend
<1>9. DirKey(front) \in Seq(Name) /\ Len(DirKey(front)) = Len(front) /\ Key(last) \in Name
  BY <1>5, DirKeyType, NameTypes
<1>. QED BY <1>3, <1>5, <1>6, <1>7, <1>8, <1>9 DEF path

-----------------------------------------------------------------------------
\* What a step leaves as it was.

\* A yielded record keeps its path.
LEMMA OutKept ==
    ASSUME NEW i, out'[i] = out[i], input' = input
    PROVE  /\ PathKey(i)' = PathKey(i) /\ FileName(i)' = FileName(i)
           /\ Cell(i)' = Cell(i) /\ (IsCanonical(i)' <=> IsCanonical(i))
BY DEF PathKey, FileName, Cell, IsCanonical

\* What was led by assigned directories still is when more are assigned.
LEMMA LedKept ==
    ASSUME NEW names, NEW parts, Led(assigned, names, parts), assigned \subseteq assigned'
    PROVE  Led(assigned', names, parts)
BY DEF Led

\* The record was answered and its answer stands.
Stands ==
    /\ policy' = policy /\ input' = input /\ assigned \subseteq assigned'
    /\ \A i \in DOMAIN out : out'[i] = out[i]
    /\ \A d \in Digest : canonical[d] # 0 => canonical'[d] = canonical[d]

\* Answers stand when the tables only grow.
LEMMA AnswerKept ==
    ASSUME TypeOK, Answered, Stands, NEW i \in DOMAIN out
    PROVE  Passed(i)' \/ Owner(i)' \/ Repeated(i)'
<1>1. /\ input[i] \in Record /\ i # 0 /\ i \in Nat /\ i < pos /\ pos \in Nat
      /\ DOMAIN out = 1 .. pos - 1
  BY Yielded
<1>2. PICK r \in Record : r = input[i] BY <1>1
<1>3. input'[i] = r /\ out'[i] = out[i] /\ policy' = policy BY <1>2 DEF Stands
<1>4. /\ Publishable(r)' <=> Publishable(r)
      /\ Parts(r)' = Parts(r)
  BY <1>3 DEF Publishable, Parts
<1>5. CASE Passed(i) BY <1>2, <1>3, <1>4, <1>5 DEF Passed, Publishable
<1>6. CASE Owner(i)
  <2>1. /\ Publishable(r) /\ canonical[r.digest] = i /\ out[i].canonical = i
        /\ out[i].status = IF r.status = "eligible" THEN "published" ELSE r.status
    BY <1>2, <1>6 DEF Owner
  <2>2. r.digest \in Digest BY <2>1, PublishableDigest
  <2>3. canonical'[r.digest] = i BY <1>1, <2>1, <2>2 DEF Stands
  <2>4. Placed(i)'
    <3>1. PICK path : path = out[i].path OBVIOUS
    <3>2. PICK names : names = Front(path) OBVIOUS
    <3>3. PICK parts : parts = Parts(r) OBVIOUS
    <3>4. Len(path) = Len(parts) + 1 /\ Led(assigned, names, parts)
      BY <1>2, <1>6, <3>1, <3>2, <3>3 DEF Owner, Placed
    <3>5. Led(assigned', names, parts) BY <3>4, LedKept DEF Stands
    <3>6. out'[i].path = path /\ Front(out'[i].path) = names /\ Parts(input[i])' = parts
      BY <1>3, <1>4, <3>1, <3>2, <3>3 DEF Parts
    <3>7. Led(assigned, Front(out[i].path), Parts(input[i]))' BY <3>5, <3>6
    <3>. QED BY <3>4, <3>6, <3>7 DEF Placed
  <2>5. Publishable(input[i])' BY <1>3, <1>4, <2>1 DEF Publishable
  <2>. QED BY <1>3, <2>1, <2>3, <2>4, <2>5 DEF Owner
<1>7. CASE Repeated(i)
  <2>1. PICK c : c = canonical[r.digest] OBVIOUS
  <2>2. /\ Publishable(r) /\ c \in 1 .. i - 1
        /\ out[i] = [status |-> "duplicate", canonical |-> c, path |-> out[c].path]
    BY <1>2, <1>7, <2>1 DEF Repeated
  <2>3. r.digest \in Digest BY <2>2, PublishableDigest
  <2>4. c # 0 /\ c \in DOMAIN out BY <1>1, <2>2
  <2>5. canonical'[r.digest] = c /\ out'[c] = out[c] BY <2>1, <2>3, <2>4 DEF Stands
  <2>6. Publishable(input[i])' BY <1>3, <1>4, <2>2 DEF Publishable
  <2>. QED BY <1>3, <2>2, <2>5, <2>6 DEF Repeated
<1>. QED BY <1>5, <1>6, <1>7 DEF Answered

\* What it means to yield a record.
LEMMA YieldFacts ==
    ASSUME TypeOK, Busy,
           NEW status \in Statuses \cup {"published", "duplicate"}, NEW owner \in 0 .. M,
           NEW path \in Seq(Name), Yield(status, owner, path)
    PROVE  /\ pos' = pos + 1 /\ pos' \in 1 .. M + 1 /\ resolved' = <<>> /\ resolved' \in Seq(Name)
           /\ policy' = policy /\ input' = input
           /\ out' \in Seq(PlanRecords) /\ Len(out') = pos' - 1
           /\ DOMAIN out' = 1 .. pos /\ DOMAIN out = 1 .. pos - 1
           /\ \A i \in DOMAIN out : out'[i] = out[i]
           /\ out'[pos] = [status |-> status, canonical |-> owner, path |-> path]
<1>1. pos \in 1 .. M /\ pos \in Nat /\ pos = Len(out) + 1 /\ DOMAIN out = 1 .. pos - 1
  BY AtHand
<1>2. out \in Seq(PlanRecords) /\ M \in Nat BY PlannerAssumption DEF TypeOK, PlanRecords
<1>. DEFINE rec == [status |-> status, canonical |-> owner, path |-> path]
<1>3. rec \in PlanRecords BY DEF PlanRecords
<1>4. pos' = pos + 1 /\ resolved' = <<>> /\ policy' = policy /\ input' = input /\ out' = Append(out, rec)
  BY DEF Yield, NextRecord
<1>. HIDE DEF rec
<1>5. /\ Append(out, rec) \in Seq(PlanRecords) /\ Len(Append(out, rec)) = Len(out) + 1
      /\ Append(out, rec)[Len(out) + 1] = rec
      /\ \A i \in 1 .. Len(out) : Append(out, rec)[i] = out[i]
  BY <1>2, <1>3, AppendProperties
<1>6. DOMAIN Append(out, rec) = 1 .. Len(out) + 1 BY <1>5, LenProperties
<1>7. Len(out) = pos - 1 /\ pos \in Int BY <1>1, <1>2, LenProperties
<1>8. DOMAIN out' = 1 .. pos BY <1>1, <1>4, <1>6
<1>9. \A i \in DOMAIN out : out'[i] = out[i]
  <2>1. DOMAIN out = 1 .. Len(out) BY <1>2, LenProperties
  <2>. QED BY <2>1, <1>4, <1>5
<1>10. out'[pos] = rec BY <1>1, <1>4, <1>5
<1>11. Len(out') = pos' - 1 /\ pos' \in 1 .. M + 1 BY <1>1, <1>2, <1>4, <1>5
<1>12. resolved' \in Seq(Name) BY <1>4, EmptySeq
<1>. QED BY <1>1, <1>4, <1>5, <1>8, <1>9, <1>10, <1>11, <1>12 DEF rec

\* The planned records after a record was yielded.
LEMMA PlannedAfter ==
    ASSUME TypeOK, Busy, pos \in Nat, DOMAIN out' = 1 .. pos, DOMAIN out = 1 .. pos - 1,
           \A i \in DOMAIN out : out'[i] = out[i], input' = input
    PROVE  /\ \A i \in DOMAIN out : i \in Planned' <=> i \in Planned
           /\ Planned \subseteq DOMAIN out
           /\ Planned' = IF out'[pos].canonical = pos THEN Planned \cup {pos} ELSE Planned
           /\ \A i \in Planned : Cell(i)' = Cell(i) /\ PathKey(i)' = PathKey(i)
<1>1. Planned' = {i \in 1 .. pos : out'[i].canonical = i} BY DEF Planned, IsCanonical
<1>2. Planned = {i \in 1 .. pos - 1 : out[i].canonical = i} BY DEF Planned, IsCanonical
<1>3. 1 .. pos = (1 .. pos - 1) \cup {pos} /\ pos \notin 1 .. pos - 1
  <2>1. pos >= 1 BY DEF TypeOK
  <2>. QED BY <2>1
<1>4. \A i \in 1 .. pos - 1 : out'[i] = out[i] OBVIOUS
<1>5. \A i \in DOMAIN out : i \in Planned' <=> i \in Planned BY <1>1, <1>2, <1>3, <1>4
<1>6. pos \in Planned' <=> out'[pos].canonical = pos BY <1>1, <1>3
<1>7. Planned \subseteq DOMAIN out /\ Planned' \subseteq (DOMAIN out) \cup {pos} /\ pos \notin Planned
  BY <1>1, <1>2, <1>3
<1>8. \A i \in Planned : Cell(i)' = Cell(i) /\ PathKey(i)' = PathKey(i)
  BY <1>7, OutKept
<1>. HIDE DEF Planned
<1>9. Planned' = IF out'[pos].canonical = pos THEN Planned \cup {pos} ELSE Planned
  BY <1>5, <1>6, <1>7
<1>. QED BY <1>5, <1>7, <1>8, <1>9

\* A record that is begun has no directory resolved.
LEMMA FreshLeads ==
    ASSUME TypeOK, policy' = policy, input' = input, pos' \in 1 .. M + 1, resolved' = <<>>
    PROVE  Leading'
<1>1. SUFFICES ASSUME Placing' PROVE Led(assigned, resolved, Parts(Current))'
  BY DEF Leading
<1>2. pos' <= M /\ M \in Nat BY <1>1, PlannerAssumption DEF Placing, Busy
<1>3. pos' \in 1 .. M BY <1>2
<1>4. input[pos'] \in Record BY <1>3, RecordsAssumption DEF TypeOK
<1>5. PICK r \in Record : r = input[pos'] BY <1>4
<1>6. Len(Parts(r)) \in Nat BY PartsType
<1>7. Parts(Current)' = Parts(r) BY <1>5 DEF Current, Parts
<1>8. Len(<<>>) = 0 BY EmptySeq
<1>9. PICK parts : parts = Parts(r) OBVIOUS
<1>10. Len(<<>>) <= Len(parts) /\ 1 .. Len(<<>>) = {} BY <1>6, <1>8, <1>9
<1>11. Parts(Current)' = parts /\ resolved' = <<>> BY <1>7, <1>9
<1>. QED BY <1>10, <1>11 DEF Led

\* The suffixes below an earlier record's stay taken.
LEMMA GapKept ==
    ASSUME NoSuffixGap, input' = input,
           \A i \in Planned : Cell(i)' = Cell(i) /\ PathKey(i)' = PathKey(i),
           \A i \in DOMAIN out : out'[i] = out[i], Planned \subseteq DOMAIN out,
           Planned \subseteq Planned',
           NEW i \in Planned, NEW k \in 1 .. MaxSuffix, NEW n \in 0 .. k - 1,
           FileName(i)' = Suffixed(RequestedName(input[i]), k)
    PROVE  \E j \in Planned' : j < i /\ PathKey(j)' =
              [PathKey(i)' EXCEPT ![Len(PathKey(i)')] = Key(Candidate(RequestedName(input[i]), n))]
<1>1. FileName(i) = Suffixed(RequestedName(input[i]), k) BY OutKept
<1>2. PICK j \in Planned : j < i /\ PathKey(j) =
              [PathKey(i) EXCEPT ![Len(PathKey(i))] = Key(Candidate(RequestedName(input[i]), n))]
  <2>. HIDE DEF Planned, PathKey, FileName, Suffixed, RequestedName
  <2>. QED BY <1>1 DEF NoSuffixGap
<1>3. PathKey(j)' = PathKey(j) /\ PathKey(i)' = PathKey(i) /\ j \in Planned' OBVIOUS
<1>. HIDE DEF Planned, PathKey
<1>. QED BY <1>2, <1>3

\* A record that is passed on, or recognised as a duplicate, changes no table.
LEMMA YieldOnly ==
    ASSUME IInv, Busy,
           NEW status \in Statuses \cup {"published", "duplicate"}, NEW owner \in 0 .. M,
           NEW path \in Seq(Name), Yield(status, owner, path), owner # pos,
           UNCHANGED <<canonical, occupied, fileCursor, assigned, dirCursor>>,
           NEW at \in 1 .. M, at = pos, Passed(at)' \/ Repeated(at)'
    PROVE  IInv'
<1>1. TypeOK /\ Answered /\ Owned /\ Housed /\ Rows /\ Uniform /\ KeysUnique /\ NoSuffixGap
  BY DEF IInv
<1>2. /\ pos' = pos + 1 /\ pos' \in 1 .. M + 1 /\ resolved' = <<>> /\ resolved' \in Seq(Name)
      /\ policy' = policy /\ input' = input
      /\ out' \in Seq(PlanRecords) /\ Len(out') = pos' - 1
      /\ DOMAIN out' = 1 .. pos /\ DOMAIN out = 1 .. pos - 1
      /\ \A i \in DOMAIN out : out'[i] = out[i]
      /\ out'[pos] = [status |-> status, canonical |-> owner, path |-> path]
  BY <1>1, YieldFacts
<1>3. pos \in Nat BY <1>1, AtHand
<1>4. out'[pos].canonical # pos BY <1>2
<1>5. /\ Planned \subseteq DOMAIN out /\ Planned' = Planned
      /\ \A i \in Planned : Cell(i)' = Cell(i) /\ PathKey(i)' = PathKey(i)
  BY <1>1, <1>2, <1>3, <1>4, PlannedAfter
<1>6. TypeOK' BY <1>1, <1>2 DEF TypeOK, PlanRecords
<1>7. Answered'
  <2>1. Stands BY <1>2 DEF Stands
  <2>2. \A i \in DOMAIN out : Passed(i)' \/ Owner(i)' \/ Repeated(i)' BY <1>1, <2>1, AnswerKept
  <2>3. \A i \in DOMAIN out' : i \in DOMAIN out \/ i = at BY <1>2, <1>3
  <2>. HIDE DEF Passed, Owner, Repeated
  <2>. QED BY <2>2, <2>3 DEF Answered
<1>8. Owned'
  <2>1. DOMAIN out \subseteq DOMAIN out' BY <1>2, <1>3
  <2>. QED BY <1>1, <1>2, <2>1 DEF Owned, Publishable
<1>9. Housed'
  <2>1. occupied = {Cell(i) : i \in Planned} BY <1>1 DEF Housed
  <2>2. occupied' = {Cell(i)' : i \in Planned'}
    <3>. HIDE DEF Planned, Cell
    <3>. QED BY <2>1, <1>5
  <2>. QED BY <2>2 DEF Housed
<1>10. Rows' BY <1>1 DEF Rows
<1>11. Uniform' BY <1>1 DEF Uniform
<1>12. Leading' BY <1>1, <1>2, FreshLeads
<1>13. KeysUnique' BY <1>1 DEF KeysUnique
<1>14. NoSuffixGap'
  <2>1. SUFFICES ASSUME NEW i \in Planned', NEW k \in 1 .. MaxSuffix,
                        FileName(i)' = Suffixed(RequestedName(input'[i]), k),
                        NEW n \in 0 .. k - 1
                 PROVE  \E j \in Planned' : j < i /\ PathKey(j)' =
                          [PathKey(i)' EXCEPT ![Len(PathKey(i)')] = Key(Candidate(RequestedName(input'[i]), n))]
    BY DEF NoSuffixGap
  <2>2. i \in Planned /\ Planned \subseteq Planned' BY <1>5, <2>1
  <2>3. FileName(i)' = Suffixed(RequestedName(input[i]), k) BY <1>2, <2>1
  <2>4. \E j \in Planned' : j < i /\ PathKey(j)' =
              [PathKey(i)' EXCEPT ![Len(PathKey(i)')] = Key(Candidate(RequestedName(input[i]), n))]
    BY <1>1, <1>2, <1>5, <2>2, <2>3, GapKept
  <2>5. input' = input BY <1>2
  <2>. QED BY <2>4, <2>5
<1>. QED BY <1>6, <1>7, <1>8, <1>9, <1>10, <1>11, <1>12, <1>13, <1>14 DEF IInv

\* PassRecord keeps the invariant.
LEMMA PassStep == ASSUME IInv, PassRecord PROVE IInv'
<1>1. TypeOK /\ Busy /\ ~Publishable(Current) BY DEF IInv, PassRecord
<1>2. pos \in 1 .. M /\ pos \in Nat /\ Current \in Record /\ M \in Nat
  BY <1>1, AtHand, PlannerAssumption
<1>3. PICK r \in Record : r = Current BY <1>2
<1>4. PICK status \in Statuses \cup {"published", "duplicate"} : status = r.status BY DEF Record
<1>5. PICK owner \in 0 .. M : owner = 0 BY <1>2
<1>6. PICK path \in Seq(Name) : path = <<>> BY EmptySeq
<1>7. Yield(status, owner, path) BY <1>3, <1>4, <1>5, <1>6 DEF PassRecord
<1>8. UNCHANGED <<canonical, occupied, fileCursor, assigned, dirCursor>> BY DEF PassRecord
<1>9. /\ policy' = policy /\ input' = input
      /\ out'[pos] = [status |-> status, canonical |-> owner, path |-> path]
  BY <1>1, <1>7, YieldFacts
<1>10. PICK at \in 1 .. M : at = pos BY <1>2
<1>11. Passed(at)'
  <2>1. ~Publishable(r)' BY <1>1, <1>3, <1>9 DEF Publishable
  <2>2. input'[at] = r BY <1>3, <1>9, <1>10 DEF Current
  <2>3. out'[at] = [status |-> r.status, canonical |-> 0, path |-> <<>>]
    BY <1>4, <1>5, <1>6, <1>9, <1>10
  <2>. QED BY <2>1, <2>2, <2>3 DEF Passed, Publishable
<1>12. owner # pos BY <1>2, <1>5
<1>13. Passed(at)' \/ Repeated(at)' BY <1>11
<1>. QED BY <1>1, <1>7, <1>8, <1>10, <1>12, <1>13, YieldOnly

\* RepeatRecord keeps the invariant.
LEMMA RepeatStep == ASSUME IInv, RepeatRecord PROVE IInv'
<1>1. TypeOK /\ Owned /\ Busy /\ Publishable(Current) /\ KnownBytes(Current) /\ RememberFirst
  BY DEF IInv, RepeatRecord
<1>2. /\ pos \in 1 .. M /\ pos \in Nat /\ Current \in Record /\ M \in Nat
      /\ DOMAIN out = 1 .. pos - 1
  BY <1>1, AtHand, PlannerAssumption
<1>3. PICK r \in Record : r = Current BY <1>2
<1>4. r.digest \in Digest BY <1>1, <1>3, PublishableDigest
<1>5. canonical[r.digest] # 0 BY <1>1, <1>3 DEF KnownBytes
<1>6. canonical[r.digest] \in DOMAIN out BY <1>1, <1>4, <1>5 DEF Owned
<1>7. PICK owner \in DOMAIN out : owner = canonical[r.digest] BY <1>6
<1>8. owner \in 0 .. M /\ owner \in 1 .. pos - 1 BY <1>2, <1>7
<1>9. out[owner].path \in Seq(Name) BY <1>1, <1>7, Yielded
<1>10. PICK path \in Seq(Name) : path = out[owner].path BY <1>9
<1>11. Yield("duplicate", owner, path) BY <1>3, <1>7, <1>10 DEF RepeatRecord
<1>12. UNCHANGED <<canonical, occupied, fileCursor, assigned, dirCursor>>
  BY DEF RepeatRecord, RememberFirst
<1>13. "duplicate" \in Statuses \cup {"published", "duplicate"} OBVIOUS
<1>14. /\ policy' = policy /\ input' = input
       /\ out'[pos] = [status |-> "duplicate", canonical |-> owner, path |-> path]
       /\ \A i \in DOMAIN out : out'[i] = out[i]
  BY <1>1, <1>8, <1>11, <1>13, YieldFacts
<1>15. PICK at \in 1 .. M : at = pos BY <1>2
<1>16. Repeated(at)'
  <2>1. Publishable(r)' BY <1>1, <1>3, <1>14 DEF Publishable
  <2>2. input'[at] = r BY <1>3, <1>14, <1>15 DEF Current
  <2>3. out'[at] = [status |-> "duplicate", canonical |-> owner, path |-> path]
    BY <1>14, <1>15
  <2>4. canonical'[r.digest] = owner /\ owner \in 1 .. at - 1 BY <1>7, <1>8, <1>12, <1>15
  <2>5. out'[owner].path = path BY <1>7, <1>10, <1>14
  <2>. QED BY <2>1, <2>2, <2>3, <2>4, <2>5 DEF Repeated, Publishable
<1>17. owner # pos BY <1>2, <1>8
<1>18. Passed(at)' \/ Repeated(at)' BY <1>16
<1>. QED BY <1>1, <1>8, <1>11, <1>12, <1>13, <1>15, <1>17, <1>18, YieldOnly

-----------------------------------------------------------------------------
\* Directories.

\* A path that is led by its assignments is led one part further by the next.
LEMMA LedFurther ==
    ASSUME NEW names \in Seq(Name), NEW parts, Led(assigned, names, parts), Len(parts) \in Nat,
           Len(names) < Len(parts), assigned \subseteq assigned', NEW e \in assigned',
           e.parent = DirKey(names), e.raw = parts[Len(names) + 1], e.assigned \in Name
    PROVE  Led(assigned', Append(names, e.assigned), parts)
<1>1. Len(names) \in Nat BY LenProperties
<1>. DEFINE longer == Append(names, e.assigned)
<1>2. /\ longer \in Seq(Name) /\ Len(longer) = Len(names) + 1
      /\ longer[Len(names) + 1] = e.assigned
      /\ \A m \in 1 .. Len(names) : longer[m] = names[m]
  BY AppendProperties
<1>. HIDE DEF longer
<1>3. ASSUME NEW n \in 1 .. Len(longer)
      PROVE  \E f \in assigned' : /\ f.parent = [m \in 1 .. n - 1 |-> Key(longer[m])]
                                  /\ f.raw = parts[n] /\ f.assigned = longer[n]
  <2>1. n \in 1 .. Len(names) \/ n = Len(names) + 1 BY <1>1, <1>2
  <2>2. \A m \in 1 .. n - 1 : longer[m] = names[m] BY <1>1, <1>2, <2>1
  <2>3. [m \in 1 .. n - 1 |-> Key(longer[m])] = [m \in 1 .. n - 1 |-> Key(names[m])]
    BY <2>2
  <2>4. CASE n \in 1 .. Len(names)
    <3>1. PICK f \in assigned : /\ f.parent = [m \in 1 .. n - 1 |-> Key(names[m])]
                                /\ f.raw = parts[n] /\ f.assigned = names[n]
      BY <2>4 DEF Led
    <3>. QED BY <1>2, <2>3, <2>4, <3>1
  <2>5. CASE n = Len(names) + 1
    <3>1. DOMAIN names = 1 .. n - 1 BY <1>1, <2>5, LenProperties
    <3>2. DirKey(names) = [m \in 1 .. n - 1 |-> Key(names[m])] BY <3>1 DEF DirKey
    <3>. QED BY <1>2, <2>3, <2>5, <3>2
  <2>. QED BY <2>1, <2>4, <2>5
<1>4. Len(longer) <= Len(parts) BY <1>1, <1>2
<1>5. Led(assigned', longer, parts) BY <1>3, <1>4 DEF Led
<1>. QED BY <1>5 DEF longer

\* A step that resolves a directory yields nothing and places nothing.
LEMMA DirectoryStep ==
    ASSUME IInv, Placing,
           UNCHANGED <<policy, input, pos, canonical, occupied, fileCursor, out>>,
           assigned \subseteq assigned', TypeOK', Uniform', KeysUnique',
           NEW names \in Seq(Name), NEW parts, resolved' = names, parts = Parts(Current),
           Led(assigned', names, parts)
    PROVE  IInv'
<1>1. TypeOK /\ Answered /\ Owned /\ Housed /\ Rows /\ NoSuffixGap BY DEF IInv
<1>2. DOMAIN out' = DOMAIN out OBVIOUS
<1>3. Answered'
  <2>1. Stands BY DEF Stands
  <2>2. \A i \in DOMAIN out : Passed(i)' \/ Owner(i)' \/ Repeated(i)' BY <1>1, <2>1, AnswerKept
  <2>. HIDE DEF Passed, Owner, Repeated
  <2>. QED BY <1>2, <2>2 DEF Answered
<1>4. Owned' BY <1>1 DEF Owned, Publishable
<1>5. Housed' BY <1>1 DEF Housed, Cell, FileName, Planned, IsCanonical
<1>6. Rows' BY <1>1 DEF Rows
<1>7. Leading'
  <2>1. Placing' BY DEF Placing, Busy, Publishable, KnownBytes, Current
  <2>2. Parts(Current)' = parts BY DEF Parts, Current
  <2>3. Led(assigned, resolved, Parts(Current))' BY <2>2
  <2>. QED BY <2>1, <2>3 DEF Leading
<1>8. NoSuffixGap'
  <2>1. Planned \subseteq DOMAIN out /\ Planned' = Planned BY DEF Planned, IsCanonical
  <2>2. \A i \in Planned : Cell(i)' = Cell(i) /\ PathKey(i)' = PathKey(i) BY OutKept
  <2>3. SUFFICES ASSUME NEW i \in Planned', NEW k \in 1 .. MaxSuffix,
                        FileName(i)' = Suffixed(RequestedName(input'[i]), k),
                        NEW n \in 0 .. k - 1
                 PROVE  \E j \in Planned' : j < i /\ PathKey(j)' =
                          [PathKey(i)' EXCEPT ![Len(PathKey(i)')] = Key(Candidate(RequestedName(input'[i]), n))]
    BY DEF NoSuffixGap
  <2>4. i \in Planned /\ Planned \subseteq Planned' /\ FileName(i)' = Suffixed(RequestedName(input[i]), k)
    BY <2>1, <2>3
  <2>5. \A j \in DOMAIN out : out'[j] = out[j] OBVIOUS
  <2>6. \E j \in Planned' : j < i /\ PathKey(j)' =
              [PathKey(i)' EXCEPT ![Len(PathKey(i)')] = Key(Candidate(RequestedName(input[i]), n))]
    BY <1>1, <2>1, <2>2, <2>4, <2>5, GapKept
  <2>. QED BY <2>6
<1>. QED BY <1>3, <1>4, <1>5, <1>6, <1>7, <1>8 DEF IInv

\* What is known when a directory is to be resolved.
LEMMA AtDirectory ==
    ASSUME IInv, Resolving
    PROVE  /\ TypeOK /\ Busy /\ Placing /\ Current \in Record /\ resolved \in Seq(Name)
           /\ Len(resolved) \in Nat /\ Len(Parts(Current)) \in Nat
           /\ Len(resolved) < Len(Parts(Current)) /\ Part \in Name
           /\ Part = Parts(Current)[Len(resolved) + 1]
           /\ Led(assigned, resolved, Parts(Current))
<1>1. TypeOK /\ Placing /\ Busy /\ Leading /\ Len(resolved) < Len(Parts(Current))
  BY DEF IInv, Resolving, Placing
<1>2. Current \in Record BY <1>1, AtHand
<1>3. PICK r \in Record : r = Current BY <1>2
<1>4. Parts(r) \in Seq(Name) /\ Len(Parts(r)) \in Nat BY PartsType
<1>5. resolved \in Seq(Name) /\ Len(resolved) \in Nat BY <1>1, LenProperties DEF TypeOK
<1>6. Len(resolved) + 1 \in 1 .. Len(Parts(r)) BY <1>1, <1>3, <1>4, <1>5
<1>7. Parts(r)[Len(resolved) + 1] \in Name BY <1>4, <1>6, ElementOfSeq
<1>. QED BY <1>1, <1>2, <1>3, <1>4, <1>5, <1>7 DEF Part, Leading

\* EnterKnownDirectory keeps the invariant.
LEMMA EnterStep == ASSUME IInv, EnterKnownDirectory PROVE IInv'
<1>1. Resolving BY DEF EnterKnownDirectory
<1>2. /\ TypeOK /\ Busy /\ Placing /\ Current \in Record /\ resolved \in Seq(Name)
      /\ Len(resolved) \in Nat /\ Len(Parts(Current)) \in Nat
      /\ Len(resolved) < Len(Parts(Current)) /\ Part \in Name
      /\ Part = Parts(Current)[Len(resolved) + 1]
      /\ Led(assigned, resolved, Parts(Current))
  BY <1>1, AtDirectory
<1>3. PICK names \in Seq(Name) : names = resolved BY <1>2
<1>4. PICK parts : parts = Parts(Current) OBVIOUS
<1>5. PICK e \in assigned : /\ e.parent = DirKey(names) /\ e.raw = parts[Len(names) + 1]
                            /\ resolved' = Append(names, e.assigned)
  BY <1>2, <1>3, <1>4 DEF EnterKnownDirectory, SameDirectory, Enter
<1>6. UNCHANGED <<policy, input, pos, canonical, occupied, fileCursor, assigned, dirCursor, out>>
  BY DEF EnterKnownDirectory
<1>7. e.assigned \in Name /\ e \in assigned' BY <1>2, <1>6 DEF TypeOK
<1>8. Led(assigned, names, parts) BY <1>2, <1>3, <1>4
<1>9. Led(assigned', Append(names, e.assigned), parts)
  <2>1. Len(parts) \in Nat /\ Len(names) < Len(parts) /\ assigned \subseteq assigned'
    BY <1>2, <1>3, <1>4, <1>6
  <2>. QED BY <1>5, <1>7, <1>8, <2>1, LedFurther
<1>10. Append(names, e.assigned) \in Seq(Name) BY <1>7, AppendProperties
<1>11. TypeOK' BY <1>2, <1>5, <1>6, <1>10 DEF TypeOK
<1>12. Uniform' /\ KeysUnique' BY <1>6 DEF IInv, Uniform, KeysUnique
<1>13. assigned \subseteq assigned' BY <1>6
<1>. QED BY <1>2, <1>4, <1>5, <1>6, <1>9, <1>10, <1>11, <1>12, <1>13, DirectoryStep

\* A cursor is moved to one row of its own.
LEMMA CursorMoved ==
    ASSUME NEW rows, rows \subseteq Seq(Name) \X Name \X Nat,
           NEW dir \in Seq(Name), NEW base \in Name, NEW k \in Nat
    PROVE  LET moved == MoveCursor(rows, dir, base, k) IN
           /\ moved \subseteq Seq(Name) \X Name \X Nat
           /\ \A q \in moved : q \in rows \/ q = <<dir, base, k>>
           /\ (\A q, r \in rows : q[1] = r[1] /\ q[2] = r[2] => q = r)
              => \A q, r \in moved : q[1] = r[1] /\ q[2] = r[2] => q = r
<1>1. <<dir, base, k>> \in Seq(Name) \X Name \X Nat OBVIOUS
<1>. HIDE DEF Name
<1>2. <<dir, base, k>>[1] = dir /\ <<dir, base, k>>[2] = base OBVIOUS
<1>. QED BY <1>1, <1>2 DEF MoveCursor

\* AssignDirectory keeps the invariant.
LEMMA AssignStep == ASSUME IInv, AssignDirectory PROVE IInv'
<1>1. Resolving BY DEF AssignDirectory
<1>2. /\ TypeOK /\ Busy /\ Placing /\ Current \in Record /\ resolved \in Seq(Name)
      /\ Len(resolved) \in Nat /\ Len(Parts(Current)) \in Nat
      /\ Len(resolved) < Len(Parts(Current)) /\ Part \in Name
      /\ Part = Parts(Current)[Len(resolved) + 1]
      /\ Led(assigned, resolved, Parts(Current))
  BY <1>1, AtDirectory
<1>3. PICK names \in Seq(Name) : names = resolved BY <1>2
<1>4. PICK parts : parts = Parts(Current) OBVIOUS
<1>5. PICK part \in Name : part = Part BY <1>2
<1>6. PICK parent : parent = DirKey(names) OBVIOUS
<1>7. PICK safe : safe = Safe(part) OBVIOUS
<1>8. PICK k \in 0 .. MaxSuffix :
         /\ k \notin {x \in 0 .. MaxSuffix : DirectoryTaken(parent, Candidate(safe, x))}
         /\ ~\E e \in assigned : SameDirectory(e, parent, part)
         /\ resolved' = Append(names, Candidate(safe, k))
         /\ assigned' = assigned \cup
               {[parent |-> parent, key |-> Key(safe), raw |-> part, assigned |-> Candidate(safe, k)]}
         /\ dirCursor' = MoveCursor(dirCursor, parent, Key(safe), k + 1)
  BY <1>3, <1>5, <1>6, <1>7 DEF AssignDirectory, FirstFree, Enter
<1>9. UNCHANGED <<policy, input, pos, canonical, occupied, fileCursor, out>>
  BY DEF AssignDirectory
<1>10. /\ parent \in Seq(Name) /\ safe \in Name /\ Key(safe) \in Name
       /\ k \in Nat /\ k + 1 \in Nat /\ Candidate(safe, k) \in Name
  <2>1. MaxSuffix \in Nat BY PlannerAssumption
  <2>2. parent \in Seq(Name) BY <1>6, DirKeyType
  <2>3. safe \in Name BY <1>7, NameTypes
  <2>4. k \in Nat /\ k + 1 \in Nat BY <2>1
  <2>. QED BY <2>2, <2>3, <2>4, NameTypes, CandidateType
<1>11. PICK new : new = [parent |-> parent, key |-> Key(safe), raw |-> part, assigned |-> Candidate(safe, k)]
  OBVIOUS
<1>12. /\ new \in [parent : Seq(Name), key : Name, raw : Name, assigned : Name]
       /\ new.parent = parent /\ new.key = Key(safe) /\ new.raw = part
       /\ new.assigned = Candidate(safe, k)
       /\ assigned' = assigned \cup {new}
  BY <1>8, <1>10, <1>11
<1>13. Len(parts) \in Nat /\ Len(names) < Len(parts) /\ assigned \subseteq assigned' /\ new \in assigned'
  BY <1>2, <1>3, <1>4, <1>12
<1>14. Led(assigned', Append(names, new.assigned), parts)
  <2>1. Led(assigned, names, parts) BY <1>2, <1>3, <1>4
  <2>2. new.parent = DirKey(names) /\ new.raw = parts[Len(names) + 1] /\ new.assigned \in Name
    BY <1>2, <1>3, <1>4, <1>5, <1>6, <1>10, <1>12
  <2>. QED BY <1>13, <2>1, <2>2, LedFurther
<1>15. Append(names, new.assigned) \in Seq(Name) /\ resolved' = Append(names, new.assigned)
  BY <1>8, <1>10, <1>12, AppendProperties
<1>16. /\ dirCursor' \subseteq Seq(Name) \X Name \X Nat
       /\ (\A q, r \in dirCursor : q[1] = r[1] /\ q[2] = r[2] => q = r)
          => \A q, r \in dirCursor' : q[1] = r[1] /\ q[2] = r[2] => q = r
  <2>1. PICK rows : rows = dirCursor OBVIOUS
  <2>2. rows \subseteq Seq(Name) \X Name \X Nat BY <1>2, <2>1 DEF TypeOK
  <2>3. PICK base \in Name : base = Key(safe) BY <1>10
  <2>4. PICK next \in Nat : next = k + 1 BY <1>10
  <2>5. LET moved == MoveCursor(rows, parent, base, next) IN
           /\ moved \subseteq Seq(Name) \X Name \X Nat
           /\ (\A q, r \in rows : q[1] = r[1] /\ q[2] = r[2] => q = r)
              => \A q, r \in moved : q[1] = r[1] /\ q[2] = r[2] => q = r
    BY <1>10, <2>2, CursorMoved
  <2>6. dirCursor' = MoveCursor(rows, parent, base, next) BY <1>8, <2>1, <2>3, <2>4
  <2>. QED BY <2>1, <2>5, <2>6
<1>17. TypeOK'
  <2>1. assigned' \subseteq [parent : Seq(Name), key : Name, raw : Name, assigned : Name]
    BY <1>2, <1>12 DEF TypeOK
  <2>. QED BY <1>2, <1>9, <1>15, <1>16, <2>1 DEF TypeOK
<1>18. Uniform'
  <2>1. /\ \A e \in assigned : e.key = Key(Safe(e.raw))
        /\ \A e, f \in assigned : e.parent = f.parent /\ e.raw = f.raw => e = f
    BY DEF IInv, Uniform
  <2>2. new.key = Key(Safe(new.raw)) BY <1>7, <1>12
  <2>3. ASSUME NEW e \in assigned, e.parent = parent, e.raw = part PROVE FALSE
    <3>1. e.key = Key(Safe(part)) BY <2>1, <2>3
    <3>. QED BY <1>8, <2>3, <3>1 DEF SameDirectory
  <2>4. \A e \in assigned' : e.key = Key(Safe(e.raw)) BY <1>12, <2>1, <2>2
  <2>5. \A e, f \in assigned' : e.parent = f.parent /\ e.raw = f.raw => e = f
    BY <1>12, <2>1, <2>3
  <2>. QED BY <2>4, <2>5 DEF Uniform
<1>19. KeysUnique'
  <2>1. KeysUnique BY DEF IInv
  <2>2. ASSUME NEW e \in assigned, e.parent = parent, Key(e.assigned) = Key(new.assigned) PROVE FALSE
    BY <1>8, <1>12, <2>2 DEF DirectoryTaken
  <2>3. \A e, f \in assigned : e.parent = f.parent /\ Key(e.assigned) = Key(f.assigned) => e = f
    BY <2>1 DEF KeysUnique
  <2>4. \A e, f \in assigned' : e.parent = f.parent /\ Key(e.assigned) = Key(f.assigned) => e = f
    BY <1>12, <2>2, <2>3
  <2>5. \A q, r \in dirCursor' : q[1] = r[1] /\ q[2] = r[2] => q = r
    BY <1>16, <2>1 DEF KeysUnique
  <2>. QED BY <1>9, <2>1, <2>4, <2>5 DEF KeysUnique
<1>. QED BY <1>2, <1>4, <1>9, <1>13, <1>14, <1>15, <1>17, <1>18, <1>19, DirectoryStep

-----------------------------------------------------------------------------
\* Files.

\* A path that was extended by a name: its front, its last element, and what it
\* becomes with another name.
LEMMA Extended ==
    ASSUME NEW path \in Seq(Name), NEW name \in Name, NEW other \in Name
    PROVE  LET longer == Append(path, name) IN
           /\ longer \in Seq(Name) /\ Len(longer) = Len(path) + 1 /\ longer[Len(longer)] = name
           /\ Front(longer) = path
           /\ [longer EXCEPT ![Len(longer)] = other] = Append(path, other)
<1>1. Len(path) \in Nat BY LenProperties
<1>2. PICK longer : longer = Append(path, name) OBVIOUS
<1>3. PICK renamed : renamed = Append(path, other) OBVIOUS
<1>4. /\ longer \in Seq(Name) /\ Len(longer) = Len(path) + 1 /\ longer[Len(path) + 1] = name
      /\ \A m \in 1 .. Len(path) : longer[m] = path[m]
  BY <1>2, AppendProperties
<1>5. /\ renamed \in Seq(Name) /\ Len(renamed) = Len(path) + 1 /\ renamed[Len(path) + 1] = other
      /\ \A m \in 1 .. Len(path) : renamed[m] = path[m]
  BY <1>3, AppendProperties
<1>6. Front(longer) = path
  <2>1. Len(longer) > 0 /\ Len(longer) - 1 = Len(path) BY <1>1, <1>4
  <2>2. Front(longer) \in Seq(Name) /\ Len(Front(longer)) = Len(path)
        /\ \A m \in 1 .. Len(path) : Front(longer)[m] = longer[m]
    <3>1. Front(longer) \in Seq(Name) /\ Len(Front(longer)) = Len(longer) - 1
          /\ \A m \in 1 .. Len(longer) - 1 : Front(longer)[m] = longer[m]
      BY <1>4, <2>1, PathIs
    <3>. QED BY <2>1, <3>1
  <2>3. \A m \in 1 .. Len(path) : Front(longer)[m] = path[m] BY <1>4, <2>2
  <2>. QED BY <2>2, <2>3, SeqEqual
<1>7. [longer EXCEPT ![Len(longer)] = other] = renamed
  <2>1. longer = [m \in 1 .. Len(path) + 1 |-> longer[m]]
        /\ renamed = [m \in 1 .. Len(path) + 1 |-> renamed[m]]
    <3>1. longer \in [1 .. Len(longer) -> Name] /\ renamed \in [1 .. Len(renamed) -> Name]
      BY <1>4, <1>5, LenProperties
    <3>. QED BY <1>4, <1>5, <3>1
  <2>2. DOMAIN longer = 1 .. Len(path) + 1 /\ Len(longer) = Len(path) + 1 BY <1>4, LenProperties
  <2>3. ASSUME NEW m \in 1 .. Len(path) + 1
        PROVE  [longer EXCEPT ![Len(longer)] = other][m] = renamed[m]
    <3>1. m = Len(path) + 1 \/ (m # Len(path) + 1 /\ m \in 1 .. Len(path)) BY <1>1
    <3>2. CASE m = Len(path) + 1 BY <1>5, <2>2, <3>2
    <3>3. CASE m # Len(path) + 1 /\ m \in 1 .. Len(path) BY <1>4, <1>5, <2>2, <3>3
    <3>. QED BY <3>1, <3>2, <3>3
  <2>. DEFINE changed == [longer EXCEPT ![Len(longer)] = other]
  <2>4. changed = [m \in 1 .. Len(path) + 1 |-> changed[m]] BY <2>2
  <2>5. \A m \in 1 .. Len(path) + 1 : changed[m] = renamed[m] BY <2>3
  <2>. HIDE DEF changed
  <2>6. changed = renamed BY <2>1, <2>4, <2>5
  <2>. QED BY <2>6 DEF changed
<1>8. longer[Len(longer)] = name BY <1>4
<1>. QED BY <1>2, <1>3, <1>4, <1>6, <1>7, <1>8

\* A cursor never stands above a free suffix.
LEMMA BelowTheFirstFree ==
    ASSUME IInv, NEW dir, NEW base, NEW k \in Nat, NEW n \in 0 .. k - 1,
           NEW taken, FirstFree(CursorAt(fileCursor, dir, base), k, taken),
           \A x \in taken : \E f \in occupied : f.dir = dir /\ f.key = Candidate(base, x)
    PROVE  \E f \in occupied : f.dir = dir /\ f.key = Candidate(base, n)
<1>1. fileCursor \subseteq Seq(Name) \X Name \X Nat /\ Rows BY DEF IInv, TypeOK
<1>2. PICK from : from = CursorAt(fileCursor, dir, base) OBVIOUS
<1>3. k >= from /\ from .. k - 1 \subseteq taken BY <1>2 DEF FirstFree
<1>4. CASE \E x \in 0 .. MaxSuffix + 1 : <<dir, base, x>> \in fileCursor
  <2>1. from \in 0 .. MaxSuffix + 1 /\ <<dir, base, from>> \in fileCursor
    BY <1>2, <1>4 DEF CursorAt
  <2>2. from \in Nat /\ n \in Nat BY <2>1, PlannerAssumption
  <2>3. CASE n < from
    <3>1. n \in 0 .. from BY <2>2, <2>3
    <3>2. PICK q \in fileCursor : q[1] = dir /\ q[2] = base /\ q[3] = from BY <2>1
    <3>. QED BY <1>1, <2>3, <3>1, <3>2 DEF Rows
  <2>4. CASE ~(n < from)
    <3>1. n \in from .. k - 1 BY <2>2, <2>4
    <3>. QED BY <1>3, <3>1
  <2>. QED BY <2>3, <2>4
<1>5. CASE ~\E x \in 0 .. MaxSuffix + 1 : <<dir, base, x>> \in fileCursor
  <2>1. from = 0 BY <1>2, <1>5 DEF CursorAt
  <2>. QED BY <1>3, <2>1
<1>. QED BY <1>4, <1>5

\* A digest that nobody owns holds no name.
LEMMA UnownedHoldsNothing ==
    ASSUME TypeOK, Answered, Housed, NEW d, canonical[d] = 0, NEW f \in occupied
    PROVE  f.digest # d
<1>1. PICK i \in Planned : f = Cell(i) BY DEF Housed
<1>2. i \in DOMAIN out BY DEF Planned
<1>3. Owner(i) BY <1>2, PlannedAreOwners
<1>4. i # 0 BY <1>2, Yielded
<1>5. canonical[input[i].digest] = i BY <1>3 DEF Owner
<1>6. f.digest = input[i].digest BY <1>1 DEF Cell
<1>. QED BY <1>4, <1>5, <1>6

\* PlaceFile keeps the invariant.
LEMMA PlaceStep == ASSUME IInv, PlaceFile PROVE IInv'
<1>1. /\ TypeOK /\ Answered /\ Owned /\ Housed /\ Rows /\ Uniform /\ Leading
      /\ KeysUnique /\ NoSuffixGap
      /\ Placing /\ Busy /\ Publishable(Current) /\ ~KnownBytes(Current)
      /\ Len(resolved) = Len(Parts(Current))
  BY DEF IInv, PlaceFile, Placing
<1>2. /\ pos \in 1 .. M /\ pos \in Nat /\ Current \in Record /\ M \in Nat /\ MaxSuffix \in Nat
      /\ DOMAIN out = 1 .. pos - 1
  BY <1>1, AtHand, PlannerAssumption
<1>3. PICK r \in Record : r = Current BY <1>2
<1>4. r.digest \in Digest BY <1>1, <1>3, PublishableDigest
<1>5. PICK d \in Digest : d = r.digest BY <1>4
<1>6. canonical[d] = 0 BY <1>1, <1>3, <1>5 DEF KnownBytes
<1>7. PICK names \in Seq(Name) : names = resolved BY <1>1 DEF TypeOK
<1>8. PICK parts : parts = Parts(r) OBVIOUS
<1>9. Len(names) = Len(parts) /\ Led(assigned, names, parts)
  <2>1. Led(assigned, resolved, Parts(Current)) BY <1>1 DEF Leading
  <2>2. parts = Parts(Current) BY <1>3, <1>8
  <2>. QED BY <1>1, <1>7, <2>1, <2>2
<1>10. PICK dir \in Seq(Name) : dir = DirKey(names) BY DirKeyType
<1>11. PICK wanted \in Name : wanted = RequestedName(r) BY PartsType
<1>12. PICK at \in 1 .. M : at = pos BY <1>2
<1>13. PICK k \in 0 .. MaxSuffix :
         /\ FirstFree(CursorAt(fileCursor, dir, Key(wanted)), k,
                      {x \in 0 .. MaxSuffix : FileTaken(dir, Candidate(wanted, x), d)})
         /\ occupied' = occupied \cup
               {[dir |-> dir, key |-> Key(Candidate(wanted, k)), digest |-> d]}
         /\ fileCursor' = MoveCursor(fileCursor, dir, Key(wanted), k + 1)
         /\ canonical' = [canonical EXCEPT ![d] = at]
         /\ Yield(IF r.status = "eligible" THEN "published" ELSE r.status,
                  at, Append(names, Candidate(wanted, k)))
  BY <1>3, <1>5, <1>7, <1>10, <1>11, <1>12 DEF PlaceFile, AdvanceCursor
<1>14. UNCHANGED <<assigned, dirCursor>> BY DEF PlaceFile
<1>15. k \in Nat /\ k + 1 \in Nat BY <1>2
<1>16. PICK chosen \in Name : chosen = Candidate(wanted, k) BY <1>15, CandidateType
<1>17. PICK base \in Name : base = Key(wanted) BY NameTypes
<1>18. PICK path \in Seq(Name) : path = Append(names, chosen) BY AppendProperties
<1>19. PICK status \in Statuses \cup {"published", "duplicate"} :
          status = IF r.status = "eligible" THEN "published" ELSE r.status
  BY DEF Record
<1>20. Yield(status, at, path) /\ at \in 0 .. M BY <1>13, <1>16, <1>18, <1>19
<1>21. /\ pos' = pos + 1 /\ pos' \in 1 .. M + 1 /\ resolved' = <<>> /\ resolved' \in Seq(Name)
       /\ policy' = policy /\ input' = input
       /\ out' \in Seq(PlanRecords) /\ Len(out') = pos' - 1
       /\ DOMAIN out' = 1 .. pos /\ DOMAIN out = 1 .. pos - 1
       /\ \A i \in DOMAIN out : out'[i] = out[i]
       /\ out'[pos] = [status |-> status, canonical |-> at, path |-> path]
  BY <1>1, <1>20, YieldFacts
<1>22. /\ Planned \subseteq DOMAIN out /\ Planned' = Planned \cup {at}
       /\ \A i \in Planned : Cell(i)' = Cell(i) /\ PathKey(i)' = PathKey(i)
  <2>1. out'[pos].canonical = pos BY <1>12, <1>21
  <2>. QED BY <1>1, <1>2, <1>12, <1>21, <2>1, PlannedAfter
<1>23. input'[at] = r /\ input[at] = r BY <1>3, <1>12, <1>21 DEF Current
<1>24. PICK new : new = [dir |-> dir, key |-> Key(chosen), digest |-> d] OBVIOUS
<1>25. /\ new \in [dir : Seq(Name), key : Name, digest : Digest]
       /\ new.dir = dir /\ new.key = Key(chosen) /\ new.digest = d
       /\ occupied' = occupied \cup {new}
  BY <1>13, <1>16, <1>24, NameTypes
<1>26. \A f \in occupied : f.digest # d BY <1>1, <1>6, UnownedHoldsNothing
<1>27. ASSUME NEW f \in occupied, f.dir = dir, f.key = Key(chosen) PROVE FALSE
  <2>1. FileTaken(dir, chosen, d) BY <1>26, <1>27 DEF FileTaken
  <2>. QED BY <1>13, <1>16, <2>1 DEF FirstFree
<1>28. ASSUME NEW n \in 0 .. k - 1
       PROVE  \E f \in occupied : f.dir = dir /\ f.key = Candidate(base, n)
  <2>1. PICK taken : taken = {x \in 0 .. MaxSuffix : FileTaken(dir, Candidate(wanted, x), d)}
    OBVIOUS
  <2>2. FirstFree(CursorAt(fileCursor, dir, base), k, taken) BY <1>13, <1>17, <2>1
  <2>3. \A x \in taken : x \in Nat BY <1>2, <2>1
  <2>4. \A x \in taken : Key(Candidate(wanted, x)) = Candidate(base, x)
    BY <1>17, <2>3, KeyOfCandidate
  <2>5. \A x \in taken : \E f \in occupied : f.dir = dir /\ f.key = Candidate(base, x)
    BY <2>1, <2>4 DEF FileTaken
  <2>6. IInv /\ k \in Nat /\ n \in 0 .. k - 1 BY <1>15
  <2>. QED BY ONLY <2>2, <2>5, <2>6, BelowTheFirstFree
<1>29. dir = Cell(at)'.dir /\ Key(chosen) = Cell(at)'.key /\ Cell(at)' = new /\ FileName(at)' = chosen
       /\ PathKey(at)' = Append(dir, Key(chosen))
       /\ out'[at].path = path /\ Len(path) = Len(names) + 1 /\ Front(path) = names
  <2>1. out'[at].path = path BY <1>12, <1>21
  <2>2. Len(path) = Len(names) + 1 /\ path[Len(path)] = chosen /\ Front(path) = names
    BY <1>18, Extended
  <2>3. FileName(at)' = chosen BY <2>1, <2>2 DEF FileName
  <2>4. Cell(at)' = new
    <3>1. Cell(at)' = [dir |-> DirKey(Front(path)), key |-> Key(chosen), digest |-> input'[at].digest]
      BY <2>1, <2>3 DEF Cell, FileName
    <3>. QED BY <1>5, <1>10, <1>23, <1>24, <2>2, <3>1
  <2>5. PathKey(at)' = DirKey(path) BY <2>1 DEF PathKey
  <2>6. DirKey(path) = Append(dir, Key(chosen)) BY <1>10, <1>18, DirKeyAppend
  <2>. QED BY <1>25, <2>1, <2>2, <2>3, <2>4, <2>5, <2>6
<1>30. canonical' = [canonical EXCEPT ![d] = at] /\ canonical \in [Digest -> 0 .. M]
  BY <1>1, <1>13 DEF TypeOK
<1>31. PICK rows : rows = fileCursor OBVIOUS
<1>32. /\ fileCursor' \subseteq Seq(Name) \X Name \X Nat
       /\ \A q \in fileCursor' : q \in fileCursor \/ q = <<dir, base, k + 1>>
       /\ (\A q, s \in fileCursor : q[1] = s[1] /\ q[2] = s[2] => q = s)
          => \A q, s \in fileCursor' : q[1] = s[1] /\ q[2] = s[2] => q = s
  <2>1. PICK next \in Nat : next = k + 1 BY <1>15
  <2>2. rows \subseteq Seq(Name) \X Name \X Nat BY <1>1, <1>31 DEF TypeOK
  <2>3. LET moved == MoveCursor(rows, dir, base, next) IN
           /\ moved \subseteq Seq(Name) \X Name \X Nat
           /\ \A q \in moved : q \in rows \/ q = <<dir, base, next>>
           /\ (\A q, s \in rows : q[1] = s[1] /\ q[2] = s[2] => q = s)
              => \A q, s \in moved : q[1] = s[1] /\ q[2] = s[2] => q = s
    BY <2>2, CursorMoved
  <2>4. fileCursor' = MoveCursor(rows, dir, base, next) BY <1>13, <1>17, <1>31, <2>1
  <2>. QED BY <1>31, <2>1, <2>3, <2>4
<1>33. TypeOK'
  <2>1. canonical' \in [Digest -> 0 .. M] BY <1>20, <1>30
  <2>2. occupied' \subseteq [dir : Seq(Name), key : Name, digest : Digest]
    BY <1>1, <1>25 DEF TypeOK
  <2>. QED BY <1>1, <1>14, <1>21, <1>32, <2>1, <2>2 DEF TypeOK, PlanRecords
<1>34. Answered'
  <2>1. Stands BY <1>6, <1>14, <1>21, <1>30 DEF Stands
  <2>2. \A i \in DOMAIN out : Passed(i)' \/ Owner(i)' \/ Repeated(i)' BY <1>1, <2>1, AnswerKept
  <2>3. Publishable(r)' BY <1>1, <1>3, <1>21 DEF Publishable
  <2>4. Parts(r)' = parts BY <1>8, <1>21 DEF Parts
  <2>5. Led(assigned', names, parts) BY <1>9, <1>14
  <2>6. Placed(at)'
    <3>1. Parts(input[at])' = parts BY <1>23, <2>4 DEF Parts
    <3>2. Led(assigned, Front(out[at].path), Parts(input[at]))'
      <4>1. out'[at].path = path /\ Front(path) = names BY <1>29
      <4>2. Front(out'[at].path) = names /\ Parts(input[at])' = parts BY <4>1, <3>1
      <4>. QED BY <2>5, <4>2
    <3>. QED BY <1>9, <1>29, <3>1, <3>2 DEF Placed
  <2>7. Owner(at)'
    <3>1. Publishable(input[at])' BY <1>23, <2>3 DEF Publishable
    <3>2. canonical'[r.digest] = at BY <1>5, <1>30
    <3>3. out'[at] = [status |-> status, canonical |-> at, path |-> path] BY <1>12, <1>21
    <3>4. out'[at].canonical = at /\ out'[at].status = status BY <3>3
    <3>. HIDE DEF Placed, Publishable
    <3>. QED BY <1>19, <1>23, <2>6, <3>1, <3>2, <3>4 DEF Owner
  <2>8. \A i \in DOMAIN out' : i \in DOMAIN out \/ i = at BY <1>2, <1>12, <1>21
  <2>. HIDE DEF Passed, Owner, Repeated
  <2>. QED BY <2>2, <2>7, <2>8 DEF Answered
<1>35. Owned'
  <2>1. DOMAIN out \subseteq DOMAIN out' /\ at \in DOMAIN out' BY <1>2, <1>12, <1>21
  <2>2. ASSUME NEW c \in Digest, canonical'[c] # 0
        PROVE  /\ canonical'[c] \in DOMAIN out'
               /\ input'[canonical'[c]].digest = c /\ Publishable(input[canonical[c]])'
    <3>1. CASE c = d
      <4>1. canonical'[c] = at BY <1>30, <3>1
      <4>. QED BY <1>1, <1>3, <1>5, <1>21, <1>23, <2>1, <3>1, <4>1 DEF Publishable
    <3>2. CASE c # d
      <4>1. canonical'[c] = canonical[c] BY <1>30, <3>2
      <4>. QED BY <1>1, <1>21, <2>1, <2>2, <4>1 DEF Owned, Publishable
    <3>. QED BY <3>1, <3>2
  <2>. QED BY <2>2 DEF Owned
<1>36. Housed'
  <2>1. occupied = {Cell(i) : i \in Planned} BY <1>1 DEF Housed
  <2>2. occupied' = {Cell(i)' : i \in Planned'}
    <3>. HIDE DEF Planned, Cell
    <3>. QED BY <1>22, <1>25, <1>29, <2>1
  <2>. QED BY <2>2 DEF Housed
<1>37. Rows'
  <2>1. SUFFICES ASSUME NEW q \in fileCursor', NEW n \in 0 .. q[3], n < q[3]
                 PROVE  \E f \in occupied' : f.dir = q[1] /\ f.key = Candidate(q[2], n)
    BY DEF Rows
  <2>2. CASE q \in fileCursor BY <1>1, <1>25, <2>1, <2>2 DEF Rows
  <2>3. CASE q = <<dir, base, k + 1>>
    <3>1. q[1] = dir /\ q[2] = base /\ q[3] = k + 1 BY <2>3
    <3>2. n \in 0 .. k - 1 \/ n = k BY <1>15, <2>1, <3>1
    <3>3. CASE n \in 0 .. k - 1
      <4>1. \E f \in occupied : f.dir = dir /\ f.key = Candidate(base, n) BY <1>28, <3>3
      <4>. QED BY <1>25, <3>1, <4>1
    <3>4. CASE n = k
      <4>1. Key(chosen) = Candidate(base, k) BY <1>15, <1>16, <1>17, KeyOfCandidate
      <4>. QED BY <1>25, <3>1, <3>4, <4>1
    <3>. QED BY <3>2, <3>3, <3>4
  <2>. QED BY <1>32, <2>2, <2>3
<1>38. Uniform' BY <1>1, <1>14 DEF Uniform
<1>39. Leading' BY <1>1, <1>21, FreshLeads
<1>40. KeysUnique'
  <2>1. \A e, f \in occupied : e.dir = f.dir /\ e.key = f.key => e = f BY <1>1 DEF KeysUnique
  <2>2. \A e, f \in occupied' : e.dir = f.dir /\ e.key = f.key => e = f
    BY <1>25, <1>27, <2>1
  <2>3. \A q, s \in fileCursor' : q[1] = s[1] /\ q[2] = s[2] => q = s
    BY <1>1, <1>32 DEF KeysUnique
  <2>. QED BY <1>1, <1>14, <2>2, <2>3 DEF KeysUnique
<1>41. NoSuffixGap'
  <2>1. SUFFICES ASSUME NEW i \in Planned', NEW m \in 1 .. MaxSuffix,
                        FileName(i)' = Suffixed(RequestedName(input'[i]), m),
                        NEW n \in 0 .. m - 1
                 PROVE  \E j \in Planned' : j < i /\ PathKey(j)' =
                          [PathKey(i)' EXCEPT ![Len(PathKey(i)')] = Key(Candidate(RequestedName(input'[i]), n))]
    BY DEF NoSuffixGap
  <2>2. CASE i \in Planned
    <3>1. FileName(i)' = Suffixed(RequestedName(input[i]), m) /\ Planned \subseteq Planned'
      BY <1>21, <1>22, <2>1
    <3>2. \E j \in Planned' : j < i /\ PathKey(j)' =
              [PathKey(i)' EXCEPT ![Len(PathKey(i)')] = Key(Candidate(RequestedName(input[i]), n))]
      BY <1>1, <1>21, <1>22, <2>2, <3>1, GapKept
    <3>. QED BY <1>21, <3>2
  <2>3. CASE i = at
    <3>1. RequestedName(input'[i]) = wanted BY <1>11, <1>23, <2>3
    <3>2. m \in Nat /\ n \in Nat BY <1>2
    <3>3. Candidate(wanted, k) = Suffixed(wanted, m) BY <1>16, <1>29, <2>1, <2>3, <3>1
    <3>4. m = k BY <1>15, <3>2, <3>3, SuffixOfCandidate
    <3>5. PICK f \in occupied : f.dir = dir /\ f.key = Candidate(base, n) BY <1>28, <3>4
    <3>6. PICK j \in Planned : f = Cell(j) BY <1>1 DEF Housed
    <3>7. j \in DOMAIN out /\ j \in Planned' BY <1>22
    <3>8. Placed(j) BY <1>1, <3>6, <3>7, PlannedAreOwners DEF Owner
    <3>9. PathKey(j) = Append(Cell(j).dir, Cell(j).key) BY <1>1, <3>7, <3>8, CellOfPath
    <3>10. Candidate(base, n) = Key(Candidate(wanted, n)) BY <1>17, <3>2, KeyOfCandidate
    <3>11. PathKey(j)' = Append(dir, Key(Candidate(wanted, n)))
      <4>1. PathKey(j) = Append(dir, Candidate(base, n)) BY <3>5, <3>6, <3>9
      <4>. QED BY <1>22, <3>10, <4>1
    <3>12. Key(chosen) \in Name /\ Key(Candidate(wanted, n)) \in Name
      BY <3>2, NameTypes, CandidateType
    <3>13. LET longer == Append(dir, Key(chosen)) IN
             [longer EXCEPT ![Len(longer)] = Key(Candidate(wanted, n))]
                = Append(dir, Key(Candidate(wanted, n)))
      BY <3>12, Extended
    <3>14. PathKey(i)' = Append(dir, Key(chosen)) BY <1>29, <2>3
    <3>15. [PathKey(i)' EXCEPT ![Len(PathKey(i)')] = Key(Candidate(wanted, n))]
             = Append(dir, Key(Candidate(wanted, n)))
      BY <3>13, <3>14
    <3>16. j < i BY <1>2, <1>12, <2>3, <3>7
    <3>. QED BY <3>1, <3>7, <3>11, <3>15, <3>16
  <2>. QED BY <1>22, <2>2, <2>3
<1>. QED BY <1>33, <1>34, <1>35, <1>36, <1>37, <1>38, <1>39, <1>40, <1>41 DEF IInv

-----------------------------------------------------------------------------
\* The invariant holds.

\* The first state satisfies the invariant.
LEMMA InitSafe == Init => IInv
<1>. SUFFICES ASSUME Init PROVE IInv OBVIOUS
<1>1. /\ policy \in Policies /\ input \in [1 .. M -> Records] /\ pos = 1 /\ resolved = <<>>
      /\ canonical = [d \in Digest |-> 0] /\ occupied = {} /\ fileCursor = {} /\ assigned = {}
      /\ dirCursor = {} /\ out = <<>>
  BY DEF Init
<1>2. M \in Nat BY PlannerAssumption
<1>3. /\ <<>> \in Seq(Name) /\ <<>> \in Seq(PlanRecords) /\ Len(<<>>) = 0 /\ 1 .. 0 = {}
      /\ DOMAIN out = {}
  <2>1. <<>> \in Seq(PlanRecords) /\ Len(<<>>) = 0 BY EmptySeq
  <2>2. DOMAIN out = 1 .. 0 BY <1>1, <2>1, LenProperties
  <2>. QED BY <2>1, <2>2, EmptySeq
<1>4. TypeOK
  <2>1. pos \in 1 .. M + 1 /\ 0 \in 0 .. M /\ Len(out) = pos - 1 BY <1>1, <1>2, <1>3
  <2>2. canonical \in [Digest -> 0 .. M] BY <1>1, <2>1
  <2>. QED BY <1>1, <1>3, <2>1, <2>2 DEF TypeOK, PlanRecords
<1>5. Planned = {} BY <1>3 DEF Planned
<1>6. Answered BY <1>3 DEF Answered
<1>7. Owned BY <1>1 DEF Owned
<1>8. Housed BY <1>1, <1>5 DEF Housed
<1>9. Rows /\ Uniform /\ KeysUnique BY <1>1 DEF Rows, Uniform, KeysUnique
<1>10. NoSuffixGap BY <1>5 DEF NoSuffixGap
<1>11. Leading
  <2>1. SUFFICES ASSUME Placing PROVE Led(assigned, resolved, Parts(Current)) BY <1>1 DEF Leading
  <2>2. Current \in Record BY <1>4, <2>1, AtHand DEF Placing
  <2>3. PICK r \in Record : r = Current BY <2>2
  <2>4. Len(Parts(r)) \in Nat BY PartsType
  <2>5. Len(<<>>) <= Len(Parts(r)) /\ 1 .. Len(<<>>) = {} BY <1>3, <2>4
  <2>6. resolved = <<>> /\ Parts(Current) = Parts(r) BY <1>1, <2>3
  <2>. QED BY <2>5, <2>6 DEF Led
<1>. QED BY <1>4, <1>6, <1>7, <1>8, <1>9, <1>10, <1>11 DEF IInv

\* A stuttering step changes nothing of it.
LEMMA IdleSafe == ASSUME IInv, UNCHANGED plannerVars PROVE IInv'
<1>1. UNCHANGED <<policy, input, pos, resolved, canonical, occupied, fileCursor, assigned, dirCursor, out>>
  BY DEF plannerVars
<1>2. TypeOK' BY <1>1 DEF IInv, TypeOK
<1>3. Answered'
  <2>1. Stands BY <1>1 DEF Stands
  <2>2. \A i \in DOMAIN out : Passed(i)' \/ Owner(i)' \/ Repeated(i)'
    BY <2>1, AnswerKept DEF IInv
  <2>. HIDE DEF Passed, Owner, Repeated
  <2>. QED BY <1>1, <2>2 DEF Answered
<1>4. Owned' BY <1>1 DEF IInv, Owned, Publishable
<1>5. Housed' BY <1>1 DEF IInv, Housed, Cell, FileName, Planned, IsCanonical
<1>6. Rows' /\ Uniform' /\ KeysUnique' BY <1>1 DEF IInv, Rows, Uniform, KeysUnique
<1>7. Leading'
  <2>1. Placing' <=> Placing BY <1>1 DEF Placing, Busy, Publishable, KnownBytes, Current
  <2>2. Parts(Current)' = Parts(Current) BY <1>1 DEF Parts, Current
  <2>3. ASSUME Placing PROVE Led(assigned, resolved, Parts(Current))'
    <3>1. PICK parts : parts = Parts(Current) OBVIOUS
    <3>2. PICK names : names = resolved OBVIOUS
    <3>3. Led(assigned, resolved, Parts(Current)) BY <2>3 DEF IInv, Leading
    <3>4. Led(assigned, names, parts) BY <3>1, <3>2, <3>3
    <3>5. Led(assigned', names, parts) BY <1>1, <3>4, LedKept
    <3>6. Parts(Current)' = parts /\ resolved' = names BY <1>1, <2>2, <3>1, <3>2
    <3>. QED BY <1>1, <3>5, <3>6
  <2>4. Leading BY DEF IInv
  <2>. QED BY <1>1, <2>1, <2>3, <2>4 DEF Leading
<1>8. NoSuffixGap'
  <2>1. Planned \subseteq DOMAIN out /\ Planned' = Planned BY <1>1 DEF Planned, IsCanonical
  <2>2. \A j \in DOMAIN out : out'[j] = out[j] BY <1>1
  <2>3. \A i \in Planned : Cell(i)' = Cell(i) /\ PathKey(i)' = PathKey(i) BY <1>1, <2>1, <2>2, OutKept
  <2>4. SUFFICES ASSUME NEW i \in Planned', NEW k \in 1 .. MaxSuffix,
                        FileName(i)' = Suffixed(RequestedName(input'[i]), k),
                        NEW n \in 0 .. k - 1
                 PROVE  \E j \in Planned' : j < i /\ PathKey(j)' =
                          [PathKey(i)' EXCEPT ![Len(PathKey(i)')] = Key(Candidate(RequestedName(input'[i]), n))]
    BY DEF NoSuffixGap
  <2>5. /\ i \in Planned /\ Planned \subseteq Planned' /\ input' = input /\ NoSuffixGap
        /\ FileName(i)' = Suffixed(RequestedName(input[i]), k)
    BY <1>1, <2>1, <2>4 DEF IInv
  <2>6. \E j \in Planned' : j < i /\ PathKey(j)' =
              [PathKey(i)' EXCEPT ![Len(PathKey(i)')] = Key(Candidate(RequestedName(input[i]), n))]
    BY <2>1, <2>2, <2>3, <2>5, GapKept
  <2>. QED BY <1>1, <2>6
<1>. QED BY <1>2, <1>3, <1>4, <1>5, <1>6, <1>7, <1>8 DEF IInv

\* The tables of the planner stay consistent with each other and with what was
\* yielded (iter_freeze_plan, _PlannerState).
THEOREM PlannerSafe == Spec => []IInv
<1>1. ASSUME IInv, [Next \/ Finished]_plannerVars PROVE IInv'
  <2>1. CASE PassRecord BY <1>1, <2>1, PassStep
  <2>2. CASE RepeatRecord BY <1>1, <2>2, RepeatStep
  <2>3. CASE EnterKnownDirectory BY <1>1, <2>3, EnterStep
  <2>4. CASE AssignDirectory BY <1>1, <2>4, AssignStep
  <2>5. CASE PlaceFile BY <1>1, <2>5, PlaceStep
  <2>6. CASE Finished \/ UNCHANGED plannerVars BY <1>1, <2>6, IdleSafe DEF Finished
  <2>. QED BY <1>1, <2>1, <2>2, <2>3, <2>4, <2>5, <2>6 DEF Next
<1>. QED BY <1>1, InitSafe, PTL DEF Spec

\* The variables keep their types: what a record is answered with is a plan
\* record, and a table's rows are rows.
THEOREM PlannerTypes == Spec => []TypeOK
<1>1. IInv => TypeOK BY DEF IInv
<1>. QED BY <1>1, PlannerSafe, PTL

\* No insertion breaks a primary key of the scratch tables (occupy_file,
\* assign_directory, set_file_allocation_cursor), so none ends a run.
THEOREM KeysAreUnique == Spec => []KeysUnique
<1>1. IInv => KeysUnique BY DEF IInv
<1>. QED BY <1>1, PlannerSafe, PTL

\* A suffix is used only when all the smaller ones went to earlier records of
\* the same directory (_assign_path).
THEOREM SuffixesAreDense == Spec => []NoSuffixGap
<1>1. IInv => NoSuffixGap BY DEF IInv
<1>. QED BY <1>1, PlannerSafe, PTL

-----------------------------------------------------------------------------
\* What the invariant says of the paths.

\* Distinct contents get paths that stay distinct where letter case does not
\* count, although suffixed names can meet names that had the number already.
THEOREM PathsAreDistinct == Spec => []PathsDistinct
<1>1. ASSUME IInv, NEW i \in Planned, NEW j \in Planned, PathKey(i) = PathKey(j) PROVE i = j
  <2>1. TypeOK /\ Answered /\ Housed /\ KeysUnique BY <1>1 DEF IInv
  <2>2. i \in DOMAIN out /\ j \in DOMAIN out BY DEF Planned
  <2>3. Owner(i) /\ Owner(j) BY <2>1, <2>2, PlannedAreOwners
  <2>4. PICK e \in occupied : e = Cell(i) BY <2>1 DEF Housed
  <2>5. PICK f \in occupied : f = Cell(j) BY <2>1 DEF Housed
  <2>6. Cell(i).dir \in Seq(Name) /\ Cell(i).key \in Name /\ PathKey(i) = Append(Cell(i).dir, Cell(i).key)
    BY <2>1, <2>2, <2>3, CellOfPath DEF Owner
  <2>7. Cell(j).dir \in Seq(Name) /\ Cell(j).key \in Name /\ PathKey(j) = Append(Cell(j).dir, Cell(j).key)
    BY <2>1, <2>2, <2>3, CellOfPath DEF Owner
  <2>8. e.dir \in Seq(Name) /\ e.key \in Name /\ f.dir \in Seq(Name) /\ f.key \in Name
        /\ Append(e.dir, e.key) = Append(f.dir, f.key)
    BY <1>1, <2>4, <2>5, <2>6, <2>7
  <2>9. e.dir = f.dir /\ e.key = f.key
    <3>1. PICK a \in Seq(Name), b \in Name : a = e.dir /\ b = e.key BY <2>8
    <3>2. PICK c \in Seq(Name), d \in Name : c = f.dir /\ d = f.key BY <2>8
    <3>3. Append(a, b) = Append(c, d) BY <2>8, <3>1, <3>2
    <3>4. a = c /\ b = d BY <3>3, AppendInjective
    <3>. QED BY <3>1, <3>2, <3>4
  <2>10. e = f BY <2>1, <2>9 DEF KeysUnique
  <2>11. input[i].digest = input[j].digest BY <2>4, <2>5, <2>10 DEF Cell
  <2>. QED BY <2>3, <2>11 DEF Owner
<1>2. IInv => PathsDistinct BY <1>1 DEF PathsDistinct
<1>. QED BY <1>2, PlannerSafe, PTL

\* The owner of a digest is planned.
LEMMA OwnerIsPlanned ==
    ASSUME IInv, NEW d \in Digest, canonical[d] # 0
    PROVE  /\ canonical[d] \in DOMAIN out /\ canonical[d] \in Planned /\ Owner(canonical[d])
           /\ input[canonical[d]].digest = d /\ Publishable(input[canonical[d]])
<1>1. TypeOK /\ Answered /\ Owned BY DEF IInv
<1>2. PICK c \in DOMAIN out : c = canonical[d] BY <1>1 DEF Owned
<1>3. input[c].digest = d /\ Publishable(input[c]) BY <1>1, <1>2 DEF Owned
<1>4. c \in Nat BY <1>1, Yielded
<1>5. ~Passed(c) BY <1>3 DEF Passed
<1>6. ~Repeated(c) BY <1>2, <1>3, <1>4 DEF Repeated
<1>7. Owner(c) BY <1>1, <1>5, <1>6 DEF Answered
<1>8. c \in Planned BY <1>1, <1>7, PlannedAreOwners
<1>. QED BY <1>2, <1>3, <1>7, <1>8

\* A duplicate carries the path of the canonical record it names, which holds
\* the same bytes and came earlier (iter_freeze_plan).
THEOREM DuplicatesPointBack == Spec => []DuplicatesPoint
<1>1. ASSUME IInv, NEW i \in DOMAIN out, out[i].status = "duplicate"
      PROVE  /\ out[i].canonical \in Planned /\ out[i].canonical < i
             /\ out[i].path = out[out[i].canonical].path
             /\ input[i].digest = input[out[i].canonical].digest
  <2>1. TypeOK /\ Answered BY <1>1 DEF IInv
  <2>2. i \in Nat /\ input[i] \in Record BY <2>1, Yielded
  <2>3. input[i].status # "duplicate" BY <2>2 DEF Record, Statuses
  <2>4. ~Passed(i) BY <1>1, <2>3 DEF Passed
  <2>5. ~Owner(i) BY <1>1, <2>3 DEF Owner
  <2>6. Repeated(i) BY <2>1, <2>4, <2>5 DEF Answered
  <2>7. PICK c : c = canonical[input[i].digest] OBVIOUS
  <2>8. /\ Publishable(input[i]) /\ c \in 1 .. i - 1
        /\ out[i].canonical = c /\ out[i].path = out[c].path
    BY <2>6, <2>7 DEF Repeated
  <2>9. c < i /\ c # 0 BY <2>2, <2>8
  <2>10. input[i].digest \in Digest BY <2>2, <2>8, PublishableDigest
  <2>11. c \in Planned /\ input[c].digest = input[i].digest
    BY <1>1, <2>7, <2>9, <2>10, OwnerIsPlanned
  <2>. QED BY <2>8, <2>9, <2>11
<1>2. IInv => DuplicatesPoint BY <1>1 DEF DuplicatesPoint
<1>. QED BY <1>2, PlannerSafe, PTL

-----------------------------------------------------------------------------
\* What it says of the directories.

\* Two sequences begin alike when their elements do.
LEMMA BeginsAlike ==
    ASSUME NEW S, NEW s \in Seq(S), NEW t \in Seq(S), NEW n \in Nat, n # 0, n <= Len(s), n <= Len(t)
    PROVE  SubSeq(s, 1, n) = SubSeq(t, 1, n) <=> \A m \in 1 .. n : s[m] = t[m]
<1>1. Len(s) \in Nat /\ Len(t) \in Nat BY LenProperties
<1>2. \A m \in 1 .. n : m \in 1 .. Len(s) /\ m \in 1 .. Len(t) BY <1>1
<1>3. \A m \in 1 .. n : s[m] \in S /\ t[m] \in S BY <1>2, ElementOfSeq
<1>4. n \in Int /\ 1 \in Int /\ n - 1 + 1 = n /\ 1 <= n OBVIOUS
<1>5. /\ SubSeq(s, 1, n) \in Seq(S)
      /\ Len(SubSeq(s, 1, n)) = IF 1 <= n THEN n - 1 + 1 ELSE 0
      /\ \A m \in 1 .. n - 1 + 1 : SubSeq(s, 1, n)[m] = s[1 + m - 1]
  BY ONLY <1>3, <1>4, SubSeqProperties
<1>6. /\ SubSeq(t, 1, n) \in Seq(S)
      /\ Len(SubSeq(t, 1, n)) = IF 1 <= n THEN n - 1 + 1 ELSE 0
      /\ \A m \in 1 .. n - 1 + 1 : SubSeq(t, 1, n)[m] = t[1 + m - 1]
  BY ONLY <1>3, <1>4, SubSeqProperties
<1>7. PICK u \in Seq(S) : u = SubSeq(s, 1, n) BY <1>5
<1>8. PICK v \in Seq(S) : v = SubSeq(t, 1, n) BY <1>6
<1>9. /\ Len(u) = n /\ Len(v) = n
      /\ \A m \in 1 .. n : u[m] = s[m] /\ v[m] = t[m]
  BY <1>4, <1>5, <1>6, <1>7, <1>8
<1>10. (\A m \in 1 .. n : u[m] = v[m]) => u = v BY <1>9, SeqEqual
<1>. QED BY <1>7, <1>8, <1>9, <1>10

\* What an assignment says of one directory of a planned path.
LEMMA LedAt ==
    ASSUME IInv, NEW i \in Planned
    PROVE  \E path \in Seq(Name), parts \in Seq(Name) :
              /\ path = out[i].path /\ parts = Parts(input[i])
              /\ Len(path) \in Nat /\ Len(path) = Len(parts) + 1
              /\ \A m \in 1 .. Len(path) - 1 : \E e \in assigned :
                    /\ e.parent = [x \in 1 .. m - 1 |-> Key(path[x])]
                    /\ e.raw = parts[m] /\ e.assigned = path[m]
<1>1. TypeOK /\ Answered BY DEF IInv
<1>2. i \in DOMAIN out BY DEF Planned
<1>3. Placed(i) BY <1>1, <1>2, PlannedAreOwners DEF Owner
<1>4. input[i] \in Record /\ out[i].path \in Seq(Name) /\ Len(out[i].path) \in Nat BY <1>1, <1>2, Yielded
<1>5. Parts(input[i]) \in Seq(Name) /\ Len(Parts(input[i])) \in Nat BY <1>4, PartsType
<1>6. PICK path \in Seq(Name) : path = out[i].path BY <1>4
<1>7. PICK parts \in Seq(Name) : parts = Parts(input[i]) BY <1>5
<1>8. PICK front : front = Front(path) OBVIOUS
<1>9. Len(path) = Len(parts) + 1 /\ Led(assigned, front, parts) BY <1>3, <1>6, <1>7, <1>8 DEF Placed
<1>10. Len(path) > 0 /\ Len(path) \in Nat BY <1>4, <1>5, <1>6, <1>7, <1>9
<1>11. Len(front) = Len(path) - 1 /\ \A m \in 1 .. Len(path) - 1 : front[m] = path[m]
  BY <1>8, <1>10, PathIs
<1>12. ASSUME NEW m \in 1 .. Len(path) - 1
       PROVE  \E e \in assigned : /\ e.parent = [x \in 1 .. m - 1 |-> Key(path[x])]
                                  /\ e.raw = parts[m] /\ e.assigned = path[m]
  <2>1. PICK e \in assigned : /\ e.parent = [x \in 1 .. m - 1 |-> Key(front[x])]
                              /\ e.raw = parts[m] /\ e.assigned = front[m]
    BY <1>9, <1>11 DEF Led
  <2>2. \A x \in 1 .. m - 1 : front[x] = path[x] BY <1>10, <1>11
  <2>3. [x \in 1 .. m - 1 |-> Key(front[x])] = [x \in 1 .. m - 1 |-> Key(path[x])] BY <2>2
  <2>. QED BY <1>11, <2>1, <2>3
<1>. QED BY <1>6, <1>7, <1>9, <1>10, <1>12

\* Directories are renamed one for one: records share a public directory exactly
\* when they share the raw one, on the whole of the path (_portable_directories).
THEOREM DirectoriesAreFaithful == Spec => []DirectoriesFaithful
<1>1. ASSUME IInv, NEW i \in Planned, NEW j \in Planned, NEW n \in 1 .. Len(out[i].path) - 1,
             n < Len(out[j].path)
      PROVE  SubSeq(PathKey(i), 1, n) = SubSeq(PathKey(j), 1, n)
             <=> SubSeq(Parts(input[i]), 1, n) = SubSeq(Parts(input[j]), 1, n)
  <2>1. PICK a \in Seq(Name), p \in Seq(Name) :
           /\ a = out[i].path /\ p = Parts(input[i])
           /\ Len(a) \in Nat /\ Len(a) = Len(p) + 1
           /\ \A m \in 1 .. Len(a) - 1 : \E e \in assigned :
                 /\ e.parent = [x \in 1 .. m - 1 |-> Key(a[x])]
                 /\ e.raw = p[m] /\ e.assigned = a[m]
    BY <1>1, LedAt
  <2>2. PICK b \in Seq(Name), q \in Seq(Name) :
           /\ b = out[j].path /\ q = Parts(input[j])
           /\ Len(b) \in Nat /\ Len(b) = Len(q) + 1
           /\ \A m \in 1 .. Len(b) - 1 : \E e \in assigned :
                 /\ e.parent = [x \in 1 .. m - 1 |-> Key(b[x])]
                 /\ e.raw = q[m] /\ e.assigned = b[m]
    BY <1>1, LedAt
  <2>3. KeysUnique /\ Uniform BY <1>1 DEF IInv
  <2>4. /\ n \in Nat /\ n # 0 /\ n <= Len(a) - 1 /\ n <= Len(b) - 1
        /\ n <= Len(a) /\ n <= Len(b) /\ n <= Len(p) /\ n <= Len(q)
    <3>1. Len(p) \in Nat /\ Len(q) \in Nat BY LenProperties
    <3>. QED BY <1>1, <2>1, <2>2, <3>1
  <2>5. SubSeq(Parts(input[i]), 1, n) = SubSeq(Parts(input[j]), 1, n)
        <=> \A m \in 1 .. n : p[m] = q[m]
    <3>1. SubSeq(p, 1, n) = SubSeq(q, 1, n) <=> \A m \in 1 .. n : p[m] = q[m]
      BY <2>4, BeginsAlike
    <3>. QED BY <2>1, <2>2, <3>1
  <2>6. SubSeq(PathKey(i), 1, n) = SubSeq(PathKey(j), 1, n)
        <=> \A m \in 1 .. n : Key(a[m]) = Key(b[m])
    <3>1. PICK s \in Seq(Name) : /\ s = DirKey(a) /\ Len(s) = Len(a)
                                 /\ \A m \in 1 .. Len(a) : s[m] = Key(a[m])
      BY DirKeyType
    <3>2. PICK t \in Seq(Name) : /\ t = DirKey(b) /\ Len(t) = Len(b)
                                 /\ \A m \in 1 .. Len(b) : t[m] = Key(b[m])
      BY DirKeyType
    <3>3. SubSeq(s, 1, n) = SubSeq(t, 1, n) <=> \A m \in 1 .. n : s[m] = t[m]
      BY <2>4, <3>1, <3>2, BeginsAlike
    <3>4. \A m \in 1 .. n : s[m] = Key(a[m]) /\ t[m] = Key(b[m]) BY <2>1, <2>2, <2>4, <3>1, <3>2
    <3>5. PathKey(i) = s /\ PathKey(j) = t BY <2>1, <2>2, <3>1, <3>2 DEF PathKey
    <3>. QED BY <3>3, <3>4, <3>5
  <2>7. \A m \in 1 .. n : m \in 1 .. Len(a) - 1 /\ m \in 1 .. Len(b) - 1
    BY <2>1, <2>2, <2>4
  <2>8. ASSUME NEW m \in 1 .. n, \A x \in 1 .. m - 1 : Key(a[x]) = Key(b[x])
        PROVE  Key(a[m]) = Key(b[m]) <=> p[m] = q[m]
    <3>1. PICK e \in assigned :
             e.parent = [x \in 1 .. m - 1 |-> Key(a[x])] /\ e.raw = p[m] /\ e.assigned = a[m]
      BY <2>1, <2>7
    <3>2. PICK f \in assigned :
             f.parent = [x \in 1 .. m - 1 |-> Key(b[x])] /\ f.raw = q[m] /\ f.assigned = b[m]
      BY <2>2, <2>7
    <3>3. [x \in 1 .. m - 1 |-> Key(a[x])] = [x \in 1 .. m - 1 |-> Key(b[x])] BY <2>8
    <3>4. e.parent = f.parent BY <3>1, <3>2, <3>3
    <3>5. Key(a[m]) = Key(b[m]) => e = f BY <2>3, <3>1, <3>2, <3>4 DEF KeysUnique
    <3>6. p[m] = q[m] => e = f BY <2>3, <3>1, <3>2, <3>4 DEF Uniform
    <3>. QED BY <3>1, <3>2, <3>5, <3>6
  <2>9. ASSUME \A m \in 1 .. n : Key(a[m]) = Key(b[m]), NEW m \in 1 .. n PROVE p[m] = q[m]
    <3>1. \A x \in 1 .. m - 1 : Key(a[x]) = Key(b[x])
      <4>1. \A x \in 1 .. m - 1 : x \in 1 .. n BY <2>4
      <4>. QED BY <2>9, <4>1
    <3>2. Key(a[m]) = Key(b[m]) BY <2>9
    <3>3. Key(a[m]) = Key(b[m]) <=> p[m] = q[m] BY <3>1, <2>8
    <3>. QED BY <3>2, <3>3
  <2>10. ASSUME \A m \in 1 .. n : p[m] = q[m] PROVE \A m \in 1 .. n : Key(a[m]) = Key(b[m])
    <3>. DEFINE T == {m \in 1 .. n : Key(a[m]) # Key(b[m])}
    <3>. SUFFICES ASSUME T # {} PROVE FALSE OBVIOUS
    <3>1. PICK m \in T : \A x \in T : m <= x
      <4>1. T \subseteq Nat BY <2>4
      <4>. HIDE DEF T
      <4>. QED BY <4>1, LeastNumber
    <3>2. m \in 1 .. n /\ Key(a[m]) # Key(b[m]) OBVIOUS
    <3>3. \A x \in 1 .. m - 1 : Key(a[x]) = Key(b[x])
      <4>1. SUFFICES ASSUME NEW x \in 1 .. m - 1 PROVE x \notin T /\ x \in 1 .. n BY DEF T
      <4>2. x \in 1 .. n /\ ~(m <= x) /\ x \in Nat BY <2>4, <3>2
      <4>. HIDE DEF T
      <4>. QED BY <3>1, <4>2
    <3>. HIDE DEF T
    <3>4. p[m] = q[m] BY <2>10, <3>2
    <3>5. Key(a[m]) = Key(b[m]) <=> p[m] = q[m] BY <2>8, <3>2, <3>3
    <3>. QED BY <3>2, <3>4, <3>5
  <2>. QED BY <2>5, <2>6, <2>9, <2>10
<1>2. IInv => DirectoriesFaithful
  <2>. HIDE DEF IInv, Planned, PathKey, Parts
  <2>. QED BY <1>1 DEF DirectoriesFaithful
<1>. QED BY <1>2, PlannerSafe, PTL

-----------------------------------------------------------------------------
\* The stream decides as module Plan does.

\* The records as module Plan takes them.
Occurrences ==
    [i \in Decision!Id |->
        IF i[2] = "ok"
          THEN [digest |-> input[i[1]].digest, status |-> input[i[1]].status]
          ELSE Decision!NoOccurrence]

\* A record as module Plan takes it is publishable when it is.
LEMMA SamePublishable ==
    ASSUME TypeOK, NEW i \in 1 .. M
    PROVE  /\ <<i, "ok">> \in Decision!Id /\ i \in Decision!Leaf
           /\ Occurrences[<<i, "ok">>].digest = input[i].digest
           /\ Occurrences[<<i, "ok">>].status = input[i].status
           /\ Decision!Publishable(Occurrences[<<i, "ok">>], policy.pdfOnly) <=> Publishable(input[i])
<1>1. <<i, "ok">> \in Decision!Id /\ i \in Decision!Leaf
  BY DEF Decision!Id, Decision!Leaf, Decision!Kind
<1>2. <<i, "ok">>[1] = i /\ <<i, "ok">>[2] = "ok" OBVIOUS
<1>3. Occurrences[<<i, "ok">>] = [digest |-> input[i].digest, status |-> input[i].status]
  BY <1>1, <1>2 DEF Occurrences
<1>4. policy.pdfOnly \in BOOLEAN BY PlannerAssumption DEF TypeOK
<1>5. Decision!Publishable(Occurrences[<<i, "ok">>], policy.pdfOnly) <=> Publishable(input[i])
  <2>1. policy.pdfOnly \notin {TRUE} <=> ~policy.pdfOnly BY <1>4, Zenon
  <2>2. PICK o : o = Occurrences[<<i, "ok">>] OBVIOUS
  <2>3. o.digest = input[i].digest /\ o.status = input[i].status BY <1>3, <2>2
  <2>4. Decision!Publishable(o, policy.pdfOnly) <=> Publishable(input[i])
    BY <2>1, <2>3 DEF Decision!Publishable, Publishable
  <2>. QED BY <2>2, <2>4
<1>. QED BY <1>1, <1>3, <1>5

\* When all were planned, a record is the first of its bytes when it owns them.
LEMMA OwnersAreFirst ==
    ASSUME IInv, pos = M + 1, NEW i \in 1 .. M
    PROVE  /\ i \in DOMAIN out
           /\ Decision!FirstOfItsBytes(Occurrences, policy.pdfOnly, i) <=> Owner(i)
<1>1. TypeOK /\ Answered BY DEF IInv
<1>2. M \in Nat BY PlannerAssumption
<1>3. DOMAIN out = 1 .. M
  <2>1. out \in Seq(PlanRecords) /\ Len(out) = pos - 1 BY <1>1 DEF TypeOK, PlanRecords
  <2>. QED BY <1>2, <2>1, LenProperties
<1>4. Decision!Leaf = 1 .. M BY DEF Decision!Leaf
<1>5. \A m \in 1 .. M :
         /\ m \in Nat /\ input[m] \in Record
         /\ Occurrences[<<m, "ok">>].digest = input[m].digest
         /\ Decision!Publishable(Occurrences[<<m, "ok">>], policy.pdfOnly) <=> Publishable(input[m])
  BY <1>1, <1>3, SamePublishable, Yielded
<1>6. Decision!FirstOfItsBytes(Occurrences, policy.pdfOnly, i) <=>
         /\ Publishable(input[i])
         /\ \A m \in 1 .. M : (m < i /\ Publishable(input[m])) => input[m].digest # input[i].digest
  <2>. HIDE DEF Publishable
  <2>. QED BY <1>4, <1>5 DEF Decision!FirstOfItsBytes
<1>7. ASSUME Owner(i), NEW m \in 1 .. M, m < i, Publishable(input[m]), input[m].digest = input[i].digest
      PROVE  FALSE
  <2>1. canonical[input[m].digest] = i BY <1>7 DEF Owner
  <2>2. ~Passed(m) BY <1>7 DEF Passed
  <2>3. ~Owner(m) BY <1>5, <1>7, <2>1 DEF Owner
  <2>4. i \in Nat /\ m \in Nat BY <1>5
  <2>5. ~Repeated(m) BY <1>7, <2>1, <2>4 DEF Repeated
  <2>. QED BY <1>1, <1>3, <2>2, <2>3, <2>5 DEF Answered
<1>8. ASSUME Repeated(i)
      PROVE  \E m \in 1 .. M : m < i /\ Publishable(input[m]) /\ input[m].digest = input[i].digest
  <2>1. PICK c : c = canonical[input[i].digest] OBVIOUS
  <2>2. Publishable(input[i]) /\ c \in 1 .. i - 1 BY <1>8, <2>1 DEF Repeated
  <2>3. c # 0 /\ c \in 1 .. M /\ c < i BY <1>2, <1>5, <2>2
  <2>4. input[i].digest \in Digest BY <1>5, <2>2, PublishableDigest
  <2>5. input[c].digest = input[i].digest /\ Publishable(input[c])
    BY <2>1, <2>3, <2>4, OwnerIsPlanned
  <2>. QED BY <2>3, <2>5
<1>9. Passed(i) \/ Owner(i) \/ Repeated(i) BY <1>1, <1>3 DEF Answered
<1>10. Passed(i) => ~Publishable(input[i]) BY DEF Passed
<1>11. Owner(i) => Publishable(input[i]) BY DEF Owner
<1>. QED BY <1>3, <1>6, <1>7, <1>8, <1>9, <1>10, <1>11

\* When all were planned, the canonical record of known bytes is their owner.
LEMMA CanonicalIsOwner ==
    ASSUME IInv, pos = M + 1, NEW d \in Digest, canonical[d] # 0
    PROVE  Decision!CanonicalLeaf(Occurrences, policy.pdfOnly, d) = canonical[d]
<1>1. TypeOK BY DEF IInv
<1>2. PICK c \in DOMAIN out : c = canonical[d] BY OwnerIsPlanned
<1>3. c \in 1 .. M BY <1>1, Yielded
<1>4. Owner(c) /\ input[c].digest = d BY <1>2, OwnerIsPlanned
<1>5. Decision!Leaf = 1 .. M BY DEF Decision!Leaf
<1>6. \A l \in 1 .. M : /\ Occurrences[<<l, "ok">>].digest = input[l].digest
                        /\ Decision!FirstOfItsBytes(Occurrences, policy.pdfOnly, l) <=> Owner(l)
  BY <1>1, OwnersAreFirst, SamePublishable
<1>7. ASSUME NEW l \in 1 .. M, Owner(l), input[l].digest = d PROVE l = c
  BY <1>2, <1>7 DEF Owner
<1>. HIDE DEF Owner
<1>8. \A l \in Decision!Leaf :
         (Occurrences[<<l, "ok">>].digest = d
            /\ Decision!FirstOfItsBytes(Occurrences, policy.pdfOnly, l)) <=> l = c
  BY <1>3, <1>4, <1>5, <1>6, <1>7
<1>9. c \in Decision!Leaf BY <1>3, <1>5
<1>. QED BY <1>2, <1>8, <1>9 DEF Decision!CanonicalLeaf

\* The stream's answers are the plan of module Plan, on which the modules of the
\* run rest: it never looks ahead and never revises an answer.
THEOREM DecidesLikePlan == Spec => []DecidesAsPlan
<1>1. ASSUME IInv, pos = M + 1, NEW i \in 1 .. M
      PROVE  /\ out[i].status = Decision!PlanOf(Occurrences, policy.pdfOnly)[<<i, "ok">>].status
             /\ out[i].canonical = Decision!PlanOf(Occurrences, policy.pdfOnly)[<<i, "ok">>].canonical
  <2>1. TypeOK /\ Answered BY <1>1 DEF IInv
  <2>2. PICK r : r = Occurrences[<<i, "ok">>] OBVIOUS
  <2>3. PICK entry : entry = Decision!PlanEntry(Occurrences, policy.pdfOnly, <<i, "ok">>) OBVIOUS
  <2>4. /\ <<i, "ok">> \in Decision!Id
        /\ r.digest = input[i].digest /\ r.status = input[i].status
        /\ Decision!Publishable(r, policy.pdfOnly) <=> Publishable(input[i])
    BY <2>1, <2>2, SamePublishable
  <2>5. Decision!PlanOf(Occurrences, policy.pdfOnly)[<<i, "ok">>] = entry
    BY <2>3, <2>4 DEF Decision!PlanOf
  <2>6. i \in DOMAIN out /\ (Decision!FirstOfItsBytes(Occurrences, policy.pdfOnly, i) <=> Owner(i))
    BY <1>1, OwnersAreFirst
  <2>7. <<i, "ok">>[1] = i /\ <<i, "ok">>[2] = "ok" OBVIOUS
  <2>8. i \in Nat /\ i # 0 /\ input[i] \in Record BY <2>1, <2>6, Yielded
  <2>9. entry =
          IF ~Publishable(input[i])
            THEN [digest |-> r.digest, status |-> r.status, canonical |-> 0]
          ELSE IF Owner(i)
            THEN [digest |-> r.digest, canonical |-> i,
                  status |-> IF r.status = "eligible" THEN "published" ELSE r.status]
          ELSE [digest |-> r.digest, status |-> "duplicate",
                canonical |-> Decision!CanonicalLeaf(Occurrences, policy.pdfOnly, r.digest)]
    <3>. HIDE DEF Publishable, Owner
    <3>. QED BY <2>2, <2>3, <2>4, <2>6, <2>7 DEF Decision!PlanEntry
  <2>10. CASE Passed(i)
    <3>1. ~Publishable(input[i]) /\ out[i].status = input[i].status /\ out[i].canonical = 0
      BY <2>10 DEF Passed
    <3>2. entry.status = r.status /\ entry.canonical = 0 BY <2>9, <3>1
    <3>. QED BY <2>4, <2>5, <3>1, <3>2
  <2>11. CASE Owner(i)
    <3>1. Publishable(input[i]) /\ out[i].canonical = i
          /\ out[i].status = IF input[i].status = "eligible" THEN "published" ELSE input[i].status
      BY <2>11 DEF Owner
    <3>2. entry.canonical = i
          /\ entry.status = IF r.status = "eligible" THEN "published" ELSE r.status
      <4>. HIDE DEF Owner
      <4>. QED BY <2>9, <2>11, <3>1
    <3>. QED BY <2>4, <2>5, <3>1, <3>2
  <2>12. CASE Repeated(i)
    <3>1. PICK c : c = canonical[input[i].digest] OBVIOUS
    <3>2. Publishable(input[i]) /\ c \in 1 .. i - 1 /\ out[i].status = "duplicate" /\ out[i].canonical = c
      BY <2>12, <3>1 DEF Repeated
    <3>3. c # 0 /\ c # i BY <2>8, <3>2
    <3>4. ~Owner(i) BY <3>1, <3>3 DEF Owner
    <3>5. input[i].digest \in Digest BY <2>8, <3>2, PublishableDigest
    <3>6. Decision!CanonicalLeaf(Occurrences, policy.pdfOnly, r.digest) = c
      BY <1>1, <2>4, <3>1, <3>3, <3>5, CanonicalIsOwner
    <3>7. entry.status = "duplicate" /\ entry.canonical = c BY <2>9, <3>2, <3>4, <3>6
    <3>. QED BY <2>5, <3>2, <3>7
  <2>. QED BY <2>1, <2>6, <2>10, <2>11, <2>12 DEF Answered
<1>2. IInv => DecidesAsPlan
  <2>. HIDE DEF IInv
  <2>. QED BY <1>1 DEF DecidesAsPlan, Occurrences
<1>. QED BY <1>2, PlannerSafe, PTL
=============================================================================
