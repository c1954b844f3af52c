----------------------------- MODULE RunProofs ------------------------------
(***************************************************************************)
(* The safety of Run, for every number of leaves and processes, every      *)
(* policy and every number of disturbances.                                *)
(*                                                                         *)
(* The invariant has a part about the disk (Durable) and a part about each *)
(* process (Local).  A step of one process changes the disk only in ways   *)
(* that cannot spoil the part of another (Grows): this is what makes the   *)
(* argument independent of the number of processes.                        *)
(***************************************************************************)
EXTENDS Run, WellFoundedInduction, TLAPS

(***************************************************************************)
(* What PlanOf decides, for every set of occurrence records.               *)
(***************************************************************************)

\* A nonempty set of natural numbers has a least element.
LEMMA LeastNumber ==
    ASSUME NEW S \in SUBSET Nat, S # {}
    PROVE  \E l \in S : \A m \in S : l <= m
<1>1. \E l \in S : \A m \in S : <<m, l>> \notin OpToRel(<, Nat)
  BY NatLessThanWellFounded, WFMin
<1>2. PICK l \in S : \A m \in S : <<m, l>> \notin OpToRel(<, Nat)
  BY <1>1
<1>3. ASSUME NEW m \in S PROVE l <= m
  <2>1. <<m, l>> \in Nat \X Nat BY <1>2
  <2>2. ~(m < l) BY <2>1, <1>2 DEF OpToRel
  <2>. QED BY <2>1, <2>2
<1>. QED BY <1>2, <1>3

\* Occurrence tables whose only records with bytes are those of leaves that
\* were read (the invariant of discovery).
BytesOnlyWhenRead(o) == \A i \in Id : o[i].digest # Absent => i[2] = "ok"

\* Leaves are positive numbers, and each can own an occurrence of kind ok.
LEMMA LeafFacts == Leaf \subseteq Nat /\ 0 \notin Leaf /\ \A l \in Leaf : <<l, "ok">> \in Id
BY PlanAssumption DEF Leaf, Id, Kind

\* Bytes that some leaf can publish have a first leaf, which CanonicalLeaf finds.
LEMMA CanonicalLeafExists ==
    ASSUME NEW o \in [Id -> Occurrence], NEW policy, NEW l \in Leaf,
           Publishable(o[<<l, "ok">>], policy)
    PROVE  LET c == CanonicalLeaf(o, policy, o[<<l, "ok">>].digest) IN
           /\ c \in Leaf
           /\ o[<<c, "ok">>].digest = o[<<l, "ok">>].digest
           /\ FirstOfItsBytes(o, policy, c)
<1>. DEFINE d == o[<<l, "ok">>].digest
            S == {m \in Leaf : Publishable(o[<<m, "ok">>], policy) /\ o[<<m, "ok">>].digest = d}
<1>1. S \in SUBSET Nat /\ l \in S BY LeafFacts
<1>2. PICK c \in S : \A m \in S : c <= m BY <1>1, LeastNumber
<1>3. c \in Leaf /\ o[<<c, "ok">>].digest = d BY <1>2
<1>4. FirstOfItsBytes(o, policy, c)
  <2>1. SUFFICES ASSUME NEW m \in Leaf, m < c, Publishable(o[<<m, "ok">>], policy),
                        o[<<m, "ok">>].digest = o[<<c, "ok">>].digest
                 PROVE  FALSE
    BY <1>2 DEF FirstOfItsBytes
  <2>2. m \in S BY <2>1, <1>3
  <2>3. c <= m BY <2>2, <1>2
  <2>. QED BY <2>1, <2>3, <1>3, LeafFacts
<1>5. \E x \in Leaf : o[<<x, "ok">>].digest = d /\ FirstOfItsBytes(o, policy, x)
  BY <1>3, <1>4
<1>. QED BY <1>5 DEF CanonicalLeaf

\* Every record of a plan is a plan record.
LEMMA PlanOfType ==
    ASSUME NEW o \in [Id -> Occurrence], BytesOnlyWhenRead(o), NEW policy
    PROVE  PlanOf(o, policy) \in [Id -> PlanRecord]
<1>1. SUFFICES ASSUME NEW i \in Id PROVE PlanEntry(o, policy, i) \in PlanRecord
  BY DEF PlanOf
<1>2. o[i] \in Occurrence /\ o[i].digest \in Digest \cup {Absent} /\ o[i].status \in Verdicts \cup {"none"}
  BY DEF Occurrence
<1>3. CASE ~Publishable(o[i], policy)
  BY <1>2, <1>3 DEF PlanEntry, PlanRecord
<1>4. CASE Publishable(o[i], policy)
  <2>1. i[2] = "ok" /\ i[1] \in Leaf /\ i = <<i[1], "ok">>
    BY <1>4 DEF Publishable, BytesOnlyWhenRead, Id
  <2>2. CASE FirstOfItsBytes(o, policy, i[1])
    BY <1>2, <1>4, <2>1, <2>2 DEF PlanEntry, PlanRecord
  <2>3. CASE ~FirstOfItsBytes(o, policy, i[1])
    <3>1. CanonicalLeaf(o, policy, o[i].digest) \in Leaf
      BY <2>1, <1>4, CanonicalLeafExists
    <3>. QED BY <1>2, <1>4, <2>1, <2>3, <3>1 DEF PlanEntry, PlanRecord
  <2>. QED BY <2>2, <2>3
<1>. QED BY <1>3, <1>4

\* The canonical leaves of a plan are the first leaves of their bytes.
LEMMA CanonicalOfPlan ==
    ASSUME NEW o \in [Id -> Occurrence], NEW policy, NEW l \in Leaf
    PROVE  /\ PlanOf(o, policy)[<<l, "ok">>].digest = o[<<l, "ok">>].digest
           /\ l \in Canonical(PlanOf(o, policy)) <=> FirstOfItsBytes(o, policy, l)
<1>. DEFINE i == <<l, "ok">>
<1>1. i \in Id /\ l # 0 /\ i[1] = l /\ i[2] = "ok" BY LeafFacts
<1>2. PlanOf(o, policy)[i] = PlanEntry(o, policy, i) BY <1>1 DEF PlanOf
<1>3. CASE ~Publishable(o[i], policy)
  <2>1. PlanEntry(o, policy, i).canonical = 0 /\ PlanEntry(o, policy, i).digest = o[i].digest
    BY <1>3 DEF PlanEntry
  <2>2. ~FirstOfItsBytes(o, policy, l) BY <1>3 DEF FirstOfItsBytes
  <2>. QED BY <1>1, <1>2, <2>1, <2>2 DEF Canonical
<1>4. CASE FirstOfItsBytes(o, policy, l)
  <2>0. Publishable(o[i], policy) BY <1>4 DEF FirstOfItsBytes
  <2>1. PlanEntry(o, policy, i).canonical = l /\ PlanEntry(o, policy, i).digest = o[i].digest
    BY <1>1, <1>4, <2>0 DEF PlanEntry
  <2>. QED BY <1>1, <1>2, <1>4, <2>1 DEF Canonical
<1>5. CASE Publishable(o[i], policy) /\ ~FirstOfItsBytes(o, policy, l)
  <2>1. /\ PlanEntry(o, policy, i).canonical = CanonicalLeaf(o, policy, o[i].digest)
        /\ PlanEntry(o, policy, i).digest = o[i].digest
    BY <1>1, <1>5 DEF PlanEntry
  <2>2. FirstOfItsBytes(o, policy, CanonicalLeaf(o, policy, o[i].digest))
    BY <1>5, CanonicalLeafExists
  <2>3. CanonicalLeaf(o, policy, o[i].digest) # l BY <2>2, <1>5
  <2>. QED BY <1>1, <1>2, <1>5, <2>1, <2>3 DEF Canonical
<1>. QED BY <1>3, <1>4, <1>5

\* Two leaves that come first with the same bytes are one leaf.
LEMMA FirstIsUnique ==
    ASSUME NEW o, NEW policy, NEW l \in Leaf, NEW m \in Leaf,
           FirstOfItsBytes(o, policy, l), FirstOfItsBytes(o, policy, m),
           o[<<l, "ok">>].digest = o[<<m, "ok">>].digest
    PROVE  l = m
<1>1. ~(l < m) /\ ~(m < l) BY DEF FirstOfItsBytes
<1>. QED BY <1>1, LeafFacts

\* A plan publishes each content once, and its duplicates name the record that
\* is published with their bytes (iter_freeze_plan), for any occurrence records.
THEOREM PlanPublishesOnce ==
    ASSUME NEW o \in [Id -> Occurrence], BytesOnlyWhenRead(o), NEW policy
    PROVE  LET pl == PlanOf(o, policy) IN
           /\ \A l, m \in Canonical(pl) :
                 pl[<<l, "ok">>].digest = pl[<<m, "ok">>].digest => l = m
           /\ \A i \in Id : pl[i].status = "duplicate" =>
                 /\ pl[i].canonical \in Canonical(pl)
                 /\ pl[<<pl[i].canonical, "ok">>].digest = pl[i].digest
<1>. DEFINE pl == PlanOf(o, policy)
<1>1. ASSUME NEW l \in Canonical(pl), NEW m \in Canonical(pl),
             pl[<<l, "ok">>].digest = pl[<<m, "ok">>].digest
      PROVE  l = m
  <2>1. l \in Leaf /\ m \in Leaf BY DEF Canonical
  <2>2. /\ FirstOfItsBytes(o, policy, l) /\ FirstOfItsBytes(o, policy, m)
        /\ o[<<l, "ok">>].digest = o[<<m, "ok">>].digest
    BY <1>1, <2>1, CanonicalOfPlan
  <2>. QED BY <2>1, <2>2, FirstIsUnique
<1>2. ASSUME NEW i \in Id, pl[i].status = "duplicate"
      PROVE  /\ pl[i].canonical \in Canonical(pl)
             /\ pl[<<pl[i].canonical, "ok">>].digest = pl[i].digest
  <2>1. pl[i] = PlanEntry(o, policy, i) BY DEF PlanOf
  <2>2. o[i].status # "duplicate" BY DEF Occurrence, Verdicts
  <2>3. Publishable(o[i], policy)
    <3>1. SUFFICES ASSUME ~Publishable(o[i], policy) PROVE FALSE OBVIOUS
    <3>2. PlanEntry(o, policy, i).status = o[i].status BY <3>1 DEF PlanEntry
    <3>. QED BY <3>2, <2>1, <2>2, <1>2
  <2>4. i[2] = "ok" /\ i[1] \in Leaf /\ i = <<i[1], "ok">>
    BY <2>3 DEF Publishable, BytesOnlyWhenRead, Id
  <2>5. ~FirstOfItsBytes(o, policy, i[1])
    <3>1. SUFFICES ASSUME FirstOfItsBytes(o, policy, i[1]) PROVE FALSE OBVIOUS
    <3>2. PlanEntry(o, policy, i).status =
             IF o[i].status = "eligible" THEN "published" ELSE o[i].status
      BY <3>1, <2>3, <2>4 DEF PlanEntry
    <3>. QED BY <3>2, <2>1, <2>2, <1>2
  <2>6. /\ pl[i].canonical = CanonicalLeaf(o, policy, o[i].digest)
        /\ pl[i].digest = o[i].digest
    BY <2>1, <2>3, <2>5 DEF PlanEntry
  <2>7. LET c == pl[i].canonical IN
        c \in Leaf /\ o[<<c, "ok">>].digest = o[i].digest /\ FirstOfItsBytes(o, policy, c)
    BY <2>3, <2>4, <2>6, CanonicalLeafExists
  <2>. QED BY <2>6, <2>7, CanonicalOfPlan
<1>. QED BY <1>1, <1>2

-----------------------------------------------------------------------------
(***************************************************************************)
(* The invariant of a run.                                                 *)
(***************************************************************************)

HasRecord == \E i \in Id : occ[i].status # "none"

Delivered(l) == public[l] = Planned(l)

PlanSound == OneFilePerContent /\ \A l \in Canonical(plan) : Planned(l) \in Digest

Durable ==
    /\ BytesOnlyWhenRead(occ)
    /\ BlobsCoverJournal
    /\ PlanSound
    /\ PublicIntact
    /\ MarksTrue
    /\ phase # "discovery" => plan # NoPlan
    /\ phase = "complete" =>
          outcome = OutcomeOf(plan) /\ \A l \in Canonical(plan) : Delivered(l)

Ingesting == {"staged", "blob", "record"}
Placing == {"copied", "link", "unlink", "mark"}
Closing == {"outputs", "writing", "replace", "complete"}

\* The lines of the manifest have been made.
Decided(p) ==
    \/ pc[p] \in {"replace", "complete"}
    \/ pc[p] \in {"outputs", "writing"} /\ OutputAt(cur[p]) = "report"

Local(p) ==
    /\ pc[p] # "off" => \E id \in Identity : who[p] = {id}
    /\ pc[p] \notin {"off", "prepare"} => meta = who[p]
    /\ pc[p] \in Ingesting => cur[p] \in Leaf /\ got[p] \in Digest
    /\ pc[p] \in {"blob", "record"} => got[p] \in blobs
    /\ (pc[p] = "discover" /\ cur[p] # 1) \/ pc[p] = "freeze" => HasRecord
    /\ pc[p] \in Placing \cup Closing \cup {"publish"} => plan # NoPlan
    /\ pc[p] \in Placing => cur[p] \in Canonical(plan)
    /\ pc[p] = "publish" => cur[p] # 0
    /\ stage[p] # Absent => pc[p] \in {"copied", "link", "unlink"}
    /\ pc[p] = "link" => stage[p] = Planned(cur[p])
    /\ pc[p] \in {"unlink", "mark"} => Delivered(cur[p])
    /\ pc[p] \in Placing \cup {"publish"} =>
          \A l \in Canonical(plan) : l < cur[p] => Delivered(l)
    /\ pc[p] \in Closing => \A l \in Canonical(plan) : Delivered(l)
    /\ Decided(p) => result[p] = OutcomeOf(plan)
    /\ exit[p] \in {"success", "partial"} =>
          phase = "complete" /\ (exit[p] = "partial" <=> OutcomeOf(plan) = "partial")

Safe == TypeOK /\ Durable /\ \A p \in Proc : Local(p)

\* What every step does to the disk.
Grows ==
    /\ meta # {} => meta' = meta
    /\ blobs \subseteq blobs'
    /\ HasRecord => HasRecord'
    /\ plan # NoPlan => plan' = plan
    /\ phase' = "discovery" => phase = "discovery"
    /\ phase = "complete" => phase' = "complete"
    /\ \A l \in Leaf : public[l] # Absent => public'[l] = public[l]

\* What a step of p leaves alone.
Others(p) ==
    \A q \in Proc \ {p} :
        /\ pc'[q] = pc[q] /\ who'[q] = who[q] /\ cur'[q] = cur[q] /\ got'[q] = got[q]
        /\ memb'[q] = memb[q] /\ exit'[q] = exit[q] /\ stage'[q] = stage[q]
        /\ result'[q] = result[q]

\* Nothing is canonical before a plan is frozen.
LEMMA NoPlanFacts == Canonical(NoPlan) = {} /\ \A i \in Id : NoPlan[i].status = "none"
BY LeafFacts DEF Canonical, NoPlan

\* What is delivered stays delivered.
LEMMA DeliveredStays ==
    ASSUME Safe, Grows, NEW l \in Canonical(plan), Delivered(l)
    PROVE  l \in Canonical(plan)' /\ Delivered(l)' /\ plan' = plan
<1>1. plan # NoPlan BY NoPlanFacts
<1>2. plan' = plan BY <1>1 DEF Grows
<1>3. l \in Leaf /\ public[l] # Absent
  BY PlanAssumption DEF Safe, Durable, PlanSound, Delivered, Canonical
<1>4. public'[l] = public[l] BY <1>3 DEF Grows
<1>. QED BY <1>2, <1>4 DEF Delivered, Canonical, Planned

\* A step of one process, or of the surroundings, does not spoil what is known
\* of a process whose own state it leaves alone.
LEMMA LocalStays ==
    ASSUME Safe, Grows, NEW q \in Proc, pc'[q] = pc[q], who'[q] = who[q],
           cur'[q] = cur[q], got'[q] = got[q], exit'[q] = exit[q], stage'[q] = stage[q],
           result'[q] = result[q]
    PROVE  Local(q)'
<1>. USE DEF Safe
<1>1. pc[q] \notin {"off", "prepare"} => meta' = who'[q] BY DEF Local, Grows
<1>2. pc[q] \in {"blob", "record"} => got[q] \in blobs' BY DEF Local, Grows
<1>3. (pc[q] = "discover" /\ cur[q] # 1) \/ pc[q] = "freeze" => HasRecord' BY DEF Local, Grows
<1>4. pc[q] \in Placing \cup Closing \cup {"publish"} => plan' = plan /\ plan # NoPlan
  BY DEF Local, Grows
<1>5. pc[q] \in Placing => cur[q] \in Canonical(plan)' BY <1>4 DEF Local, Canonical
<1>6. pc[q] = "link" => stage[q] = Planned(cur[q])' BY <1>4 DEF Local, Planned, Placing
<1>7. pc[q] \in {"unlink", "mark"} => Delivered(cur[q])'
  <2>1. pc[q] \in {"unlink", "mark"} => cur[q] \in Canonical(plan) /\ Delivered(cur[q])
    BY DEF Local, Placing
  <2>. QED BY <2>1, DeliveredStays, <1>4 DEF Placing
<1>8. pc[q] \in Placing \cup {"publish"} =>
         \A l \in Canonical(plan)' : l < cur[q] => Delivered(l)'
  <2>1. ASSUME pc[q] \in Placing \cup {"publish"}, NEW l \in Canonical(plan)', l < cur[q]
        PROVE  Delivered(l)'
    <3>1. l \in Canonical(plan) BY <2>1, <1>4 DEF Canonical
    <3>2. Delivered(l) BY <2>1, <3>1 DEF Local
    <3>. QED BY <3>1, <3>2, DeliveredStays
  <2>. QED BY <2>1
<1>9. pc[q] \in Closing => \A l \in Canonical(plan)' : Delivered(l)'
  <2>1. ASSUME pc[q] \in Closing, NEW l \in Canonical(plan)'
        PROVE  Delivered(l)'
    <3>1. l \in Canonical(plan) BY <2>1, <1>4 DEF Canonical
    <3>2. Delivered(l) BY <2>1, <3>1 DEF Local
    <3>. QED BY <3>1, <3>2, DeliveredStays
  <2>. QED BY <2>1
<1>10. exit[q] \in {"success", "partial"} =>
          phase' = "complete" /\ (exit[q] = "partial" <=> OutcomeOf(plan)' = "partial")
  <2>1. exit[q] \in {"success", "partial"} => phase = "complete" /\ plan # NoPlan
    BY DEF Local, Durable
  <2>2. exit[q] \in {"success", "partial"} => phase' = "complete" /\ plan' = plan
    BY <2>1 DEF Grows
  <2>. QED BY <2>2 DEF Local, OutcomeOf
<1>11. Decided(q)' => result'[q] = OutcomeOf(plan)'
  <2>1. Decided(q)' => Decided(q) /\ pc[q] \in Closing BY DEF Decided, Closing
  <2>2. Decided(q)' => result[q] = OutcomeOf(plan) /\ plan' = plan BY <2>1, <1>4 DEF Local
  <2>. QED BY <2>2 DEF OutcomeOf
<1>. QED BY <1>1, <1>2, <1>3, <1>4, <1>5, <1>6, <1>7, <1>8, <1>9, <1>10, <1>11 DEF Local

Disk == <<meta, phase, outcome, blobRows, occ, plan, marks, blobs, public>>

\* The durable part depends on the journal, the store and the phase only.
LEMMA DurableFrame ==
    ASSUME Durable, UNCHANGED Disk
    PROVE  Durable' /\ Grows
<1>1. Grows BY DEF Disk, Grows, HasRecord
<1>2. Durable'
  BY DEF Durable, Disk, BytesOnlyWhenRead, BlobsCoverJournal, PlanSound, OneFilePerContent,
         PublicIntact, MarksTrue, Delivered, Planned, OutcomeOf, Canonical
<1>. QED BY <1>1, <1>2

StepOK(p) == TypeOK' /\ Durable' /\ Grows /\ Local(p)' /\ Others(p)

\* Counting through the leaves from 1 reaches each and then goes beyond.
LEMMA FirstLeaf == 1 \in Leaf /\ Leaf \subseteq Nat /\ \A l \in Leaf : l + 1 \in Nat
BY PlanAssumption DEF Leaf

-----------------------------------------------------------------------------
\* Steps that leave the disk alone.

\* A process that ends holds nothing, whatever its exit code.
LEMMA LeaveOK ==
    ASSUME Safe, NEW p \in Proc, NEW code \in ExitCode \ {"success", "partial"},
           Leave(p, code), UNCHANGED <<Disk, acct, source, budget>>,
           tmp' \subseteq tmp, orphans' \subseteq Leaf,
           files' = files, writing' \in [Out -> SUBSET Draft],
           stage' = [stage EXCEPT ![p] = Absent]
    PROVE  StepOK(p)
<1>1. TypeOK'
  BY DEF Safe, TypeOK, JournalTypeOK, StoreTypeOK, OutputTypeOK, Outcomes, Leave, Goto, Label, Disk
<1>2. Durable' /\ Grows BY DurableFrame DEF Safe, Disk
<1>3. Local(p)'
  BY DEF Safe, TypeOK, StoreTypeOK, Leave, Goto, Local, Ingesting, Placing, Closing, Decided, ExitCode
<1>4. Others(p)
  BY DEF Safe, TypeOK, StoreTypeOK, Leave, Goto, Others
<1>. QED BY <1>1, <1>2, <1>3, <1>4 DEF StepOK

\* A disturbance leaves the budget a budget.
LEMMA SpendType ==
    ASSUME budget \in [Disturbance -> Nat], NEW d \in Disturbance, Spend(d)
    PROVE  budget' \in [Disturbance -> Nat]
BY DEF Spend

\* Processor.__init__ preserves what is safe.
LEMMA StartOK ==
    ASSUME Safe, NEW p \in Proc, NEW policy \in Policy, Start(p, policy)
    PROVE  StepOK(p)
<1>. USE DEF Safe
<1>1. PICK unread \in SUBSET Leaf :
        /\ who' = [who EXCEPT ![p] = {[fp |-> source, unread |-> unread, policy |-> policy]}]
        /\ budget' \in [Disturbance -> Nat]
  <2>1. PICK u \in {{}} \cup {{l} : l \in Leaf} :
          /\ who' = [who EXCEPT ![p] = {[fp |-> source, unread |-> u, policy |-> policy]}]
          /\ IF u = {} THEN UNCHANGED budget ELSE Spend("fingerprint")
    BY DEF Start
  <2>2. u \in SUBSET Leaf BY <2>1
  <2>3. budget' \in [Disturbance -> Nat] BY <2>1, SpendType DEF TypeOK, Disturbance
  <2>. QED BY <2>1, <2>2, <2>3
<1>2. [fp |-> source, unread |-> unread, policy |-> policy] \in Identity
  BY DEF Identity, TypeOK
<1>3. TypeOK'
  BY <1>1, <1>2 DEF Start, TypeOK, JournalTypeOK, StoreTypeOK, OutputTypeOK, Goto, At, Label,
     ExitCode, journalVars, storeVars, outputVars
<1>4. Durable' /\ Grows
  BY DurableFrame DEF Start, Disk, journalVars, storeVars
<1>5. Local(p)'
  BY <1>1, <1>2 DEF Start, At, TypeOK, Goto, Local, Ingesting, Placing, Closing, Decided, storeVars
<1>6. Others(p) BY <1>1 DEF Start, TypeOK, StoreTypeOK, Goto, Others, storeVars
<1>. QED BY <1>3, <1>4, <1>5, <1>6 DEF StepOK

\* The steps of a process that write neither journal nor store and go on to
\* label, with the cursor on n.
LEMMA QuietOK ==
    ASSUME Safe, NEW p \in Proc, NEW label \in Label \ {"off"}, NEW n \in Nat,
           At(p, "publish") \/ ~At(p, "off"),
           UNCHANGED <<Disk, acct, tmp, stage, orphans, source, budget>>,
           files' \in [Out -> SUBSET Body], writing' \in [Out -> SUBSET Draft],
           pc' = [pc EXCEPT ![p] = label], cur' = [cur EXCEPT ![p] = n],
           UNCHANGED <<who, got, memb, exit>>,
           result' \in [Proc -> Outcomes], \A q \in Proc \ {p} : result'[q] = result[q],
           Local(p)'
    PROVE  StepOK(p)
<1>1. TypeOK'
  BY DEF Safe, TypeOK, JournalTypeOK, StoreTypeOK, OutputTypeOK, Disk
<1>2. Durable' /\ Grows BY DurableFrame DEF Safe, Disk
<1>3. Others(p) BY DEF Safe, TypeOK, Others
<1>. QED BY <1>1, <1>2, <1>3 DEF StepOK

\* Passing over a record that is not canonical preserves what is safe.
LEMMA PassRecordOK ==
    ASSUME Safe, NEW p \in Proc, PassRecord(p) PROVE StepOK(p)
<1>1. cur[p] \in Nat /\ cur[p] \notin Canonical(plan) /\ pc[p] = "publish"
  BY DEF Safe, TypeOK, PassRecord, At
<1>2. \A l \in Canonical(plan) : l < cur[p] + 1 => Delivered(l)
  <2>1. ASSUME NEW l \in Canonical(plan), l < cur[p] + 1 PROVE Delivered(l)
    <3>1. l \in Nat /\ l # cur[p] BY <1>1, FirstLeaf DEF Canonical
    <3>2. l < cur[p] BY <3>1, <2>1, <1>1
    <3>. QED BY <3>2, <1>1 DEF Safe, Local
  <2>. QED BY <2>1
<1>3. /\ UNCHANGED <<Disk, acct, tmp, stage, orphans, source, budget, files, writing>>
      /\ pc' = [pc EXCEPT ![p] = "publish"] /\ cur' = [cur EXCEPT ![p] = cur[p] + 1]
      /\ UNCHANGED <<who, got, memb, exit, result>>
  BY DEF PassRecord, GotoAt, Goto, NextRecord, Disk, journalVars, storeVars, World, outputVars
<1>4. Local(p)'
  BY <1>1, <1>2, <1>3 DEF Safe, TypeOK, Local, Delivered, Planned, Canonical, Disk, OutcomeOf,
     Ingesting, Placing, Closing, Decided
<1>5. cur[p] + 1 \in Nat BY <1>1
<1>. QED
  BY <1>1, <1>3, <1>4, <1>5, QuietOK DEF Safe, TypeOK, OutputTypeOK, Label, At

\* A file found with the planned hash may be marked.
LEMMA AcceptPublishedOK ==
    ASSUME Safe, NEW p \in Proc, AcceptPublished(p) PROVE StepOK(p)
<1>1. cur[p] \in Nat /\ cur[p] \in Canonical(plan) /\ pc[p] = "publish" /\ Delivered(cur[p])
  BY DEF Safe, TypeOK, AcceptPublished, At, FoundPublished, Delivered
<1>2. Local(p)'
  BY <1>1 DEF Safe, TypeOK, AcceptPublished, Stay, Goto, Local, Delivered, Planned, Canonical,
     journalVars, storeVars, Ingesting, Placing, Closing, Decided
<1>3. cur' = [cur EXCEPT ![p] = cur[p]] BY DEF Safe, TypeOK, AcceptPublished, Stay
<1>. QED
  BY <1>1, <1>2, <1>3, QuietOK DEF AcceptPublished, Stay, Goto, Disk, journalVars, storeVars, World,
     outputVars, Safe, TypeOK, OutputTypeOK, Label, At

\* A stage that matches its blob may be linked.
LEMMA VerifyStageOK ==
    ASSUME Safe, NEW p \in Proc, VerifyStage(p) PROVE StepOK(p)
<1>1. cur[p] \in Nat /\ pc[p] = "copied" /\ stage[p] = Planned(cur[p])
  BY DEF Safe, TypeOK, VerifyStage, At, StageMatches
<1>2. Local(p)'
  BY <1>1 DEF Safe, TypeOK, VerifyStage, Stay, Goto, Local, Delivered, Planned, Canonical,
     journalVars, storeVars, Ingesting, Placing, Closing, Decided
<1>3. cur' = [cur EXCEPT ![p] = cur[p]] BY DEF Safe, TypeOK, VerifyStage, Stay
<1>. QED
  BY <1>1, <1>2, <1>3, QuietOK DEF VerifyStage, Stay, Goto, Disk, journalVars, storeVars, World,
     outputVars, Safe, TypeOK, OutputTypeOK, Label, At

\* When the plan is exhausted every canonical file is in place.
LEMMA EndPublishOK ==
    ASSUME Safe, NEW p \in Proc, EndPublish(p) PROVE StepOK(p)
<1>1. cur[p] \in Nat /\ pc[p] = "publish" /\ cur[p] \notin Leaf /\ cur[p] # 0
  BY DEF Safe, TypeOK, EndPublish, At, Local
<1>2. \A l \in Canonical(plan) : Delivered(l)
  <2>1. ASSUME NEW l \in Canonical(plan) PROVE Delivered(l)
    <3>1. l < cur[p] BY <1>1, PlanAssumption DEF Canonical, Leaf
    <3>. QED BY <3>1, <1>1 DEF Safe, Local
  <2>. QED BY <2>1
<1>3. /\ UNCHANGED <<Disk, acct, tmp, stage, orphans, source, budget, files, writing>>
      /\ pc' = [pc EXCEPT ![p] = "outputs"] /\ cur' = [cur EXCEPT ![p] = 1]
      /\ UNCHANGED <<who, got, memb, exit, result>>
  BY DEF EndPublish, GotoAt, Goto, Disk, journalVars, storeVars, World, outputVars
<1>4. Local(p)'
  BY <1>1, <1>2, <1>3 DEF Safe, TypeOK, Local, Delivered, Planned, Canonical, Disk, OutcomeOf,
     Ingesting, Placing, Closing, Decided, OutputAt
<1>. QED
  BY <1>1, <1>3, <1>4, QuietOK DEF Safe, TypeOK, OutputTypeOK, Label, At

\* The outputs are the manifest and the report.
LEMMA OutputNames == \A n : OutputAt(n) \in Out
BY DEF OutputAt, Out

\* Opening a draft preserves what is safe.
LEMMA BeginOutputOK ==
    ASSUME Safe, NEW p \in Proc, BeginOutput(p) PROVE StepOK(p)
<1>1. cur[p] \in Nat /\ pc[p] = "outputs" BY DEF Safe, TypeOK, BeginOutput, At
<1>2. files' = files /\ writing' \in [Out -> SUBSET Draft]
  BY OutputNames DEF BeginOutput, OpenDraft, Blank, Outcomes, Draft, Body, Safe, TypeOK, OutputTypeOK
<1>3. /\ UNCHANGED <<Disk, acct, tmp, stage, orphans, source, budget>>
      /\ pc' = [pc EXCEPT ![p] = "writing"] /\ UNCHANGED cur
      /\ UNCHANGED <<who, got, memb, exit, result>>
  BY DEF BeginOutput, Stay, Goto, Disk, journalVars, storeVars, World
<1>4. Local(p)'
  BY <1>1, <1>3 DEF Safe, TypeOK, Local, Delivered, Planned, Canonical, Disk, OutcomeOf,
     Ingesting, Placing, Closing, Decided
<1>5. cur' = [cur EXCEPT ![p] = cur[p]] BY <1>3 DEF Safe, TypeOK
<1>. QED
  BY <1>1, <1>2, <1>3, <1>4, <1>5, QuietOK DEF Safe, TypeOK, OutputTypeOK, Label, At

\* Writing a draft preserves what is safe.
LEMMA WriteOutputOK ==
    ASSUME Safe, NEW p \in Proc, WriteOutput(p) PROVE StepOK(p)
<1>0. OutcomeDecided(p) \in Outcomes BY DEF Safe, TypeOK, OutcomeDecided, OutcomeOf, Outcomes
<1>1. cur[p] \in Nat /\ pc[p] = "writing" BY DEF Safe, TypeOK, WriteOutput, At
<1>2. files' = files /\ writing' \in [Out -> SUBSET Draft]
  <2>. DEFINE f == OutputAt(cur[p])
              b == Rendering(f, memb[p], OutcomeDecided(p))
              new == {IF d.by = p THEN [d EXCEPT !.body = b] ELSE d : d \in writing[f]}
  <2>1. f \in Out /\ writing[f] \in SUBSET Draft /\ b \in Body
    BY <1>0, OutputNames DEF Safe, TypeOK, OutputTypeOK, Rendering, Body, Outcomes
  <2>2. new \in SUBSET Draft BY <2>1 DEF Draft
  <2>3. writing' = [writing EXCEPT ![f] = new] /\ files' = files BY DEF WriteOutput, FillDraft
  <2>. QED BY <2>1, <2>2, <2>3 DEF Safe, TypeOK, OutputTypeOK
<1>3. /\ UNCHANGED <<Disk, acct, tmp, stage, orphans, source, budget>>
      /\ pc' = [pc EXCEPT ![p] = "replace"] /\ UNCHANGED cur
      /\ UNCHANGED <<who, got, memb, exit>> /\ result' = [result EXCEPT ![p] = OutcomeDecided(p)]
  BY DEF WriteOutput, Goto, Disk, journalVars, storeVars, World
<1>4. result'[p] = OutcomeOf(plan)
  <2>1. result'[p] = OutcomeDecided(p) BY <1>3 DEF Safe, TypeOK
  <2>2. OutputAt(cur[p]) \in {"manifest", "report"} BY DEF OutputAt
  <2>. QED BY <1>1, <2>1, <2>2 DEF OutcomeDecided, Safe, Local, Decided
<1>5. Local(p)'
  BY <1>1, <1>3, <1>4 DEF Safe, TypeOK, Local, Delivered, Planned, Canonical, Disk, OutcomeOf,
     Ingesting, Placing, Closing, Decided
<1>6. cur' = [cur EXCEPT ![p] = cur[p]] BY <1>3 DEF Safe, TypeOK
<1>7. result' \in [Proc -> Outcomes] /\ \A q \in Proc \ {p} : result'[q] = result[q]
  BY <1>0, <1>3 DEF Safe, TypeOK
<1>. QED
  BY <1>1, <1>2, <1>3, <1>5, <1>6, <1>7, QuietOK DEF Safe, TypeOK, OutputTypeOK, Label, At

\* Renaming a draft preserves what is safe.
LEMMA CommitOutputOK ==
    ASSUME Safe, NEW p \in Proc, CommitOutput(p) PROVE StepOK(p)
<1>1. cur[p] \in Nat /\ pc[p] = "replace" BY DEF Safe, TypeOK, CommitOutput, At
<1>2. files' \in [Out -> SUBSET Body] /\ writing' \in [Out -> SUBSET Draft]
  <2>. DEFINE f == OutputAt(cur[p])
  <2>1. f \in Out /\ writing[f] \in SUBSET Draft
    BY OutputNames DEF Safe, TypeOK, OutputTypeOK
  <2>2. {d.body : d \in writing[f]} \in SUBSET Body BY <2>1 DEF Draft
  <2>. QED BY <2>1, <2>2 DEF CommitOutput, ReplaceOutput, Safe, TypeOK, OutputTypeOK
<1>3. PICK label \in {"outputs", "complete"}, n \in Nat :
        pc' = [pc EXCEPT ![p] = label] /\ cur' = [cur EXCEPT ![p] = n]
  BY DEF CommitOutput, GotoAt, Goto
<1>4. /\ UNCHANGED <<Disk, acct, tmp, stage, orphans, source, budget>>
      /\ UNCHANGED <<who, got, memb, exit, result>>
  BY DEF CommitOutput, GotoAt, Disk, journalVars, storeVars, World
<1>5. Local(p)'
  BY <1>1, <1>3, <1>4 DEF Safe, TypeOK, Local, Delivered, Planned, Canonical, Disk, OutcomeOf,
     Ingesting, Placing, Closing, Decided
<1>. QED
  BY <1>1, <1>2, <1>3, <1>4, <1>5, QuietOK DEF Safe, TypeOK, Label, At

-----------------------------------------------------------------------------
\* The steps that end a process.

\* Ending with a conflict or a fatal error preserves what is safe.
LEMMA RefusalsOK ==
    ASSUME Safe, NEW p \in Proc,
           RefuseRun(p) \/ RefuseFreeze(p) \/ RefusePublished(p) \/ LoseOutput(p)
    PROVE  StepOK(p)
<1>1. PICK code \in {"conflict", "fatal"} : Leave(p, code)
  BY DEF RefuseRun, RefuseFreeze, RefusePublished, LoseOutput
<1>2. UNCHANGED <<Disk, acct, tmp, stage, orphans, source, budget, files, writing>>
  BY DEF RefuseRun, RefuseFreeze, RefusePublished, LoseOutput, Disk, journalVars, storeVars,
     outputVars, World
<1>3. stage[p] = Absent
  BY DEF RefuseRun, RefuseFreeze, RefusePublished, LoseOutput, At, Safe, Local
<1>4. stage' = [stage EXCEPT ![p] = Absent] BY <1>2, <1>3 DEF Safe, TypeOK, StoreTypeOK
<1>. QED BY <1>1, <1>2, <1>4, LeaveOK DEF ExitCode, Safe, TypeOK, StoreTypeOK, OutputTypeOK

\* Dropping a damaged or late stage and ending preserves what is safe.
LEMMA StageRefusalsOK ==
    ASSUME Safe, NEW p \in Proc, RejectStage(p) \/ RefuseLink(p)
    PROVE  StepOK(p)
<1>1. Leave(p, "fatal") BY DEF RejectStage, RefuseLink
<1>2. /\ UNCHANGED <<Disk, acct, tmp, orphans, source, budget, files, writing>>
      /\ stage' = [stage EXCEPT ![p] = Absent]
  BY DEF RejectStage, RefuseLink, UnlinkStage, Disk, journalVars, outputVars, World
<1>. QED BY <1>1, <1>2, LeaveOK DEF ExitCode, Safe, TypeOK, StoreTypeOK, OutputTypeOK

-----------------------------------------------------------------------------
\* Opening: prepare, then the store.

\* After prepare the journal's identity is the one of the process.
LEMMA PrepareRunOK ==
    ASSUME Safe, NEW p \in Proc, PrepareRun(p) PROVE StepOK(p)
<1>1. pc[p] = "prepare" /\ \E id \in Identity : who[p] = {id}
  BY DEF PrepareRun, At, Safe, Local
<1>2. /\ meta \subseteq who[p] /\ meta' = who[p]
      /\ UNCHANGED <<phase, outcome, acct, blobRows, occ, plan, marks, storeVars, outputVars,
                    source, budget, who, cur, got, memb, exit, result>>
      /\ pc' = [pc EXCEPT ![p] = "open"]
  BY DEF PrepareRun, Prepare, AdoptIdentity, Stay, Goto, World
<1>3. TypeOK'
  BY <1>1, <1>2 DEF Safe, TypeOK, JournalTypeOK, StoreTypeOK, OutputTypeOK, storeVars, outputVars, Label
<1>4. Grows BY <1>1, <1>2 DEF Grows, HasRecord, storeVars
<1>5. Durable'
  BY <1>2 DEF Safe, Durable, BytesOnlyWhenRead, BlobsCoverJournal, PlanSound, OneFilePerContent,
     PublicIntact, MarksTrue, Delivered, Planned, OutcomeOf, Canonical, storeVars
<1>6. Local(p)'
  BY <1>1, <1>2 DEF Safe, TypeOK, Local, Ingesting, Placing, Closing, Decided, OutcomeOf, storeVars
<1>7. Others(p) BY <1>2 DEF Safe, TypeOK, Others, storeVars
<1>. QED BY <1>3, <1>4, <1>5, <1>6, <1>7 DEF StepOK

\* Cleaning the private directory never touches a committed blob.
LEMMA OpenStoreOK ==
    ASSUME Safe, NEW p \in Proc, OpenStore(p) PROVE StepOK(p)
<1>1. /\ pc[p] = "open"
      /\ UNCHANGED <<Disk, acct, stage, orphans, files, writing, source, budget, who, got, exit, result>>
      /\ tmp' = {}
      /\ cur' = [cur EXCEPT ![p] = 1]
      /\ memb' \in [Proc -> Nat]
      /\ \A q \in Proc \ {p} : memb'[q] = memb[q]
      /\ \/ pc' = [pc EXCEPT ![p] = "discover"]
         \/ phase # "discovery" /\ pc' = [pc EXCEPT ![p] = "publish"]
  BY DEF OpenStore, At, CleanupIncomplete, GotoAt, Goto, RestoredMembers, Disk, journalVars,
     outputVars, World, Safe, TypeOK, JournalTypeOK
<1>2. TypeOK'
  BY <1>1 DEF Safe, TypeOK, JournalTypeOK, StoreTypeOK, OutputTypeOK, Label, Disk
<1>3. Durable' /\ Grows BY <1>1, DurableFrame DEF Safe
<1>4. \A l \in Canonical(plan) : ~(l < 1) BY PlanAssumption DEF Canonical, Leaf
<1>5. phase # "discovery" => plan # NoPlan BY DEF Safe, Durable
<1>6. Local(p)'
  <2>1. /\ pc'[p] = "discover" \/ (pc'[p] = "publish" /\ plan # NoPlan)
        /\ cur'[p] = 1 /\ who'[p] = who[p] /\ exit'[p] = exit[p] /\ stage'[p] = stage[p]
        /\ meta' = meta /\ plan' = plan /\ phase' = phase
    BY <1>1, <1>5 DEF Safe, TypeOK, Disk
  <2>2. /\ \E id \in Identity : who[p] = {id}
        /\ meta = who[p] /\ stage[p] = Absent
        /\ exit[p] \in {"success", "partial"} =>
              phase = "complete" /\ (exit[p] = "partial" <=> OutcomeOf(plan) = "partial")
    BY <1>1 DEF Safe, Local
  <2>3. OutcomeOf(plan)' = OutcomeOf(plan) /\ Canonical(plan)' = Canonical(plan)
    BY <2>1 DEF OutcomeOf, Canonical
  <2>. QED BY <1>4, <2>1, <2>2, <2>3 DEF Local, Ingesting, Placing, Closing, Decided
<1>7. Others(p) BY <1>1 DEF Safe, TypeOK, Others
<1>. QED BY <1>2, <1>3, <1>6, <1>7 DEF StepOK

-----------------------------------------------------------------------------
\* Discovery: occurrence records, blobs and their rows.

\* Recording an occurrence whose bytes are in the store, and going on to the
\* next leaf.
LEMMA RecordOK ==
    ASSUME Safe, NEW p \in Proc, pc[p] \in {"discover", "staged", "record"},
           NEW l \in Leaf, l = cur[p], NEW kind \in Kind, NEW r \in Occurrence,
           r.status # "none", r.digest \in blobs \cup {Absent},
           r.digest # Absent => kind = "ok",
           RecordOccurrence(<<l, kind>>, r),
           pc' = [pc EXCEPT ![p] = "discover"], cur' = [cur EXCEPT ![p] = @ + 1],
           got' = [got EXCEPT ![p] = Absent],
           UNCHANGED <<who, memb, exit, result, blobs, stage, public, orphans, files, writing, source>>,
           tmp' \subseteq tmp, budget' \in [Disturbance -> Nat]
    PROVE  StepOK(p)
<1>1. <<l, kind>> \in Id /\ l # 0 /\ l + 1 # 1 /\ l + 1 \in Nat BY FirstLeaf, LeafFacts DEF Id
<1>2. /\ occ' = [occ EXCEPT ![<<l, kind>>] = r]
      /\ UNCHANGED <<meta, phase, outcome, acct, blobRows, plan, marks>>
  BY DEF RecordOccurrence
<1>3. TypeOK'
  BY <1>1, <1>2 DEF Safe, TypeOK, JournalTypeOK, StoreTypeOK, OutputTypeOK, Label
<1>4. HasRecord'
  BY <1>1, <1>2 DEF HasRecord, Safe, TypeOK, JournalTypeOK
<1>5. Grows BY <1>2, <1>4 DEF Grows
<1>6. Durable'
  <2>1. \A i \in Id : occ'[i] = occ[i] \/ (i = <<l, kind>> /\ occ'[i] = r)
    BY <1>1, <1>2 DEF Safe, TypeOK, JournalTypeOK
  <2>2. BytesOnlyWhenRead(occ)'
    BY <2>1 DEF BytesOnlyWhenRead, Safe, Durable
  <2>3. BlobsCoverJournal'
    BY <2>1, <1>2 DEF BlobsCoverJournal, Safe, Durable
  <2>4. UNCHANGED <<plan, public, marks, phase, outcome>> BY <1>2
  <2>5. PlanSound'
    BY <2>4 DEF PlanSound, OneFilePerContent, Planned, Canonical, Safe, Durable
  <2>6. (PublicIntact /\ MarksTrue)'
    BY <2>4 DEF PublicIntact, MarksTrue, Planned, Canonical, Safe, Durable
  <2>7. (phase = "complete" =>
            outcome = OutcomeOf(plan) /\ \A k \in Canonical(plan) : Delivered(k))'
    BY <2>4 DEF Delivered, Planned, Canonical, OutcomeOf, Safe, Durable
  <2>. QED BY <2>2, <2>3, <2>4, <2>5, <2>6, <2>7 DEF Safe, Durable
<1>7. Local(p)'
  <2>1. /\ pc'[p] = "discover" /\ cur'[p] = l + 1 /\ who'[p] = who[p] /\ exit'[p] = exit[p] /\ stage'[p] = stage[p]
        /\ meta' = meta /\ plan' = plan /\ phase' = phase
    BY <1>2 DEF Safe, TypeOK
  <2>2. /\ \E id \in Identity : who[p] = {id}
        /\ meta = who[p] /\ stage[p] = Absent
        /\ exit[p] \in {"success", "partial"} =>
              phase = "complete" /\ (exit[p] = "partial" <=> OutcomeOf(plan) = "partial")
    BY DEF Safe, Local
  <2>3. OutcomeOf(plan)' = OutcomeOf(plan) BY <2>1 DEF OutcomeOf
  <2>. QED BY <2>1, <2>2, <2>3, <1>4 DEF Local, Ingesting, Placing, Closing, Decided
<1>8. Others(p) BY DEF Safe, TypeOK, Others
<1>. QED BY <1>3, <1>5, <1>6, <1>7, <1>8 DEF StepOK

\* Recording a failure names no bytes, so the journal stays backed.
LEMMA FailuresOK ==
    ASSUME Safe, NEW p \in Proc, FailLeaf(p) \/ RefuseLeaf(p) \/ LoseLeaf(p)
    PROVE  StepOK(p)
<1>1. PICK kind \in Kind : RecordFailure(p, kind)
  BY DEF FailLeaf, RefuseLeaf, LoseLeaf, Kind
<1>2. pc[p] \in {"discover", "staged"} /\ cur[p] \in Leaf
  BY DEF FailLeaf, RefuseLeaf, LoseLeaf, At, Safe, Local, Ingesting
<1>3. budget' \in [Disturbance -> Nat]
  BY SpendType DEF FailLeaf, RefuseLeaf, LoseLeaf, World, Safe, TypeOK, Disturbance
<1>4. /\ UNCHANGED <<blobs, stage, public, orphans, files, writing, source>>
      /\ tmp' \subseteq tmp
  BY DEF FailLeaf, RefuseLeaf, LoseLeaf, DropTemporary, storeVars, outputVars, World
<1>5. Failure \in Occurrence /\ Failure.status # "none" /\ Failure.digest = Absent
  BY DEF Failure, Occurrence, Verdicts
<1>. QED BY <1>1, <1>2, <1>3, <1>4, <1>5, RecordOK DEF RecordFailure, Goto

\* An occurrence is recorded only for bytes that were committed before.
LEMMA RecordLeafOK ==
    ASSUME Safe, NEW p \in Proc, RecordLeaf(p) PROVE StepOK(p)
<1>1. pc[p] = "record" /\ cur[p] \in Leaf /\ got[p] \in Digest /\ got[p] \in blobs
  BY DEF RecordLeaf, At, Safe, Local, Ingesting
<1>2. PICK id \in who[p] : RecordOccurrence(<<cur[p], "ok">>,
          [digest |-> got[p], status |-> Verdict[<<id.policy, cur[p], got[p]>>]])
  BY DEF RecordLeaf
<1>3. id.policy \in Policy BY DEF Safe, TypeOK, Identity
<1>4. Verdict[<<id.policy, cur[p], got[p]>>] \in Verdicts BY <1>1, <1>3, RunAssumption
<1>. DEFINE r == [digest |-> got[p], status |-> Verdict[<<id.policy, cur[p], got[p]>>]]
<1>5. r \in Occurrence /\ r.status # "none" /\ r.digest \in blobs
  BY <1>1, <1>4 DEF Occurrence, Verdicts
<1>6. /\ pc' = [pc EXCEPT ![p] = "discover"] /\ cur' = [cur EXCEPT ![p] = @ + 1]
      /\ got' = [got EXCEPT ![p] = Absent]
      /\ UNCHANGED <<who, memb, exit, result, blobs, tmp, stage, public, orphans, files, writing, source, budget>>
  BY DEF RecordLeaf, Goto, storeVars, outputVars, World
<1>7. "ok" \in Kind /\ budget' \in [Disturbance -> Nat] BY <1>6 DEF Kind, Safe, TypeOK
<1>. HIDE DEF r
<1>. QED BY <1>1, <1>2, <1>5, <1>6, <1>7, RecordOK DEF r
\* Staging a leaf preserves what is safe.
LEMMA StageLeafOK ==
    ASSUME Safe, NEW p \in Proc, StageLeaf(p) PROVE StepOK(p)
<1>1. /\ pc[p] = "discover" /\ cur[p] \in Leaf /\ source[cur[p]] \in Digest
      /\ pc' = [pc EXCEPT ![p] = "staged"] /\ got' = [got EXCEPT ![p] = source[cur[p]]]
      /\ tmp' = tmp \cup {p}
      /\ UNCHANGED <<Disk, acct, stage, orphans, files, writing, source, budget, who, cur, memb, exit, result>>
  BY DEF StageLeaf, At, StageBlob, Goto, Disk, journalVars, outputVars, World, Safe, TypeOK
<1>2. TypeOK'
  BY <1>1 DEF Safe, TypeOK, JournalTypeOK, StoreTypeOK, OutputTypeOK, Label, Disk
<1>3. Durable' /\ Grows BY <1>1, DurableFrame DEF Safe
<1>4. Local(p)'
  <2>1. /\ pc'[p] = "staged" /\ got'[p] \in Digest /\ cur'[p] \in Leaf
        /\ who'[p] = who[p] /\ exit'[p] = exit[p] /\ stage'[p] = stage[p]
        /\ meta' = meta /\ plan' = plan /\ phase' = phase
    BY <1>1 DEF Safe, TypeOK, Disk
  <2>2. /\ \E id \in Identity : who[p] = {id}
        /\ meta = who[p] /\ stage[p] = Absent
        /\ exit[p] \in {"success", "partial"} =>
              phase = "complete" /\ (exit[p] = "partial" <=> OutcomeOf(plan) = "partial")
    BY <1>1 DEF Safe, Local
  <2>3. OutcomeOf(plan)' = OutcomeOf(plan) BY <2>1 DEF OutcomeOf
  <2>. QED BY <2>1, <2>2, <2>3 DEF Local, Ingesting, Placing, Closing, Decided
<1>5. Others(p) BY <1>1 DEF Safe, TypeOK, Others
<1>. QED BY <1>2, <1>3, <1>4, <1>5 DEF StepOK

\* Once the temporary file is renamed the blob is in the store.
LEMMA CommitLeafOK ==
    ASSUME Safe, NEW p \in Proc, CommitLeaf(p) PROVE StepOK(p)
<1>1. /\ pc[p] = "staged" /\ cur[p] \in Leaf /\ got[p] \in Digest
      /\ pc' = [pc EXCEPT ![p] = "blob"] /\ tmp' = tmp \ {p} /\ blobs' = blobs \cup {got[p]}
      /\ UNCHANGED <<meta, phase, outcome, acct, blobRows, occ, plan, marks, stage, public, orphans,
                     files, writing, source, budget, who, cur, got, memb, exit, result>>
  BY DEF CommitLeaf, At, CommitBlob, RenameBlob, Goto, Stay, journalVars, outputVars, World,
     Safe, Local, Ingesting
<1>2. TypeOK'
  BY <1>1 DEF Safe, TypeOK, JournalTypeOK, StoreTypeOK, OutputTypeOK, Label
<1>3. Grows BY <1>1 DEF Grows, HasRecord
<1>4. Durable'
  <2>1. BlobsCoverJournal' BY <1>1 DEF Safe, Durable, BlobsCoverJournal
  <2>. QED
    BY <1>1, <2>1 DEF Safe, Durable, BytesOnlyWhenRead, PlanSound, OneFilePerContent,
       PublicIntact, MarksTrue, Delivered, Planned, OutcomeOf, Canonical
<1>5. Local(p)'
  <2>1. /\ pc'[p] = "blob" /\ got'[p] \in Digest /\ got'[p] \in blobs' /\ cur'[p] \in Leaf
        /\ who'[p] = who[p] /\ exit'[p] = exit[p] /\ stage'[p] = stage[p]
        /\ meta' = meta /\ plan' = plan /\ phase' = phase
    BY <1>1 DEF Safe, TypeOK
  <2>2. /\ \E id \in Identity : who[p] = {id}
        /\ meta = who[p] /\ stage[p] = Absent
        /\ exit[p] \in {"success", "partial"} =>
              phase = "complete" /\ (exit[p] = "partial" <=> OutcomeOf(plan) = "partial")
    BY <1>1 DEF Safe, Local
  <2>3. OutcomeOf(plan)' = OutcomeOf(plan) BY <2>1 DEF OutcomeOf
  <2>. QED BY <2>1, <2>2, <2>3 DEF Local, Ingesting, Placing, Closing, Decided
<1>6. Others(p) BY <1>1 DEF Safe, TypeOK, Others
<1>. QED BY <1>2, <1>3, <1>4, <1>5, <1>6 DEF StepOK

\* A blob row is written only for a blob that is in the store.
LEMMA ChargeLeafOK ==
    ASSUME Safe, NEW p \in Proc, ChargeLeaf(p) PROVE StepOK(p)
<1>1. /\ pc[p] = "blob" /\ cur[p] \in Leaf /\ got[p] \in Digest /\ got[p] \in blobs
      /\ pc' = [pc EXCEPT ![p] = "record"] /\ blobRows' = blobRows \cup {got[p]}
      /\ memb' = [memb EXCEPT ![p] = @ + 1]
      /\ UNCHANGED <<meta, phase, outcome, acct, occ, plan, marks, storeVars,
                     files, writing, source, budget, who, cur, got, exit, result>>
  BY DEF ChargeLeaf, At, RecordBlob, Goto, outputVars, World, Safe, Local, Ingesting
<1>2. TypeOK'
  BY <1>1 DEF Safe, TypeOK, JournalTypeOK, StoreTypeOK, OutputTypeOK, Label, storeVars
<1>3. Grows BY <1>1 DEF Grows, HasRecord, storeVars
<1>4. Durable'
  <2>1. BlobsCoverJournal' BY <1>1 DEF Safe, Durable, BlobsCoverJournal, storeVars
  <2>. QED
    BY <1>1, <2>1 DEF Safe, Durable, BytesOnlyWhenRead, PlanSound, OneFilePerContent,
       PublicIntact, MarksTrue, Delivered, Planned, OutcomeOf, Canonical, storeVars
<1>5. Local(p)'
  <2>1. /\ pc'[p] = "record" /\ got'[p] \in Digest /\ got'[p] \in blobs' /\ cur'[p] \in Leaf
        /\ who'[p] = who[p] /\ exit'[p] = exit[p] /\ stage'[p] = stage[p]
        /\ meta' = meta /\ plan' = plan /\ phase' = phase
    BY <1>1 DEF Safe, TypeOK, storeVars
  <2>2. /\ \E id \in Identity : who[p] = {id}
        /\ meta = who[p] /\ stage[p] = Absent
        /\ exit[p] \in {"success", "partial"} =>
              phase = "complete" /\ (exit[p] = "partial" <=> OutcomeOf(plan) = "partial")
    BY <1>1 DEF Safe, Local
  <2>3. OutcomeOf(plan)' = OutcomeOf(plan) BY <2>1 DEF OutcomeOf
  <2>. QED BY <2>1, <2>2, <2>3 DEF Local, Ingesting, Placing, Closing, Decided
<1>6. Others(p) BY <1>1 DEF Safe, TypeOK, Others, storeVars
<1>. QED BY <1>2, <1>3, <1>4, <1>5, <1>6 DEF StepOK

\* Saving the counters preserves what is safe.
LEMMA SaveAccountingOK ==
    ASSUME Safe, NEW p \in Proc, SaveAccounting(p) PROVE StepOK(p)
<1>1. /\ pc[p] = "discover" /\ HasRecord
      /\ pc' = [pc EXCEPT ![p] = "freeze"] /\ acct' = memb[p]
      /\ UNCHANGED <<Disk, storeVars, files, writing, source, budget, who, cur, got, memb, exit, result>>
  BY FirstLeaf DEF SaveAccounting, At, SetAccounting, Goto, Stay, outputVars, World, Safe, Local,
     Disk, storeVars
<1>2. TypeOK'
  BY <1>1 DEF Safe, TypeOK, JournalTypeOK, StoreTypeOK, OutputTypeOK, Label, storeVars, Disk
<1>3. Durable' /\ Grows BY <1>1, DurableFrame DEF Safe
<1>4. Local(p)'
  <2>1. /\ pc'[p] = "freeze" /\ HasRecord'
        /\ who'[p] = who[p] /\ exit'[p] = exit[p] /\ stage'[p] = stage[p]
        /\ meta' = meta /\ plan' = plan /\ phase' = phase
    BY <1>1, <1>3 DEF Safe, TypeOK, Disk, Grows, storeVars
  <2>2. /\ \E id \in Identity : who[p] = {id}
        /\ meta = who[p] /\ stage[p] = Absent
        /\ exit[p] \in {"success", "partial"} =>
              phase = "complete" /\ (exit[p] = "partial" <=> OutcomeOf(plan) = "partial")
    BY <1>1 DEF Safe, Local
  <2>3. OutcomeOf(plan)' = OutcomeOf(plan) BY <2>1 DEF OutcomeOf
  <2>. QED BY <2>1, <2>2, <2>3 DEF Local, Ingesting, Placing, Closing, Decided
<1>5. Others(p) BY <1>1 DEF Safe, TypeOK, Others, storeVars
<1>. QED BY <1>2, <1>3, <1>4, <1>5 DEF StepOK
-----------------------------------------------------------------------------
\* Freezing the plan.

\* A plan keeps the digest of every occurrence, and has a record for each.
LEMMA PlanCovers ==
    ASSUME NEW o \in [Id -> Occurrence], NEW policy, NEW i \in Id
    PROVE  /\ PlanOf(o, policy)[i].digest = o[i].digest
           /\ o[i].status # "none" => PlanOf(o, policy)[i].status # "none"
<1>1. PlanOf(o, policy)[i] = PlanEntry(o, policy, i) BY DEF PlanOf
<1>2. CASE ~Publishable(o[i], policy) BY <1>1, <1>2 DEF PlanEntry
<1>3. CASE Publishable(o[i], policy) BY <1>1, <1>3 DEF PlanEntry
<1>. QED BY <1>2, <1>3

\* A plan written from backed occurrences is backed, and publishes each content once.
LEMMA FreezePlanOK ==
    ASSUME Safe, NEW p \in Proc, FreezePlan(p) PROVE StepOK(p)
<1>1. /\ pc[p] = "freeze" /\ HasRecord
      /\ pc' = [pc EXCEPT ![p] = "publish"] /\ cur' = [cur EXCEPT ![p] = 1]
      /\ UNCHANGED <<meta, outcome, acct, blobRows, occ, marks, storeVars, files, writing,
                     source, budget, who, got, memb, exit, result>>
  BY DEF FreezePlan, Freeze, At, GotoAt, Goto, outputVars, World, Safe, Local
<1>2. PICK policy : WriteOrKeepPlan(policy) BY DEF FreezePlan, Freeze
<1>3. Others(p) BY <1>1 DEF Safe, TypeOK, Others, storeVars
<1>4. \A S \in SUBSET Leaf : \A l \in S : ~(l < 1) BY PlanAssumption DEF Leaf
<1>5. /\ \E id \in Identity : who[p] = {id}
      /\ meta = who[p] /\ stage[p] = Absent
      /\ exit[p] \in {"success", "partial"} =>
            phase = "complete" /\ (exit[p] = "partial" <=> OutcomeOf(plan) = "partial")
  BY <1>1 DEF Safe, Local
<1>6. CASE plan # NoPlan /\ UNCHANGED <<plan, phase>>
  <2>1. TypeOK'
    BY <1>1, <1>6 DEF Safe, TypeOK, JournalTypeOK, StoreTypeOK, OutputTypeOK, Label, storeVars
  <2>2. Durable' /\ Grows BY <1>1, <1>6, DurableFrame DEF Safe, Disk, storeVars
  <2>3. Local(p)'
    <3>1. /\ pc'[p] = "publish" /\ cur'[p] = 1
          /\ who'[p] = who[p] /\ exit'[p] = exit[p] /\ stage'[p] = stage[p]
          /\ meta' = meta /\ plan' = plan /\ phase' = phase
      BY <1>1, <1>6 DEF Safe, TypeOK, storeVars
    <3>2. OutcomeOf(plan)' = OutcomeOf(plan) BY <3>1 DEF OutcomeOf
    <3>3. \A l \in Canonical(plan)' : ~(l < 1) BY <1>4 DEF Canonical
    <3>. QED BY <1>5, <1>6, <3>1, <3>2, <3>3 DEF Local, Ingesting, Placing, Closing, Decided
  <2>. QED BY <1>3, <2>1, <2>2, <2>3 DEF StepOK
<1>7. CASE plan = NoPlan /\ plan' = PlanOf(occ, policy) /\ phase' = "frozen"
  <2>. USE DEF Safe
  <2>1. occ \in [Id -> Occurrence] /\ BytesOnlyWhenRead(occ)
    BY DEF TypeOK, JournalTypeOK, Durable
  <2>2. plan' \in [Id -> PlanRecord] BY <1>7, <2>1, PlanOfType
  <2>3. TypeOK'
    BY <1>1, <1>7, <2>2 DEF TypeOK, JournalTypeOK, StoreTypeOK, OutputTypeOK, Label, storeVars
  <2>4. plan' # NoPlan
    <3>1. PICK i \in Id : occ[i].status # "none" BY <1>1 DEF HasRecord
    <3>2. plan'[i].status # "none" BY <3>1, <2>1, <1>7, PlanCovers
    <3>. QED BY <3>2, NoPlanFacts
  <2>5. phase = "discovery" BY <1>7 DEF Durable, TypeOK, JournalTypeOK
  <2>6. Grows BY <1>1, <1>7, <2>5 DEF Grows, HasRecord, storeVars
  <2>7. BlobsCoverJournal'
    <3>1. \A i \in Id : plan'[i].digest = occ[i].digest BY <2>1, <1>7, PlanCovers
    <3>. QED BY <3>1, <1>1 DEF Durable, BlobsCoverJournal, storeVars
  <2>8. PlanSound'
    <3>1. OneFilePerContent'
      BY <2>1, <1>7, PlanPublishesOnce DEF OneFilePerContent, Planned
    <3>2. ASSUME NEW l \in Canonical(plan)' PROVE Planned(l)' \in Digest
      <4>1. l \in Leaf /\ l \in Canonical(PlanOf(occ, policy)) BY <1>7 DEF Canonical
      <4>2. FirstOfItsBytes(occ, policy, l) /\ Planned(l)' = occ[<<l, "ok">>].digest
        BY <4>1, <2>1, <1>7, CanonicalOfPlan DEF Planned
      <4>3. occ[<<l, "ok">>].digest # Absent BY <4>2 DEF FirstOfItsBytes, Publishable
      <4>. QED BY <4>1, <4>2, <4>3, <2>1, LeafFacts DEF Occurrence
    <3>. QED BY <3>1, <3>2 DEF PlanSound
  <2>9. PublicIntact' /\ MarksTrue'
    <3>1. \A l \in Leaf : public[l] \in {Absent, Foreign}
      BY <1>7, NoPlanFacts DEF Durable, PublicIntact
    <3>2. marks = {} BY <1>7, NoPlanFacts DEF Durable, MarksTrue
    <3>. QED BY <3>1, <3>2, <1>1 DEF PublicIntact, MarksTrue, storeVars
  <2>10. Durable'
    BY <1>1, <1>7, <2>1, <2>4, <2>7, <2>8, <2>9 DEF Durable, BytesOnlyWhenRead
  <2>11. Local(p)'
    <3>1. /\ pc'[p] = "publish" /\ cur'[p] = 1
          /\ who'[p] = who[p] /\ exit'[p] = exit[p] /\ stage'[p] = stage[p] /\ meta' = meta
      BY <1>1 DEF TypeOK, storeVars
    <3>2. exit[p] \notin {"success", "partial"} BY <1>5, <2>5
    <3>3. \A l \in Canonical(plan)' : ~(l < 1) BY <1>4 DEF Canonical
    <3>. QED BY <1>5, <2>4, <3>1, <3>2, <3>3 DEF Local, Ingesting, Placing, Closing, Decided
  <2>. QED BY <1>3, <2>3, <2>6, <2>10, <2>11 DEF StepOK
<1>. QED BY <1>2, <1>6, <1>7 DEF WriteOrKeepPlan
-----------------------------------------------------------------------------
\* Publication: copy, link, unlink, mark.

\* Copying a blob to a stage touches no public path.
LEMMA CopyBlobOK ==
    ASSUME Safe, NEW p \in Proc, CopyBlob(p) PROVE StepOK(p)
<1>1. /\ pc[p] = "publish" /\ cur[p] \in Canonical(plan)
      /\ pc' = [pc EXCEPT ![p] = "copied"]
      /\ UNCHANGED <<Disk, acct, tmp, orphans, files, writing, source, who, cur, got, memb, exit, result>>
  BY DEF CopyBlob, At, CopyToStage, Goto, Stay, Disk, journalVars, outputVars
<1>2. PICK c \in {Planned(cur[p]), Torn} : stage' = [stage EXCEPT ![p] = c]
  BY DEF CopyBlob, CopyToStage
<1>3. c \in Digest \cup {Absent, Torn} BY <1>1, <1>2 DEF Safe, Durable, PlanSound
<1>4. budget' \in [Disturbance -> Nat]
  BY SpendType DEF CopyBlob, Safe, TypeOK, Disturbance
<1>5. TypeOK'
  BY <1>1, <1>2, <1>3, <1>4 DEF Safe, TypeOK, JournalTypeOK, StoreTypeOK, OutputTypeOK, Label, Disk
<1>6. Durable' /\ Grows BY <1>1, DurableFrame DEF Safe
<1>7. Local(p)'
  <2>1. /\ pc'[p] = "copied" /\ cur'[p] = cur[p]
        /\ who'[p] = who[p] /\ exit'[p] = exit[p]
        /\ meta' = meta /\ plan' = plan /\ phase' = phase
    BY <1>1 DEF Safe, TypeOK, Disk
  <2>2. /\ \E id \in Identity : who[p] = {id}
        /\ meta = who[p] /\ plan # NoPlan
        /\ \A l \in Canonical(plan) : l < cur[p] => Delivered(l)
        /\ exit[p] \in {"success", "partial"} =>
              phase = "complete" /\ (exit[p] = "partial" <=> OutcomeOf(plan) = "partial")
    BY <1>1 DEF Safe, Local
  <2>3. /\ OutcomeOf(plan)' = OutcomeOf(plan) /\ Canonical(plan)' = Canonical(plan)
        /\ \A l : Delivered(l)' <=> Delivered(l)
    BY <1>1 DEF OutcomeOf, Canonical, Delivered, Planned, Disk
  <2>. QED BY <1>1, <2>1, <2>2, <2>3 DEF Local, Ingesting, Placing, Closing, Decided
<1>8. Others(p) BY <1>1, <1>2 DEF Safe, TypeOK, StoreTypeOK, Others
<1>. QED BY <1>5, <1>6, <1>7, <1>8 DEF StepOK

\* The link makes exactly the planned bytes public.
LEMMA LinkStageOK ==
    ASSUME Safe, NEW p \in Proc, LinkStage(p) PROVE StepOK(p)
<1>. USE DEF Safe
<1>1. /\ pc[p] = "link" /\ cur[p] \in Canonical(plan) /\ cur[p] \in Leaf
      /\ stage[p] = Planned(cur[p]) /\ public[cur[p]] = Absent
      /\ pc' = [pc EXCEPT ![p] = "unlink"]
      /\ public' = [public EXCEPT ![cur[p]] = Planned(cur[p])]
      /\ UNCHANGED <<meta, phase, outcome, acct, blobRows, occ, plan, marks, blobs, tmp, stage,
                     orphans, files, writing, source, budget, who, cur, got, memb, exit, result>>
  BY DEF LinkStage, At, CommitWithoutClobbering, LinkPublic, Goto, Stay, journalVars, outputVars,
     World, Local, Placing, Canonical
<1>2. Planned(cur[p]) \in Digest BY <1>1 DEF Durable, PlanSound
<1>3. TypeOK'
  BY <1>1, <1>2 DEF TypeOK, JournalTypeOK, StoreTypeOK, OutputTypeOK, Label
<1>4. \A l \in Leaf : public'[l] = public[l] \/ (l = cur[p] /\ public'[l] = Planned(l))
  BY <1>1 DEF TypeOK, StoreTypeOK
<1>5. Grows BY <1>1, <1>4 DEF Grows, HasRecord
<1>6. \A l \in Leaf : Planned(l)' = Planned(l) BY <1>1 DEF Planned
<1>7. Canonical(plan)' = Canonical(plan) /\ Canonical(plan) \subseteq Leaf
  BY <1>1 DEF Canonical
<1>8. Durable'
  <2>1. PublicIntact' BY <1>1, <1>4, <1>6, <1>7 DEF Durable, PublicIntact
  <2>2. MarksTrue' BY <1>1, <1>4, <1>6, <1>7 DEF Durable, MarksTrue
  <2>3. \A l \in Canonical(plan) : Delivered(l) => Delivered(l)'
    BY <1>4, <1>6, <1>7 DEF Delivered
  <2>4. OutcomeOf(plan)' = OutcomeOf(plan) BY <1>1 DEF OutcomeOf
  <2>5. PlanSound' BY <1>1 DEF Durable, PlanSound, OneFilePerContent, Planned, Canonical
  <2>. QED
    BY <1>1, <1>7, <2>1, <2>2, <2>3, <2>4, <2>5 DEF Durable, BytesOnlyWhenRead, BlobsCoverJournal
<1>9. Local(p)'
  <2>1. /\ pc'[p] = "unlink" /\ cur'[p] = cur[p] /\ plan # NoPlan
        /\ who'[p] = who[p] /\ exit'[p] = exit[p]
        /\ meta' = meta /\ plan' = plan /\ phase' = phase
    BY <1>1 DEF TypeOK, Local, Placing
  <2>2. /\ \E id \in Identity : who[p] = {id}
        /\ meta = who[p]
        /\ \A l \in Canonical(plan) : l < cur[p] => Delivered(l)
        /\ exit[p] \in {"success", "partial"} =>
              phase = "complete" /\ (exit[p] = "partial" <=> OutcomeOf(plan) = "partial")
    BY <1>1 DEF Local, Placing
  <2>3. OutcomeOf(plan)' = OutcomeOf(plan) BY <1>1 DEF OutcomeOf
  <2>4. \A l \in Canonical(plan) : Delivered(l) \/ l = cur[p] => Delivered(l)'
    BY <1>1, <1>4, <1>6, <1>7 DEF Delivered, TypeOK, StoreTypeOK
  <2>. QED BY <1>1, <1>7, <2>1, <2>2, <2>3, <2>4 DEF Local, Ingesting, Placing, Closing, Decided
<1>10. Others(p) BY <1>1 DEF TypeOK, Others
<1>. QED BY <1>3, <1>5, <1>8, <1>9, <1>10 DEF StepOK

\* After the link the stage may go: the public file stays.
LEMMA DropStageOK ==
    ASSUME Safe, NEW p \in Proc, DropStage(p) PROVE StepOK(p)
<1>1. /\ pc[p] = "unlink" /\ pc' = [pc EXCEPT ![p] = "mark"]
      /\ stage' = [stage EXCEPT ![p] = Absent]
      /\ UNCHANGED <<Disk, acct, tmp, orphans, files, writing, source, budget, who, cur, got, memb, exit, result>>
  BY DEF DropStage, At, UnlinkStage, Goto, Stay, Disk, journalVars, outputVars, World
<1>2. TypeOK'
  BY <1>1 DEF Safe, TypeOK, JournalTypeOK, StoreTypeOK, OutputTypeOK, Label, Disk
<1>3. Durable' /\ Grows BY <1>1, DurableFrame DEF Safe
<1>4. Local(p)'
  <2>1. /\ pc'[p] = "mark" /\ cur'[p] = cur[p] /\ stage'[p] = Absent
        /\ who'[p] = who[p] /\ exit'[p] = exit[p]
        /\ meta' = meta /\ plan' = plan /\ phase' = phase
    BY <1>1 DEF Safe, TypeOK, StoreTypeOK, Disk
  <2>2. /\ \E id \in Identity : who[p] = {id}
        /\ meta = who[p] /\ plan # NoPlan /\ cur[p] \in Canonical(plan) /\ Delivered(cur[p])
        /\ \A l \in Canonical(plan) : l < cur[p] => Delivered(l)
        /\ exit[p] \in {"success", "partial"} =>
              phase = "complete" /\ (exit[p] = "partial" <=> OutcomeOf(plan) = "partial")
    BY <1>1 DEF Safe, Local, Placing
  <2>3. /\ OutcomeOf(plan)' = OutcomeOf(plan) /\ Canonical(plan)' = Canonical(plan)
        /\ \A l : Delivered(l)' <=> Delivered(l)
    BY <1>1 DEF OutcomeOf, Canonical, Delivered, Planned, Disk
  <2>. QED BY <2>1, <2>2, <2>3 DEF Local, Ingesting, Placing, Closing, Decided
<1>5. Others(p) BY <1>1 DEF Safe, TypeOK, StoreTypeOK, Others
<1>. QED BY <1>2, <1>3, <1>4, <1>5 DEF StepOK
\* The mark follows the public file.
LEMMA MarkRecordOK ==
    ASSUME Safe, NEW p \in Proc, MarkRecord(p) PROVE StepOK(p)
<1>. USE DEF Safe
<1>1. /\ pc[p] = "mark" /\ cur[p] \in Canonical(plan) /\ cur[p] \in Leaf /\ Delivered(cur[p])
      /\ pc' = [pc EXCEPT ![p] = "publish"] /\ cur' = [cur EXCEPT ![p] = cur[p] + 1]
      /\ marks' = marks \cup {cur[p]}
      /\ UNCHANGED <<meta, phase, outcome, acct, blobRows, occ, plan, storeVars, files, writing,
                     source, budget, who, got, memb, exit, result>>
  BY DEF MarkRecord, At, MarkPublished, GotoAt, Goto, NextRecord, outputVars, World, Local,
     Placing, Canonical
<1>2. cur[p] + 1 \in Nat /\ cur[p] + 1 # 0
  <2>1. cur[p] \in Nat BY <1>1, FirstLeaf
  <2>. QED BY <2>1
<1>3. TypeOK'
  BY <1>1, <1>2 DEF TypeOK, JournalTypeOK, StoreTypeOK, OutputTypeOK, Label, storeVars
<1>4. Grows BY <1>1 DEF Grows, HasRecord, storeVars
<1>5. /\ OutcomeOf(plan)' = OutcomeOf(plan) /\ Canonical(plan)' = Canonical(plan)
      /\ \A l : Delivered(l)' <=> Delivered(l)
  BY <1>1 DEF OutcomeOf, Canonical, Delivered, Planned, storeVars
<1>6. Durable'
  <2>1. MarksTrue'
    BY <1>1, <1>5 DEF Durable, MarksTrue, Delivered, Planned, storeVars
  <2>. QED
    BY <1>1, <1>5, <2>1 DEF Durable, BytesOnlyWhenRead, BlobsCoverJournal, PlanSound,
       OneFilePerContent, PublicIntact, Planned, storeVars
<1>7. Local(p)'
  <2>1. /\ pc'[p] = "publish" /\ cur'[p] = cur[p] + 1 /\ stage'[p] = stage[p]
        /\ who'[p] = who[p] /\ exit'[p] = exit[p]
        /\ meta' = meta /\ plan' = plan /\ phase' = phase
    BY <1>1 DEF TypeOK, storeVars
  <2>2. /\ \E id \in Identity : who[p] = {id}
        /\ meta = who[p] /\ plan # NoPlan /\ stage[p] = Absent
        /\ \A l \in Canonical(plan) : l < cur[p] => Delivered(l)
        /\ exit[p] \in {"success", "partial"} =>
              phase = "complete" /\ (exit[p] = "partial" <=> OutcomeOf(plan) = "partial")
    BY <1>1 DEF Local, Placing
  <2>3. \A l \in Canonical(plan) : l < cur[p] + 1 => Delivered(l)
    <3>1. ASSUME NEW l \in Canonical(plan), l < cur[p] + 1 PROVE Delivered(l)
      <4>1. l \in Nat /\ cur[p] \in Nat BY <1>1, FirstLeaf DEF Canonical
      <4>2. l < cur[p] \/ l = cur[p] BY <4>1, <3>1
      <4>. QED BY <4>2, <2>2, <1>1
    <3>. QED BY <3>1
  <2>. QED BY <1>2, <1>5, <2>1, <2>2, <2>3 DEF Local, Ingesting, Placing, Closing, Decided
<1>8. Others(p) BY <1>1 DEF TypeOK, Others, storeVars
<1>. QED BY <1>3, <1>4, <1>6, <1>7, <1>8 DEF StepOK

-----------------------------------------------------------------------------
\* The end of a run, and the surroundings.

\* A run completes only when every canonical file is in place.
LEMMA CompleteRunOK ==
    ASSUME Safe, NEW p \in Proc, CompleteRun(p) PROVE StepOK(p)
<1>. USE DEF Safe
<1>1. /\ pc[p] = "complete" /\ plan # NoPlan /\ \A l \in Canonical(plan) : Delivered(l)
      /\ outcome' = OutcomeOf(plan) /\ phase' = "complete"
      /\ Leave(p, IF OutcomeOf(plan) = "partial" THEN "partial" ELSE "success")
      /\ UNCHANGED <<meta, acct, blobRows, occ, plan, marks, storeVars, files, writing, source, budget>>
  <2>1. result[p] = OutcomeOf(plan) BY DEF CompleteRun, ReadyToComplete, At, Local, Decided
  <2>. QED BY <2>1 DEF CompleteRun, ReadyToComplete, At, CompleteJournal, outputVars, World, Local, Closing
<1>2. OutcomeOf(plan) \in Outcomes BY DEF OutcomeOf, Outcomes
<1>3. TypeOK'
  BY <1>1, <1>2 DEF TypeOK, JournalTypeOK, StoreTypeOK, OutputTypeOK, Outcomes, Label, ExitCode, Leave,
     Goto, storeVars
<1>4. Grows BY <1>1 DEF Grows, HasRecord, storeVars
<1>5. /\ OutcomeOf(plan)' = OutcomeOf(plan) /\ Canonical(plan)' = Canonical(plan)
      /\ \A l : Delivered(l)' <=> Delivered(l)
  BY <1>1 DEF OutcomeOf, Canonical, Delivered, Planned, storeVars
<1>6. Durable'
  BY <1>1, <1>5 DEF Durable, BytesOnlyWhenRead, BlobsCoverJournal, PlanSound,
     OneFilePerContent, PublicIntact, MarksTrue, Planned, storeVars
<1>7. Local(p)'
  <2>1. /\ pc'[p] = "off" /\ stage'[p] = stage[p]
        /\ exit'[p] = (IF OutcomeOf(plan) = "partial" THEN "partial" ELSE "success")
    BY <1>1 DEF TypeOK, storeVars, Leave, Goto
  <2>2. stage[p] = Absent BY <1>1 DEF Local
  <2>3. exit'[p] = "partial" <=> OutcomeOf(plan)' = "partial" BY <2>1, <1>5
  <2>. QED BY <1>1, <2>1, <2>2, <2>3 DEF Local, Ingesting, Placing, Closing, Decided
<1>8. Others(p) BY <1>1 DEF TypeOK, Others, storeVars, Leave, Goto
<1>. QED BY <1>3, <1>4, <1>6, <1>7, <1>8 DEF StepOK

\* A process that dies or unwinds leaves the disk as it is.
LEMMA DeathOK ==
    ASSUME Safe, NEW p \in Proc, NEW code \in {"killed", "interrupted"},
           Leave(p, code), Spend("crash"), UNCHANGED <<Disk, acct, source, files>>,
           tmp' \subseteq Proc \cup {Dead}, orphans' \subseteq Leaf, writing' \in [Out -> SUBSET Draft],
           stage' = [stage EXCEPT ![p] = Absent]
    PROVE  StepOK(p)
<1>1. budget' \in [Disturbance -> Nat] BY SpendType DEF Safe, TypeOK, Disturbance
<1>2. TypeOK'
  BY <1>1 DEF Safe, TypeOK, JournalTypeOK, StoreTypeOK, OutputTypeOK, Outcomes, Leave, Goto, Label, Disk, ExitCode
<1>3. Durable' /\ Grows BY DurableFrame DEF Safe, Disk
<1>4. Local(p)'
  BY DEF Safe, TypeOK, StoreTypeOK, Leave, Goto, Local, Ingesting, Placing, Closing, Decided, ExitCode
<1>5. Others(p)
  BY DEF Safe, TypeOK, StoreTypeOK, Leave, Goto, Others
<1>. QED BY <1>2, <1>3, <1>4, <1>5 DEF StepOK

\* A killed process leaves the durable part as it was.
LEMMA KillOK ==
    ASSUME Safe, NEW p \in Proc, Kill(p) PROVE StepOK(p)
<1>1. stage[p] # Absent => cur[p] \in Leaf
  BY DEF Safe, Local, Placing, Canonical
<1>2. orphans' \subseteq Leaf /\ tmp' \subseteq Proc \cup {Dead}
  BY <1>1 DEF Kill, Abandon, Safe, TypeOK, StoreTypeOK
<1>. QED
  BY <1>2, DeathOK DEF Kill, Abandon, Disk, journalVars, outputVars, Safe, TypeOK, OutputTypeOK

\* An interrupted process removes its own stages and nothing else that is durable.
LEMMA InterruptOK ==
    ASSUME Safe, NEW p \in Proc, Interrupt(p) PROVE StepOK(p)
<1>1. files' = files /\ writing' \in [Out -> SUBSET Draft]
  BY OutputNames DEF Interrupt, DropDraft, outputVars, Safe, TypeOK, OutputTypeOK
<1>. QED
  BY <1>1, DeathOK DEF Interrupt, Unwind, Disk, journalVars, Safe, TypeOK, StoreTypeOK

\* What the surroundings do: they leave every process alone.
LEMMA SurroundingsOK ==
    ASSUME Safe, (\E l \in Leaf : Intrude(l)) \/ (\E l \in Leaf, d \in Digest : EditSource(l, d))
    PROVE  TypeOK' /\ Durable' /\ Grows /\ UNCHANGED <<procVars, stage>>
<1>. USE DEF Safe
<1>1. CASE \E l \in Leaf : Intrude(l)
  <2>1. PICK m \in Leaf : Intrude(m) BY <1>1
  <2>2. /\ public[m] = Absent /\ public' = [public EXCEPT ![m] = Foreign]
        /\ UNCHANGED <<meta, phase, outcome, acct, blobRows, occ, plan, marks, blobs, tmp, stage,
                       orphans, files, writing, source, procVars>>
    BY <2>1 DEF Intrude, journalVars, outputVars
  <2>3. budget' \in [Disturbance -> Nat]
    BY <2>1, SpendType DEF Intrude, TypeOK, Disturbance
  <2>4. TypeOK'
    BY <2>2, <2>3 DEF TypeOK, JournalTypeOK, StoreTypeOK, OutputTypeOK, procVars
  <2>5. \A l \in Leaf : IF l = m THEN public'[l] = Foreign ELSE public'[l] = public[l]
    BY <2>2 DEF TypeOK, StoreTypeOK
  <2>6. Grows BY <2>2, <2>5 DEF Grows, HasRecord
  <2>7. \A l \in Canonical(plan) : l \in Leaf /\ Planned(l) # Absent /\ (Delivered(l) => l # m)
    BY <2>2, PlanAssumption DEF Durable, PlanSound, Canonical, Delivered
  <2>8. /\ OutcomeOf(plan)' = OutcomeOf(plan) /\ Canonical(plan)' = Canonical(plan)
        /\ \A l : Planned(l)' = Planned(l)
    BY <2>2 DEF OutcomeOf, Canonical, Planned
  <2>9. \A l \in Canonical(plan) : Delivered(l) => Delivered(l)'
    BY <2>5, <2>7, <2>8 DEF Delivered
  <2>10. PublicIntact'
    BY <2>2, <2>5, <2>8 DEF Durable, PublicIntact
  <2>11. MarksTrue'
    BY <2>2, <2>8, <2>9 DEF Durable, MarksTrue, Delivered
  <2>12. PlanSound' BY <2>2 DEF Durable, PlanSound, OneFilePerContent, Planned, Canonical
  <2>13. Durable'
    BY <2>2, <2>8, <2>9, <2>10, <2>11, <2>12 DEF Durable, BytesOnlyWhenRead, BlobsCoverJournal
  <2>. QED BY <2>2, <2>4, <2>6, <2>13
<1>2. CASE \E l \in Leaf, d \in Digest : EditSource(l, d)
  <2>1. PICK m \in Leaf, d \in Digest : EditSource(m, d) BY <1>2
  <2>2. /\ source' = [source EXCEPT ![m] = d]
        /\ UNCHANGED <<Disk, acct, tmp, stage, orphans, files, writing, procVars>>
    BY <2>1 DEF EditSource, journalVars, storeVars, outputVars, Disk
  <2>3. budget' \in [Disturbance -> Nat]
    BY <2>1, SpendType DEF EditSource, TypeOK, Disturbance
  <2>4. TypeOK'
    BY <2>2, <2>3 DEF TypeOK, JournalTypeOK, StoreTypeOK, OutputTypeOK, procVars, Disk
  <2>. QED BY <2>2, <2>4, DurableFrame
<1>. QED BY <1>1, <1>2

-----------------------------------------------------------------------------
\* All steps together.

\* Every step of a process preserves its own part and the durable part.
LEMMA ProcessStepOK ==
    ASSUME Safe, NEW p \in Proc,
           \/ \E policy \in Policy : Start(p, policy)
           \/ Step(p)
           \/ Kill(p) \/ Interrupt(p)
    PROVE  StepOK(p)
<1>1. CASE \E policy \in Policy : Start(p, policy) BY <1>1, StartOK
<1>2. CASE Opening(p) BY <1>2, PrepareRunOK, RefusalsOK, OpenStoreOK DEF Opening
<1>3. CASE Discovering(p)
  BY <1>3, FailuresOK, StageLeafOK, CommitLeafOK, ChargeLeafOK, RecordLeafOK, SaveAccountingOK,
     FreezePlanOK, RefusalsOK DEF Discovering
<1>4. CASE Publishing(p)
  BY <1>4, PassRecordOK, AcceptPublishedOK, RefusalsOK, CopyBlobOK, VerifyStageOK, StageRefusalsOK,
     LinkStageOK, DropStageOK, MarkRecordOK DEF Publishing
<1>5. CASE Reporting(p)
  BY <1>5, EndPublishOK, BeginOutputOK, WriteOutputOK, CommitOutputOK, RefusalsOK, CompleteRunOK
     DEF Reporting
<1>6. CASE Kill(p) \/ Interrupt(p) BY <1>6, KillOK, InterruptOK
<1>. QED BY <1>1, <1>2, <1>3, <1>4, <1>5, <1>6 DEF Step

\* No step of one process disturbs what another one relies on.
LEMMA StepPreserves ==
    ASSUME Safe, NEW p \in Proc, StepOK(p)
    PROVE  Safe' /\ Grows
<1>1. ASSUME NEW q \in Proc PROVE Local(q)'
  <2>1. CASE q = p BY <2>1 DEF StepOK
  <2>2. CASE q # p
    <3>1. Grows /\ pc'[q] = pc[q] /\ who'[q] = who[q] /\ cur'[q] = cur[q] /\ got'[q] = got[q]
          /\ exit'[q] = exit[q] /\ stage'[q] = stage[q] /\ result'[q] = result[q]
      BY <2>2 DEF StepOK, Others
    <3>. QED BY <3>1, LocalStays
  <2>. QED BY <2>1, <2>2
<1>. QED BY <1>1 DEF Safe, StepOK

\* Neither kills nor foreign files nor edits disturb what is safe.
LEMMA SurroundingsPreserve ==
    ASSUME Safe, TypeOK', Durable', Grows, UNCHANGED <<procVars, stage>>
    PROVE  Safe' /\ Grows
<1>1. ASSUME NEW q \in Proc PROVE Local(q)'
  BY LocalStays DEF procVars
<1>. QED BY <1>1 DEF Safe

\* Every step preserves what is safe.
LEMMA NextPreserves ==
    ASSUME Safe, [Next]_vars
    PROVE  Safe' /\ Grows
<1>1. CASE \E p \in Proc, policy \in Policy : Start(p, policy)
  BY <1>1, ProcessStepOK, StepPreserves
<1>2. CASE \E p \in Proc : Step(p) BY <1>2, ProcessStepOK, StepPreserves
<1>3. CASE \E p \in Proc : Kill(p) \/ Interrupt(p) BY <1>3, ProcessStepOK, StepPreserves
<1>4. CASE (\E l \in Leaf : Intrude(l)) \/ (\E l \in Leaf, d \in Digest : EditSource(l, d))
  BY <1>4, SurroundingsOK, SurroundingsPreserve
<1>5. CASE UNCHANGED vars
  <2>1. UNCHANGED <<Disk, procVars, stage>>
    BY <1>5 DEF vars, journalVars, storeVars, Disk
  <2>2. TypeOK'
    BY <1>5 DEF Safe, TypeOK, JournalTypeOK, StoreTypeOK, OutputTypeOK, vars, journalVars,
       storeVars, outputVars, procVars
  <2>3. Durable' /\ Grows BY <2>1, DurableFrame DEF Safe
  <2>. QED BY <2>1, <2>2, <2>3, SurroundingsPreserve
<1>. QED BY <1>1, <1>2, <1>3, <1>4, <1>5 DEF Next, Surroundings
\* An empty destination is safe.
LEMMA InitSafe == Init => Safe
<1>. SUFFICES ASSUME Init PROVE Safe OBVIOUS
<1>. USE DEF Init, JournalInit, StoreInit, OutputInit
<1>1. NoPlan \in [Id -> PlanRecord] BY DEF NoPlan, PlanRecord
<1>2. TypeOK
  BY <1>1, RunAssumption DEF TypeOK, JournalTypeOK, StoreTypeOK, OutputTypeOK, Outcomes, Identity, Occurrence,
     NoOccurrence, Label, ExitCode
<1>3. Canonical(plan) = {} /\ \A i \in Id : plan[i].status = "none" /\ plan[i].digest = Absent
  BY NoPlanFacts DEF NoPlan
<1>4. Durable
  BY <1>3 DEF Durable, BytesOnlyWhenRead, BlobsCoverJournal, PlanSound, OneFilePerContent,
     PublicIntact, MarksTrue, NoOccurrence
<1>5. \A p \in Proc : Local(p)
  BY DEF Local, Ingesting, Placing, Closing, Decided
<1>. QED BY <1>2, <1>4, <1>5 DEF Safe

-----------------------------------------------------------------------------
\* The results.

\* Safe is an inductive invariant of any number of processes working on one
\* destination, with crashes, faults, edits and intruders as often as you like.
THEOREM Safety == Spec => []Safe
<1>1. Init => Safe BY InitSafe
<1>2. Safe /\ [Next]_vars => Safe' BY NextPreserves
<1>. QED BY <1>1, <1>2, PTL DEF Spec

\* The journal, the store, the outputs and the processes have their types.
THEOREM TypeCorrect == Spec => []TypeOK
<1>1. Safe => TypeOK BY DEF Safe
<1>. QED BY <1>1, Safety, PTL

\* A process past prepare works under the identity the journal was made for.
THEOREM IdentityNeverMixed == Spec => []IdentityHeld
<1>1. Safe => IdentityHeld BY DEF Safe, Local, IdentityHeld
<1>. QED BY <1>1, Safety, PTL

\* Every digest the journal names has its blob in the store.
THEOREM JournalIsBacked == Spec => []BlobsCoverJournal
<1>1. Safe => BlobsCoverJournal BY DEF Safe, Durable
<1>. QED BY <1>1, Safety, PTL

\* A public path never shows anything but another program's file or the bytes
\* the frozen plan gives it.
THEOREM PublicFilesIntact == Spec => []PublicIntact
<1>1. Safe => PublicIntact BY DEF Safe, Durable
<1>. QED BY <1>1, Safety, PTL

\* What is marked as published is published.
THEOREM MarksNeverLie == Spec => []MarksTrue
<1>1. Safe => MarksTrue BY DEF Safe, Durable
<1>. QED BY <1>1, Safety, PTL

\* A complete journal means that every canonical file is in place.
THEOREM CompletionDelivers == Spec => []CompleteDelivers
<1>1. Safe => CompleteDelivers BY DEF Safe, Durable, CompleteDelivers, Delivered
<1>. QED BY <1>1, Safety, PTL

\* The plan of a destination publishes each content once.
THEOREM ContentPublishedOnce == Spec => []OneFilePerContent
<1>1. Safe => OneFilePerContent BY DEF Safe, Durable, PlanSound
<1>. QED BY <1>1, Safety, PTL

\* The exit code of a finished process agrees with the journal and the plan.
THEOREM ExitCodesTrue == Spec => []ExitTrue
<1>1. Safe => ExitTrue
  <2>. SUFFICES ASSUME Safe, NEW p \in Proc, exit[p] \in {"success", "partial"}
                PROVE  /\ phase = "complete" /\ outcome = OutcomeOf(plan)
                       /\ exit[p] = "partial" <=> \E i \in Id : plan[i].status = "unprocessed"
    BY DEF ExitTrue
  <2>1. phase = "complete" /\ (exit[p] = "partial" <=> OutcomeOf(plan) = "partial")
    BY DEF Safe, Local
  <2>2. outcome = OutcomeOf(plan) BY <2>1 DEF Safe, Durable
  <2>3. OutcomeOf(plan) = "partial" <=> \E i \in Id : plan[i].status = "unprocessed"
    BY DEF OutcomeOf
  <2>. QED BY <2>1, <2>2, <2>3
<1>. QED BY <1>1, Safety, PTL

\* No step of any process changes or removes a file at a public path.
THEOREM NothingIsClobbered == Spec => NoClobber
<1>1. Safe /\ [Next]_vars => [\A l \in Leaf : public[l] # Absent => public'[l] = public[l]]_vars
  BY NextPreserves DEF Grows
<1>. QED BY <1>1, Safety, PTL DEF Spec, NoClobber

\* A frozen plan stays as it is and the phases of a destination only advance.
THEOREM PlanIsWrittenOnce == Spec => PlanWrittenOnce
<1>1. Safe /\ [Next]_vars =>
        [/\ plan # NoPlan => plan' = plan
         /\ phase' = "discovery" => phase = "discovery"
         /\ phase = "complete" => phase' = "complete"]_vars
  <2>. SUFFICES ASSUME Safe, [Next]_vars
                PROVE  /\ plan # NoPlan => plan' = plan
                       /\ phase' = "discovery" => phase = "discovery"
                       /\ phase = "complete" => phase' = "complete"
    OBVIOUS
  <2>1. Grows BY NextPreserves
  <2>. QED BY <2>1 DEF Grows
<1>. QED BY <1>1, Safety, PTL DEF Spec, PlanWrittenOnce

-----------------------------------------------------------------------------
(***************************************************************************)
(* Run implements Recovery: seen from its public files, a destination that *)
(* any number of processes work on behaves like one that is bound, decides *)
(* its plan, delivers its files one by one and finishes.  The refinement   *)
(* mapping is the one of Run (Promised); the steps are told apart by what  *)
(* they do to the four things the mapping sees.                            *)
(***************************************************************************)

Delivery == [l \in Leaf |-> IF l \in Canonical(plan) THEN Planned(l) ELSE Absent]

\* Steps that Recovery does not see.
Invisible ==
    /\ UNCHANGED <<meta, plan, public>>
    /\ phase' = "complete" <=> phase = "complete"

\* A step that leaves identity, plan, public files and phase alone is a stutter of the promise.
LEMMA InvisibleStutters ==
    ASSUME Invisible PROVE UNCHANGED Promised!recoveryVars
<1>1. PublicPlan' = PublicPlan BY DEF Invisible, PublicPlan, Canonical, Planned
<1>. QED BY <1>1 DEF Invisible, Promised!recoveryVars

\* Journal.prepare binds the destination, or finds it bound.
LEMMA PrepareRefines ==
    ASSUME Safe, NEW p \in Proc, PrepareRun(p)
    PROVE  [Promised!RecoveryNext]_(Promised!recoveryVars)
<1>1. PICK id \in Identity : who[p] = {id}
  BY DEF PrepareRun, At, Safe, Local
<1>2. meta \subseteq {id} /\ meta' = {id} /\ UNCHANGED <<plan, public, phase>>
  BY <1>1 DEF PrepareRun, Prepare, AdoptIdentity, storeVars
<1>3. PublicPlan' = PublicPlan BY <1>2 DEF PublicPlan, Canonical, Planned
<1>4. CASE meta = {}
  BY <1>2, <1>3, <1>4 DEF Promised!RecoveryNext, Promised!Bind
<1>5. CASE meta = {id}
  BY <1>2, <1>5, InvisibleStutters DEF Invisible
<1>. QED BY <1>2, <1>4, <1>5

\* Journal.freeze decides the promise, once.
LEMMA FreezeRefines ==
    ASSUME Safe, NEW p \in Proc, FreezePlan(p)
    PROVE  [Promised!RecoveryNext]_(Promised!recoveryVars)
<1>1. StepOK(p) BY FreezePlanOK
<1>2. PICK policy : WriteOrKeepPlan(policy) BY DEF FreezePlan, Freeze
<1>3. UNCHANGED <<meta, public>> /\ meta # {}
  BY DEF FreezePlan, Freeze, At, storeVars, Safe, Local
<1>4. CASE UNCHANGED <<plan, phase>>
  BY <1>3, <1>4, InvisibleStutters DEF Invisible
<1>5. CASE plan = NoPlan /\ phase' = "frozen"
  <2>1. phase # "complete" BY <1>5 DEF Safe, Durable
  <2>2. plan' # NoPlan
    BY <1>1 DEF StepOK, Local, FreezePlan, GotoAt, Goto, Safe, TypeOK
  <2>3. PublicPlan = {} /\ PublicPlan' = {Delivery'}
    BY <1>5, <2>2 DEF PublicPlan, Delivery
  <2>4. \A l \in Canonical(plan)' : l \in Leaf /\ Planned(l)' \in Digest
    BY <1>1 DEF StepOK, Durable, PlanSound, Canonical
  <2>5. Delivery' \in [Leaf -> Digest \cup {Absent}] BY <2>4 DEF Delivery
  <2>6. \A f, g \in Leaf : Delivery'[f] = Delivery'[g] /\ Delivery'[f] # Absent => f = g
    BY <1>1 DEF StepOK, Durable, PlanSound, OneFilePerContent, Delivery
  <2>7. Promised!Decide(Delivery')
    BY <1>3, <1>5, <2>1, <2>3, <2>6 DEF Promised!Decide
  <2>. QED BY <2>5, <2>7 DEF Promised!RecoveryNext
<1>. QED BY <1>2, <1>4, <1>5 DEF WriteOrKeepPlan

\* os.link delivers one promised file.
LEMMA LinkRefines ==
    ASSUME Safe, NEW p \in Proc, LinkStage(p)
    PROVE  [Promised!RecoveryNext]_(Promised!recoveryVars)
<1>1. /\ cur[p] \in Canonical(plan) /\ cur[p] \in Leaf /\ plan # NoPlan
      /\ public[cur[p]] = Absent /\ Planned(cur[p]) \in Digest
      /\ public' = [public EXCEPT ![cur[p]] = Planned(cur[p])]
      /\ UNCHANGED <<meta, plan, phase>>
  BY DEF LinkStage, At, CommitWithoutClobbering, LinkPublic, Safe, Local, Placing, Canonical,
     Durable, PlanSound, journalVars
<1>2. PublicPlan = {Delivery} /\ PublicPlan' = PublicPlan
  BY <1>1 DEF PublicPlan, Delivery, Canonical, Planned
<1>3. Delivery[cur[p]] = Planned(cur[p]) /\ Planned(cur[p]) # Absent
  BY <1>1, PlanAssumption DEF Delivery
<1>4. Promised!Deliver(cur[p])
  BY <1>1, <1>2, <1>3 DEF Promised!Deliver
<1>. QED BY <1>1, <1>4 DEF Promised!RecoveryNext

\* Journal.complete finishes a destination that has everything it promised.
LEMMA CompleteRefines ==
    ASSUME Safe, NEW p \in Proc, CompleteRun(p)
    PROVE  [Promised!RecoveryNext]_(Promised!recoveryVars)
<1>1. /\ plan # NoPlan /\ \A l \in Canonical(plan) : Delivered(l)
      /\ phase' = "complete" /\ UNCHANGED <<meta, plan, public>>
  BY DEF CompleteRun, ReadyToComplete, At, CompleteJournal, Safe, Local, Closing, storeVars
<1>2. PublicPlan = {Delivery} /\ PublicPlan' = PublicPlan
  BY <1>1 DEF PublicPlan, Delivery, Canonical, Planned
<1>3. \A l \in Leaf : Delivery[l] # Absent => public[l] = Delivery[l]
  BY <1>1 DEF Delivery, Delivered
<1>4. Promised!Finish BY <1>1, <1>2, <1>3 DEF Promised!Finish
<1>. QED BY <1>4 DEF Promised!RecoveryNext

\* Another program occupies a free path.
LEMMA IntrudeRefines ==
    ASSUME NEW l \in Leaf, Intrude(l)
    PROVE  [Promised!RecoveryNext]_(Promised!recoveryVars)
<1>1. /\ public[l] = Absent /\ public' = [public EXCEPT ![l] = Foreign]
      /\ UNCHANGED <<meta, plan, phase>>
  BY DEF Intrude, journalVars
<1>2. PublicPlan' = PublicPlan BY <1>1 DEF PublicPlan, Canonical, Planned
<1>3. Promised!Occupy(l) BY <1>1, <1>2 DEF Promised!Occupy
<1>. QED BY <1>3 DEF Promised!RecoveryNext

\* Starting, discovering, staging, checking, marking, reporting, failing and
\* dying change nothing that Recovery sees.
LEMMA OthersInvisible ==
    ASSUME NEW p \in Proc,
           \/ \E policy \in Policy : Start(p, policy)
           \/ RefuseRun(p) \/ OpenStore(p)
           \/ FailLeaf(p) \/ RefuseLeaf(p) \/ StageLeaf(p) \/ CommitLeaf(p) \/ LoseLeaf(p)
           \/ ChargeLeaf(p) \/ RecordLeaf(p) \/ SaveAccounting(p) \/ RefuseFreeze(p)
           \/ PassRecord(p) \/ AcceptPublished(p) \/ RefusePublished(p) \/ CopyBlob(p)
           \/ VerifyStage(p) \/ RejectStage(p) \/ RefuseLink(p) \/ DropStage(p) \/ MarkRecord(p)
           \/ EndPublish(p) \/ BeginOutput(p) \/ WriteOutput(p) \/ CommitOutput(p)
           \/ LoseOutput(p) \/ Kill(p) \/ Interrupt(p)
    PROVE  Invisible
<1>1. CASE \/ \E policy \in Policy : Start(p, policy)
           \/ RefuseRun(p) \/ OpenStore(p) \/ RefuseFreeze(p)
           \/ PassRecord(p) \/ AcceptPublished(p) \/ RefusePublished(p) \/ CopyBlob(p)
           \/ VerifyStage(p) \/ RejectStage(p) \/ RefuseLink(p) \/ DropStage(p)
  BY <1>1 DEF Start, RefuseRun, OpenStore, RefuseFreeze, PassRecord, AcceptPublished,
     RefusePublished, CopyBlob, VerifyStage, RejectStage, RefuseLink, DropStage,
     CopyToStage, UnlinkStage, journalVars, storeVars, Invisible
<1>2. CASE \/ EndPublish(p) \/ BeginOutput(p) \/ WriteOutput(p) \/ CommitOutput(p)
           \/ LoseOutput(p) \/ Kill(p) \/ Interrupt(p)
  BY <1>2 DEF EndPublish, BeginOutput, WriteOutput, CommitOutput, LoseOutput, Kill, Interrupt,
     Abandon, Unwind, journalVars, storeVars, Invisible
<1>3. CASE \/ StageLeaf(p) \/ CommitLeaf(p) \/ ChargeLeaf(p) \/ SaveAccounting(p) \/ MarkRecord(p)
  BY <1>3 DEF StageLeaf, StageBlob, CommitLeaf, CommitBlob, ChargeLeaf, RecordBlob,
     SaveAccounting, SetAccounting, MarkRecord, MarkPublished, journalVars, storeVars, Invisible
<1>4. CASE FailLeaf(p) \/ RefuseLeaf(p) \/ LoseLeaf(p) \/ RecordLeaf(p)
  BY <1>4 DEF FailLeaf, RefuseLeaf, LoseLeaf, RecordLeaf, RecordFailure, RecordOccurrence,
     DropTemporary, storeVars, Invisible
<1>. QED BY <1>1, <1>2, <1>3, <1>4

\* Every step of Run is a step of the promise or changes nothing of it.
LEMMA StepRefines ==
    ASSUME Safe, [Next]_vars
    PROVE  [Promised!RecoveryNext]_(Promised!recoveryVars)
<1>1. CASE \E p \in Proc : PrepareRun(p) \/ FreezePlan(p) \/ LinkStage(p) \/ CompleteRun(p)
  BY <1>1, PrepareRefines, FreezeRefines, LinkRefines, CompleteRefines
<1>2. CASE \E l \in Leaf : Intrude(l) BY <1>2, IntrudeRefines
<1>3. CASE (\E l \in Leaf, d \in Digest : EditSource(l, d)) \/ UNCHANGED vars
  <2>1. Invisible
    BY <1>3 DEF EditSource, journalVars, storeVars, vars, Invisible
  <2>. QED BY <2>1, InvisibleStutters
<1>4. ASSUME NEW p \in Proc,
             \/ \E policy \in Policy : Start(p, policy)
             \/ Step(p)
             \/ Kill(p) \/ Interrupt(p)
      PROVE  \/ PrepareRun(p) \/ FreezePlan(p) \/ LinkStage(p) \/ CompleteRun(p)
             \/ Invisible
  BY <1>4, OthersInvisible DEF Step, Opening, Discovering, Publishing, Reporting
<1>5. CASE \E p \in Proc : \/ \E policy \in Policy : Start(p, policy)
                           \/ Step(p)
                           \/ Kill(p) \/ Interrupt(p)
  BY <1>1, <1>4, <1>5, InvisibleStutters
<1>. QED BY <1>1, <1>2, <1>3, <1>5 DEF Next, Surroundings

\* Every behaviour of a destination, whatever crashes, retries, faults and
\* second processes it contains, is a behaviour of Recovery.
THEOREM RunImplementsRecovery == Spec => ImplementsRecovery
<1>1. Init => Promised!RecoveryInit
  BY DEF Init, JournalInit, StoreInit, PublicPlan, Promised!RecoveryInit
<1>2. Safe /\ [Next]_vars => [Promised!RecoveryNext]_(Promised!recoveryVars)
  BY StepRefines
<1>. QED
  BY <1>1, <1>2, Safety, PTL DEF Spec, ImplementsRecovery, Promised!RecoverySpec

-----------------------------------------------------------------------------
(***************************************************************************)
(* What a destination can rely on when one process at a time works on it,  *)
(* however often that process is killed, interrupted or started again: its *)
(* private staging is reclaimed, its outputs are whole and count what the  *)
(* discovery counted, and, when every read succeeds and the source is not  *)
(* edited under a live process, its plan depends on source and policy      *)
(* alone.                                                                  *)
(***************************************************************************)

\* The labels of a discovery, and of what comes after the plan is frozen.
Discovery == {"discover", "staged", "blob", "record", "freeze"}
Frozen == Placing \cup Closing \cup {"publish"}

\* Staging: only what the process is staging now, or, before the store is opened,
\* what a dead one left.
Staged(p) ==
    /\ p \in tmp <=> pc[p] = "staged"
    /\ Dead \in tmp => phase = "discovery" /\ pc[p] \in {"off", "prepare", "open"}

\* The phase is the one the process is in, and the counter of its discovery is the
\* one in the journal once the plan is frozen.
Phased(p) ==
    /\ pc[p] \in Discovery => phase = "discovery"
    /\ pc[p] \in Frozen => phase # "discovery" /\ memb[p] = acct
    /\ pc[p] = "freeze" => memb[p] = acct
    /\ phase = "discovery" => plan = NoPlan

\* The outputs, and the draft the process is writing.
Reported(p) ==
    /\ phase = "discovery" => \A f \in Out : files[f] = {}
    /\ \A f \in Out : files[f] \subseteq {Rendering(f, acct, OutcomeOf(plan))}
    /\ phase = "complete" \/ pc[p] = "complete" => \A f \in Out : files[f] # {}
    /\ pc[p] \in {"outputs", "writing", "replace"} => cur[p] \in {1, 2}
    /\ pc[p] \in {"outputs", "writing", "replace"} /\ cur[p] = 2 => files["manifest"] # {}
    /\ pc[p] = "writing" => \E d \in Draft : writing[OutputAt(cur[p])] = {d} /\ d.by = p
    /\ pc[p] = "replace" =>
         \E d \in Draft : /\ writing[OutputAt(cur[p])] = {d}
                          /\ d.body = Rendering(OutputAt(cur[p]), acct, OutcomeOf(plan))

Kept(p) == Staged(p) /\ Phased(p) /\ Reported(p)

\* What the steps of one process do to its own state.
LEMMA Fields ==
    ASSUME Safe, NEW p, Proc = {p}
    PROVE  /\ p \in Proc /\ p # Dead /\ tmp \subseteq {p, Dead}
           /\ pc[p] \in Label /\ cur[p] \in Nat /\ memb[p] \in Nat /\ acct \in Nat
           /\ phase \in {"discovery", "frozen", "complete"}
           /\ files \in [Out -> SUBSET Body] /\ writing \in [Out -> SUBSET Draft]
           /\ \A label : Goto(p, label) => pc'[p] = label
           /\ \A label, n : GotoAt(p, label, n) =>
                /\ pc'[p] = label /\ cur'[p] = n /\ memb'[p] = memb[p] /\ who' = who /\ got' = got
           /\ \A code : Leave(p, code) => pc'[p] = "off" /\ who'[p] = {}
           /\ Stay => cur'[p] = cur[p] /\ memb'[p] = memb[p] /\ who'[p] = who[p] /\ got'[p] = got[p]
<1>1. p \in Proc /\ p # Dead
  BY StoreAssumption DEF Dead
<1>2. TypeOK
  BY DEF Safe
<1>3. /\ tmp \subseteq {p, Dead} /\ pc \in [Proc -> Label] /\ cur \in [Proc -> Nat]
      /\ memb \in [Proc -> Nat] /\ who \in [Proc -> SUBSET Identity] /\ acct \in Nat
      /\ phase \in {"discovery", "frozen", "complete"}
      /\ files \in [Out -> SUBSET Body] /\ writing \in [Out -> SUBSET Draft]
  BY <1>2 DEF TypeOK, StoreTypeOK, JournalTypeOK, OutputTypeOK
<1>4. \A label : Goto(p, label) => pc'[p] = label
  BY <1>1, <1>3 DEF Goto
<1>5. \A label, n : GotoAt(p, label, n) =>
        /\ pc'[p] = label /\ cur'[p] = n /\ memb'[p] = memb[p] /\ who' = who /\ got' = got
  BY <1>1, <1>3 DEF Goto, GotoAt
<1>6. \A code : Leave(p, code) => pc'[p] = "off" /\ who'[p] = {}
  BY <1>1, <1>3 DEF Goto, Leave
<1>. QED BY <1>1, <1>3, <1>4, <1>5, <1>6 DEF Stay

\* The occurrence a process records.
LEMMA RecordLeafDoes ==
    ASSUME NEW p, RecordLeaf(p)
    PROVE  /\ pc[p] = "record" /\ Goto(p, "discover") /\ cur' = [cur EXCEPT ![p] = @ + 1]
           /\ UNCHANGED <<who, memb, exit, result, meta, phase, outcome, acct, blobRows, plan, marks>>
           /\ UNCHANGED <<blobs, tmp, stage, public, orphans, files, writing, source, budget>>
           /\ \E id \in who[p] :
                occ' = [occ EXCEPT ![<<cur[p], "ok">>] =
                          [digest |-> got[p], status |-> Verdict[<<id.policy, cur[p], got[p]>>]]]
BY Zenon DEF RecordLeaf, RecordOccurrence, At, storeVars, outputVars, World

-----------------------------------------------------------------------------
\* Staging.
LEMMA StagedNext ==
    ASSUME Safe, NEW p, Proc = {p}, Staged(p), Phased(p), [Next]_vars
    PROVE  Staged(p)'
<1>. USE Fields DEF Staged, Phased, Discovery, Frozen, Placing, Closing
<1>1. CASE UNCHANGED <<tmp, pc, phase>>
  BY <1>1
<1>2. CASE \E policy \in Policy : Start(p, policy)
  BY <1>2 DEF Start, At, journalVars, storeVars
<1>3. CASE Opening(p)
  <2>1. CASE PrepareRun(p) BY <2>1 DEF PrepareRun, Prepare, At, storeVars
  <2>2. CASE RefuseRun(p) BY <2>2 DEF RefuseRun, At, storeVars, journalVars
  <2>3. CASE OpenStore(p)
    <3>1. tmp' = {} BY <2>3 DEF OpenStore, CleanupIncomplete
    <3>2. pc'[p] # "staged" BY <2>3 DEF OpenStore
    <3>. QED BY <3>1, <3>2
  <2>. QED BY <1>3, <2>1, <2>2, <2>3 DEF Opening
<1>4. CASE Discovering(p)
  <2>1. CASE FailLeaf(p)
    BY <2>1 DEF FailLeaf, DropTemporary, RecordFailure, RecordOccurrence
  <2>2. CASE RefuseLeaf(p) \/ LoseLeaf(p)
    BY <2>2 DEF RefuseLeaf, LoseLeaf, RecordFailure, RecordOccurrence, storeVars, At
  <2>9. CASE RecordLeaf(p)
    BY <2>9, RecordLeafDoes
  <2>3. CASE StageLeaf(p)
    BY <2>3 DEF StageLeaf, StageBlob, journalVars, At
  <2>4. CASE CommitLeaf(p)
    BY <2>4 DEF CommitLeaf, CommitBlob, RenameBlob, journalVars, At
  <2>5. CASE ChargeLeaf(p)
    BY <2>5 DEF ChargeLeaf, RecordBlob, storeVars, At
  <2>6. CASE SaveAccounting(p)
    BY <2>6 DEF SaveAccounting, SetAccounting, storeVars, At
  <2>7. CASE FreezePlan(p)
    BY <2>7 DEF FreezePlan, storeVars, At
  <2>8. CASE RefuseFreeze(p)
    BY <2>8 DEF RefuseFreeze, storeVars, journalVars, At
  <2>. QED BY <1>4, <2>1, <2>2, <2>3, <2>4, <2>5, <2>6, <2>7, <2>8, <2>9 DEF Discovering
<1>5. CASE Publishing(p)
  <2>1. tmp' = tmp
    BY <1>5 DEF Publishing, PassRecord, AcceptPublished, RefusePublished, CopyBlob, CopyToStage, VerifyStage,
       RejectStage, LinkStage, CommitWithoutClobbering, RefuseLink, UnlinkStage, DropStage, MarkRecord, storeVars
  <2>2. phase' = phase
    BY <1>5 DEF Publishing, PassRecord, AcceptPublished, RefusePublished, CopyBlob, VerifyStage, RejectStage,
       LinkStage, RefuseLink, DropStage, MarkRecord, MarkPublished, journalVars
  <2>3. pc[p] \in Frozen
    BY <1>5 DEF Publishing, PassRecord, AcceptPublished, RefusePublished, CopyBlob, VerifyStage, RejectStage,
       LinkStage, RefuseLink, DropStage, MarkRecord, At
  <2>4. pc'[p] # "staged"
    BY <1>5 DEF Publishing, PassRecord, AcceptPublished, RefusePublished, CopyBlob, VerifyStage, RejectStage,
       LinkStage, RefuseLink, DropStage, MarkRecord
  <2>. QED BY <2>1, <2>2, <2>3, <2>4
<1>6. CASE Reporting(p)
  <2>1. tmp' = tmp /\ pc[p] \in Frozen /\ pc'[p] # "staged"
    BY <1>6 DEF Reporting, EndPublish, BeginOutput, WriteOutput, CommitOutput, LoseOutput, CompleteRun,
       ReadyToComplete, storeVars, At
  <2>. QED BY <2>1
<1>7. CASE Kill(p)
  BY <1>7 DEF Kill, Abandon, journalVars, At
<1>8. CASE Interrupt(p)
  BY <1>8 DEF Interrupt, Unwind, journalVars, At
<1>9. CASE \E l \in Leaf : Intrude(l)
  BY <1>9 DEF Intrude, journalVars, procVars
<1>10. CASE \E l \in Leaf, d \in Digest : EditSource(l, d)
  BY <1>10 DEF EditSource, journalVars, procVars, storeVars
<1>11. CASE UNCHANGED vars
  BY <1>11, <1>1 DEF vars, journalVars, storeVars, procVars
<1>. QED BY <1>2, <1>3, <1>4, <1>5, <1>6, <1>7, <1>8, <1>9, <1>10, <1>11 DEF Next, Step, Surroundings

-----------------------------------------------------------------------------
\* Phase and counter.
LEMMA PhasedNext ==
    ASSUME Safe, NEW p, Proc = {p}, Phased(p), [Next]_vars
    PROVE  Phased(p)'
<1>. USE Fields DEF Phased, Discovery, Frozen, Placing, Closing
<1>1. CASE UNCHANGED <<pc, memb, acct, phase, plan>>
  BY <1>1
<1>2. CASE \E policy \in Policy : Start(p, policy)
  BY <1>2 DEF Start, At, journalVars
<1>3. CASE Opening(p)
  <2>1. CASE PrepareRun(p) BY <2>1 DEF PrepareRun, Prepare, At
  <2>2. CASE RefuseRun(p) BY <2>2 DEF RefuseRun, At, journalVars
  <2>3. CASE OpenStore(p)
    <3>1. UNCHANGED <<acct, phase, plan>> BY <2>3 DEF OpenStore, journalVars
    <3>2. CASE phase = "discovery" /\ GotoAt(p, "discover", 1)
      BY <3>1, <3>2
    <3>3. CASE phase # "discovery" /\ Goto(p, "publish") /\ memb' = [memb EXCEPT ![p] = RestoredMembers(p)]
      <4>1. memb'[p] = acct BY <3>3 DEF Safe, TypeOK, RestoredMembers
      <4>. QED BY <3>1, <3>3, <4>1
    <3>. QED BY <2>3, <3>2, <3>3 DEF OpenStore
  <2>. QED BY <1>3, <2>1, <2>2, <2>3 DEF Opening
<1>4. CASE Discovering(p)
  <2>1. CASE FailLeaf(p)
    BY <2>1 DEF FailLeaf, RecordFailure, RecordOccurrence
  <2>2. CASE RefuseLeaf(p) \/ LoseLeaf(p)
    BY <2>2 DEF RefuseLeaf, LoseLeaf, RecordFailure, RecordOccurrence, At
  <2>9. CASE RecordLeaf(p)
    BY <2>9, RecordLeafDoes
  <2>3. CASE StageLeaf(p)
    BY <2>3 DEF StageLeaf, journalVars, At
  <2>4. CASE CommitLeaf(p)
    BY <2>4 DEF CommitLeaf, journalVars, At
  <2>5. CASE ChargeLeaf(p)
    BY <2>5 DEF ChargeLeaf, RecordBlob, At
  <2>6. CASE SaveAccounting(p)
    BY <2>6 DEF SaveAccounting, SetAccounting, At
  <2>7. CASE FreezePlan(p)
    <3>1. pc[p] = "freeze" /\ pc'[p] = "publish" /\ memb'[p] = memb[p] /\ acct' = acct
      BY <2>7 DEF FreezePlan, Freeze, At
    <3>2. phase = "discovery" /\ plan = NoPlan BY <3>1
    <3>3. phase' = "frozen" BY <2>7, <3>2 DEF FreezePlan, Freeze, WriteOrKeepPlan
    <3>. QED BY <3>1, <3>3
  <2>8. CASE RefuseFreeze(p)
    BY <2>8 DEF RefuseFreeze, journalVars, At
  <2>. QED BY <1>4, <2>1, <2>2, <2>3, <2>4, <2>5, <2>6, <2>7, <2>8, <2>9 DEF Discovering
<1>5. CASE Publishing(p)
  <2>1. UNCHANGED <<phase, plan, acct>>
    BY <1>5 DEF Publishing, PassRecord, AcceptPublished, RefusePublished, CopyBlob, VerifyStage, RejectStage,
       LinkStage, RefuseLink, DropStage, MarkRecord, MarkPublished, journalVars
  <2>2. pc[p] \in Frozen
    BY <1>5 DEF Publishing, PassRecord, AcceptPublished, RefusePublished, CopyBlob, VerifyStage, RejectStage,
       LinkStage, RefuseLink, DropStage, MarkRecord, At
  <2>3. pc'[p] = "off" \/ (pc'[p] \in Frozen /\ memb'[p] = memb[p])
    BY <1>5 DEF Publishing, PassRecord, AcceptPublished, RefusePublished, CopyBlob, VerifyStage, RejectStage,
       LinkStage, RefuseLink, DropStage, MarkRecord
  <2>. QED BY <2>1, <2>2, <2>3
<1>6. CASE Reporting(p)
  <2>1. /\ pc[p] \in Frozen /\ UNCHANGED <<plan, acct>>
        /\ phase' = phase \/ phase' = "complete"
        /\ pc'[p] = "off" \/ (pc'[p] \in Frozen /\ memb'[p] = memb[p])
    BY <1>6 DEF Reporting, EndPublish, BeginOutput, WriteOutput, CommitOutput, LoseOutput, CompleteRun,
       CompleteJournal, ReadyToComplete, journalVars, At
  <2>. QED BY <2>1
<1>7. CASE Kill(p) \/ Interrupt(p)
  BY <1>7 DEF Kill, Interrupt, journalVars
<1>8. CASE \E l \in Leaf : Intrude(l)
  BY <1>8 DEF Intrude, journalVars, procVars
<1>9. CASE \E l \in Leaf, d \in Digest : EditSource(l, d)
  BY <1>9 DEF EditSource, journalVars, procVars
<1>10. CASE UNCHANGED vars
  BY <1>10, <1>1 DEF vars, journalVars, procVars
<1>. QED BY <1>2, <1>3, <1>4, <1>5, <1>6, <1>7, <1>8, <1>9, <1>10 DEF Next, Step, Surroundings

-----------------------------------------------------------------------------
\* The outputs.
LEMMA OutNames ==
    Out = {"manifest", "report"} /\ OutputAt(1) = "manifest" /\ OutputAt(2) = "report"
BY DEF Out, OutputAt

\* As long as outputs and drafts stay, and the process is not at them or not moved.
LEMMA ReportedStill ==
    ASSUME NEW p, Reported(p), UNCHANGED <<files, writing>>,
           UNCHANGED <<acct, plan>> \/ phase = "discovery", phase' = phase \/ (phase = "discovery" /\ phase' = "frozen"),
           pc'[p] \notin Closing
    PROVE  Reported(p)'
BY DEF Reported, Closing, OutcomeOf

\* The outputs are written one after the other, each whole before it is renamed.
LEMMA ReportingReported ==
    ASSUME Safe, NEW p, Proc = {p}, Phased(p), Reported(p), Reporting(p)
    PROVE  Reported(p)'
<1>0. plan' = plan => OutcomeOf(plan)' = OutcomeOf(plan) BY DEF OutcomeOf
<1>. USE <1>0, Fields, OutNames
<1>1. CASE EndPublish(p)
  <2>1. pc[p] = "publish" /\ pc'[p] = "outputs" /\ cur'[p] = 1 /\ UNCHANGED <<files, writing, phase, acct, plan>>
    BY <1>1 DEF EndPublish, At, outputVars, journalVars
  <2>. QED BY <2>1 DEF Reported
<1>2. CASE BeginOutput(p)
  <2>. DEFINE f == OutputAt(cur[p])
              d == [by |-> p, body |-> Blank]
  <2>1. /\ pc[p] = "outputs" /\ pc'[p] = "writing" /\ cur'[p] = cur[p] /\ UNCHANGED <<files, phase, acct, plan>>
        /\ writing' = [writing EXCEPT ![f] = {d}]
    BY <1>2 DEF BeginOutput, OpenDraft, At, journalVars
  <2>2. f \in Out /\ d \in Draft /\ d.by = p
    <3>1. cur[p] \in {1, 2} BY <2>1 DEF Reported
    <3>2. d \in Draft BY DEF Draft, Body, Blank, Outcomes
    <3>. QED BY <3>1, <3>2
  <2>3. writing'[f] = {d} BY <2>1, <2>2
  <2>4. \E x \in Draft : writing'[OutputAt(cur'[p])] = {x} /\ x.by = p BY <2>1, <2>2, <2>3
  <2>. QED BY <2>1, <2>4 DEF Reported
<1>3. CASE WriteOutput(p)
  <2>. DEFINE f == OutputAt(cur[p])
              b == Rendering(f, memb[p], OutcomeDecided(p))
  <2>1. /\ pc[p] = "writing" /\ pc'[p] = "replace" /\ cur'[p] = cur[p] /\ UNCHANGED <<files, phase, acct, plan>>
        /\ writing' = [writing EXCEPT ![f] = {IF d.by = p THEN [d EXCEPT !.body = b] ELSE d : d \in @}]
    BY <1>3 DEF WriteOutput, FillDraft, At, journalVars
  <2>2. PICK d \in Draft : writing[f] = {d} /\ d.by = p BY <2>1 DEF Reported
  <2>3. f \in Out BY <2>1 DEF Reported
  <2>4. memb[p] = acct BY <2>1 DEF Phased, Frozen, Closing
  <2>11. OutcomeDecided(p) = OutcomeOf(plan) /\ OutcomeOf(plan)' = OutcomeOf(plan)
    <3>1. cur[p] = 1 \/ OutputAt(cur[p]) = "report" BY DEF OutputAt
    <3>2. Local(p) /\ plan' = plan BY <1>3 DEF Safe, WriteOutput, journalVars
    <3>. QED BY <2>1, <3>1, <3>2 DEF OutcomeDecided, Local, Decided, OutcomeOf
  <2>5. b \in Body BY <2>11 DEF Rendering, Body, OutcomeOf, Outcomes
  <2>. HIDE DEF f, b
  <2>6. PICK e : e = [d EXCEPT !.body = b] OBVIOUS
  <2>7. e \in Draft /\ e.body = b BY <2>2, <2>5, <2>6 DEF Draft
  <2>8. writing'[f] = {e} BY <2>1, <2>2, <2>3, <2>6
  <2>9. f = OutputAt(cur'[p]) /\ b = Rendering(f, acct', OutcomeOf(plan)') BY <2>1, <2>4, <2>11 DEF f, b
  <2>10. \E x \in Draft : /\ writing'[OutputAt(cur'[p])] = {x}
                          /\ x.body = Rendering(OutputAt(cur'[p]), acct', OutcomeOf(plan)')
    BY <2>7, <2>8, <2>9
  <2>. QED BY <2>1, <2>10 DEF Reported
<1>4. CASE CommitOutput(p)
  <2>. DEFINE f == OutputAt(cur[p])
  <2>1. /\ pc[p] = "replace" /\ UNCHANGED <<phase, acct, plan>>
        /\ files' = [files EXCEPT ![f] = {d.body : d \in writing[f]}]
        /\ \/ cur[p] = 1 /\ pc'[p] = "outputs" /\ cur'[p] = 2
           \/ cur[p] # 1 /\ pc'[p] = "complete"
    BY <1>4 DEF CommitOutput, ReplaceOutput, At, journalVars
  <2>2. PICK d \in Draft : writing[f] = {d} /\ d.body = Rendering(f, acct, OutcomeOf(plan)) BY <2>1 DEF Reported
  <2>3. f \in Out /\ cur[p] \in {1, 2} BY <2>1 DEF Reported
  <2>4. files'[f] = {Rendering(f, acct, OutcomeOf(plan))} BY <2>1, <2>2, <2>3
  <2>5. \A g \in Out : g # f => files'[g] = files[g] BY <2>1, <2>3
  <2>6. phase # "discovery" BY <2>1 DEF Phased, Frozen, Closing
  <2>7. \A g \in Out : files'[g] \subseteq {Rendering(g, acct, OutcomeOf(plan))} BY <2>4, <2>5 DEF Reported
  <2>8. phase = "complete" => \A g \in Out : files'[g] # {} BY <2>4, <2>5 DEF Reported
  <2>9. CASE cur[p] = 1 /\ pc'[p] = "outputs" /\ cur'[p] = 2
    <3>1. files'["manifest"] # {} BY <2>4, <2>9
    <3>. QED BY <2>1, <2>6, <2>7, <2>8, <2>9, <3>1 DEF Reported
  <2>10. CASE cur[p] # 1 /\ pc'[p] = "complete"
    <3>1. cur[p] = 2 /\ f = "report" BY <2>3, <2>10
    <3>2. files["manifest"] # {} BY <2>1, <3>1 DEF Reported
    <3>3. \A g \in Out : files'[g] # {} BY <2>4, <2>5, <3>1, <3>2
    <3>. QED BY <2>1, <2>6, <2>7, <2>10, <3>3 DEF Reported
  <2>. QED BY <2>1, <2>9, <2>10
<1>5. CASE LoseOutput(p)
  <2>1. pc'[p] = "off" /\ UNCHANGED <<files, writing, phase, acct, plan>>
    BY <1>5 DEF LoseOutput, outputVars, journalVars
  <2>. QED BY <2>1, ReportedStill DEF Closing
<1>6. CASE CompleteRun(p)
  <2>1. /\ pc[p] = "complete" /\ pc'[p] = "off" /\ phase' = "complete"
        /\ UNCHANGED <<files, writing, acct, plan>>
    BY <1>6 DEF CompleteRun, CompleteJournal, ReadyToComplete, outputVars, At
  <2>. QED BY <2>1 DEF Reported
<1>. QED BY <1>1, <1>2, <1>3, <1>4, <1>5, <1>6 DEF Reporting

\* Every other step leaves the outputs, and the draft of a process that is writing.
LEMMA ReportedNext ==
    ASSUME Safe, NEW p, Proc = {p}, Phased(p), Reported(p), [Next]_vars
    PROVE  Reported(p)'
<1>0. plan' = plan => OutcomeOf(plan)' = OutcomeOf(plan) BY DEF OutcomeOf
<1>. USE <1>0, Fields
<1>1. CASE UNCHANGED <<pc, cur, acct, phase, plan, files, writing>>
  BY <1>1 DEF Reported
<1>2. CASE \E policy \in Policy : Start(p, policy)
  <2>1. UNCHANGED <<files, writing, phase, acct, plan>> /\ pc'[p] = "prepare"
    BY <1>2 DEF Start, outputVars, journalVars
  <2>. QED BY <2>1, ReportedStill DEF Closing
<1>3. CASE Opening(p)
  <2>1. UNCHANGED <<files, writing, phase, acct, plan>> /\ pc'[p] \notin Closing
    BY <1>3 DEF Opening, PrepareRun, Prepare, RefuseRun, OpenStore, outputVars, journalVars, Closing
  <2>. QED BY <2>1, ReportedStill
<1>4. CASE Discovering(p)
  <2>1. pc[p] \in Discovery /\ UNCHANGED <<files, writing>> /\ pc'[p] \notin Closing
    <3>1. CASE RecordLeaf(p) BY <3>1, RecordLeafDoes DEF Discovery, Closing
    <3>. QED BY <1>4, <3>1 DEF Discovering, FailLeaf, RefuseLeaf, LoseLeaf, RecordFailure, StageLeaf, CommitLeaf,
               ChargeLeaf, SaveAccounting, FreezePlan, RefuseFreeze, outputVars, At, Discovery, Closing
  <2>2. phase = "discovery" /\ plan = NoPlan BY <2>1 DEF Phased
  <2>3. phase' = phase \/ phase' = "frozen"
    <3>1. CASE RecordLeaf(p) BY <3>1, RecordLeafDoes
    <3>. QED BY <1>4, <3>1 DEF Discovering, FailLeaf, RefuseLeaf, LoseLeaf, RecordFailure, RecordOccurrence, StageLeaf,
               CommitLeaf, ChargeLeaf, RecordBlob, SaveAccounting, SetAccounting, FreezePlan, Freeze, WriteOrKeepPlan,
               RefuseFreeze, journalVars
  <2>. QED BY <2>1, <2>2, <2>3, ReportedStill
<1>5. CASE Publishing(p)
  <2>1. UNCHANGED <<files, writing, phase, acct, plan>>
    BY <1>5 DEF Publishing, PassRecord, AcceptPublished, RefusePublished, CopyBlob, VerifyStage, RejectStage,
       LinkStage, RefuseLink, DropStage, MarkRecord, MarkPublished, journalVars, outputVars
  <2>2. pc'[p] \notin Closing
    BY <1>5 DEF Publishing, PassRecord, AcceptPublished, RefusePublished, CopyBlob, VerifyStage, RejectStage,
       LinkStage, RefuseLink, DropStage, MarkRecord, Closing
  <2>. QED BY <2>1, <2>2, ReportedStill
<1>6. CASE Reporting(p)
  BY <1>6, ReportingReported
<1>7. CASE Kill(p) \/ Interrupt(p)
  <2>1. UNCHANGED <<files, phase, acct, plan>> /\ pc'[p] = "off"
    BY <1>7 DEF Kill, Interrupt, DropDraft, journalVars, outputVars
  <2>. QED BY <2>1 DEF Reported
<1>8. CASE \E l \in Leaf : Intrude(l)
  BY <1>8, <1>1 DEF Intrude, journalVars, procVars, outputVars
<1>9. CASE \E l \in Leaf, d \in Digest : EditSource(l, d)
  BY <1>9, <1>1 DEF EditSource, journalVars, procVars, outputVars
<1>10. CASE UNCHANGED vars
  BY <1>10, <1>1 DEF vars, journalVars, procVars, outputVars
<1>. QED BY <1>2, <1>3, <1>4, <1>5, <1>6, <1>7, <1>8, <1>9, <1>10 DEF Next, Step, Surroundings

-----------------------------------------------------------------------------
\* Staging, phase and outputs together, for the one process.
LEMMA KeptInit ==
    ASSUME Init, NEW p, Proc = {p}
    PROVE  Kept(p)
<1>1. /\ tmp = {} /\ pc[p] = "off" /\ phase = "discovery" /\ plan = NoPlan
      /\ \A f \in Out : files[f] = {}
  BY DEF Init, JournalInit, StoreInit, OutputInit
<1>2. Staged(p) BY <1>1 DEF Staged
<1>3. Phased(p) BY <1>1 DEF Phased, Discovery, Frozen, Placing, Closing
<1>4. Reported(p) BY <1>1 DEF Reported
<1>. QED BY <1>2, <1>3, <1>4 DEF Kept

\* Together they are preserved by every step.
LEMMA KeptAlways ==
    ASSUME NEW p, Proc = {p}
    PROVE  Spec => []Kept(p)
<1>1. Init => Kept(p)
  BY KeptInit
<1>2. Safe /\ Kept(p) /\ [Next]_vars => Kept(p)'
  BY StagedNext, PhasedNext, ReportedNext DEF Kept
<1>. QED BY <1>1, <1>2, Safety, PTL DEF Spec

\* One process at a time works on the destination.
OneAtATime == \E p : Proc = {p}

\* What a killed process staged is gone from the private directory by the time a
\* destination is complete, however many runs died on the way.
THEOREM StagingIsReclaimed ==
    ASSUME OneAtATime
    PROVE  Spec => []StagingReclaimed
<1>1. PICK p : Proc = {p}
  BY DEF OneAtATime
<1>2. Safe /\ Kept(p) => StagingReclaimed
  <2>. SUFFICES ASSUME Safe, Kept(p), phase = "complete" PROVE tmp = {}
    BY DEF StagingReclaimed
  <2>1. p \notin tmp
    BY DEF Kept, Staged, Phased, Discovery
  <2>2. Dead \notin tmp
    BY DEF Kept, Staged
  <2>. QED BY <1>1, <2>1, <2>2, Fields
<1>. QED BY <1>1, <1>2, KeptAlways, Safety, PTL

\* An output under its final name has all its lines and the count of the discovery
\* that froze the plan, in whatever run and after however many crashes it was written.
THEOREM OutputsAreWhole ==
    ASSUME OneAtATime
    PROVE  Spec => []OutputsWhole
<1>1. PICK p : Proc = {p}
  BY DEF OneAtATime
<1>2. Kept(p) => OutputsWhole
  BY DEF Kept, Reported, OutputsWhole
<1>. QED BY <1>1, <1>2, KeptAlways, PTL

-----------------------------------------------------------------------------
\* The plan of an undisturbed destination.

\* Every read succeeds and nobody edits the source under a live process.
Undisturbed == Budget["fault"] = 0 /\ ~EditsWhileRunning

\* What a discovery has charged when it comes to leaf n.
Counted(n) == IF n - 1 <= MaxMembers THEN n - 1 ELSE MaxMembers

\* The journal holds nothing but what the reference discovery records, ...
Faithful ==
    /\ budget["fault"] = 0
    /\ meta = {} => plan = NoPlan
    /\ \A i \in Id : occ[i] # NoOccurrence => \E id \in meta : occ[i] = ReferenceOcc(id)[i]
    /\ PlanIsReference

\* ... and the process has recorded all of it that lies behind its cursor.
Covered(p, n) == \A i \in Id : i[1] < n => \A id \in who[p] : occ[i] = ReferenceOcc(id)[i]

Discovers(p) ==
    /\ pc[p] = "off" => who[p] = {}
    /\ pc[p] \in {"off", "prepare", "open"} => memb[p] = 0
    /\ \A id \in who[p] : id.fp = source
    /\ pc[p] \in {"discover", "staged", "blob", "record"} => Covered(p, cur[p])
    /\ pc[p] \in {"discover", "staged", "blob"} => cur[p] # 0 /\ memb[p] = Counted(cur[p])
    /\ pc[p] \in Ingesting => cur[p] \in Leaf /\ cur[p] <= MaxMembers /\ got[p] = source[cur[p]]
    /\ pc[p] = "record" => memb[p] = cur[p]
    /\ pc[p] = "freeze" => Covered(p, N + 1)

Reference(p) == Faithful /\ Discovers(p)

\* What the reference discovery records of a leaf.
LEMMA ReferenceFacts ==
    ASSUME NEW id, NEW l \in Leaf
    PROVE  /\ ReferenceOcc(id)[<<l, "unreadable">>] = NoOccurrence
           /\ l <= MaxMembers =>
                /\ ReferenceOcc(id)[<<l, "ok">>] =
                     [digest |-> id.fp[l], status |-> Verdict[<<id.policy, l, id.fp[l]>>]]
                /\ ReferenceOcc(id)[<<l, "limit">>] = NoOccurrence
           /\ ~(l <= MaxMembers) =>
                /\ ReferenceOcc(id)[<<l, "ok">>] = NoOccurrence
                /\ ReferenceOcc(id)[<<l, "limit">>] = Failure
<1>1. l \in Nat /\ MaxMembers \in Nat
  BY FirstLeaf, RunAssumption
<1>2. <<l, "ok">> \in Id /\ <<l, "limit">> \in Id /\ <<l, "unreadable">> \in Id
  BY DEF Id, Kind
<1>3. l <= MaxMembers \/ l > MaxMembers
  BY <1>1
<1>4. ~(l <= MaxMembers /\ l > MaxMembers)
  BY <1>1
<1>. QED BY <1>1, <1>2, <1>3, <1>4 DEF ReferenceOcc

\* The one process, its identity and the source.
LEMMA IdentityFacts ==
    ASSUME Safe, NEW p, Proc = {p}, Discovers(p), pc[p] \notin {"off", "prepare"}
    PROVE  \E id \in Identity : who[p] = {id} /\ meta = {id} /\ id.fp = source
<1>1. p \in Proc /\ Local(p)
  BY DEF Safe
<1>. QED BY <1>1 DEF Local, Discovers

\* An occurrence as the reference discovery records it, and the next leaf.
LEMMA RecordedReference ==
    ASSUME Safe, NEW p, Proc = {p}, Reference(p), NEW kind \in Kind,
           pc[p] \notin {"off", "prepare"}, cur[p] \in Leaf, Covered(p, cur[p]),
           NEW r, occ' = [occ EXCEPT ![<<cur[p], kind>>] = r], UNCHANGED <<meta, plan, who>>,
           budget'["fault"] = 0,
           \A id \in who[p] : r = ReferenceOcc(id)[<<cur[p], kind>>],
           \A k \in Kind \ {kind} : \A id \in who[p] : ReferenceOcc(id)[<<cur[p], k>>] = NoOccurrence,
           NEW n, n = cur[p] + 1
    PROVE  Faithful' /\ Covered(p, n)'
<1>. DEFINE c == cur[p]
<1>1. PICK id \in Identity : who[p] = {id} /\ meta = {id}
  BY IdentityFacts DEF Reference
<1>2. occ \in [Id -> Occurrence] /\ <<c, kind>> \in Id
  BY DEF Safe, TypeOK, JournalTypeOK, Id
<1>3. occ'[<<c, kind>>] = r /\ \A i \in Id : i # <<c, kind>> => occ'[i] = occ[i]
  BY <1>2
<1>4. r = ReferenceOcc(id)[<<c, kind>>]
  BY <1>1
<1>5. \A i \in Id : occ'[i] # NoOccurrence => occ'[i] = ReferenceOcc(id)[i]
  <2>. SUFFICES ASSUME NEW i \in Id, occ'[i] # NoOccurrence PROVE occ'[i] = ReferenceOcc(id)[i]
    OBVIOUS
  <2>1. CASE i = <<c, kind>> BY <1>3, <1>4, <2>1
  <2>2. CASE i # <<c, kind>> BY <1>1, <1>3, <2>2 DEF Reference, Faithful
  <2>. QED BY <2>1, <2>2
<1>6. (\A i \in Id : occ[i] # NoOccurrence => \E x \in meta : occ[i] = ReferenceOcc(x)[i])'
  <2>1. meta' = {id} BY <1>1
  <2>2. \A i \in Id : occ'[i] # NoOccurrence => \E x \in meta' : occ'[i] = ReferenceOcc(x)[i]
    BY <1>5, <2>1
  <2>. QED BY <2>2 DEF ReferenceOcc
<1>7. PlanIsReference' /\ (meta = {} => plan = NoPlan)'
  BY DEF Reference, Faithful, PlanIsReference, ReferenceOcc
<1>8. ASSUME NEW i \in Id, i[1] < c + 1
      PROVE  occ'[i] = ReferenceOcc(id)[i]
  <2>1. c \in Nat /\ i[1] \in Nat /\ i[1] \in Leaf /\ i[2] \in Kind /\ i = <<i[1], i[2]>>
    <3>1. PICK l \in Leaf, k \in Kind : i = <<l, k>> BY DEF Id
    <3>2. l \in Nat /\ c \in Nat BY FirstLeaf
    <3>. QED BY <3>1, <3>2
  <2>2. CASE i[1] < c
    <3>1. i # <<c, kind>> BY <2>1, <2>2
    <3>. QED BY <1>1, <1>3, <2>2, <3>1 DEF Covered
  <2>3. CASE i[1] = c /\ i[2] = kind BY <1>3, <1>4, <2>1, <2>3
  <2>4. CASE i[1] = c /\ i[2] # kind
    <3>1. i # <<c, kind>> /\ ReferenceOcc(id)[i] = NoOccurrence BY <1>1, <2>1, <2>4
    <3>2. occ[i] = NoOccurrence \/ occ[i] = ReferenceOcc(id)[i] BY <1>1 DEF Reference, Faithful
    <3>. QED BY <1>3, <3>1, <3>2
  <2>. QED BY <1>8, <2>1, <2>2, <2>3, <2>4
<1>9. Covered(p, n)'
  <2>1. who'[p] = {id} BY <1>1
  <2>2. \A i \in Id : i[1] < n => \A x \in who'[p] : occ'[i] = ReferenceOcc(x)[i]
    BY <1>8, <2>1
  <2>. QED BY <2>2 DEF Covered, ReferenceOcc
<1>. QED BY <1>6, <1>7, <1>9 DEF Faithful

\* Steps that leave the records, the plan and the identity alone, ...
LEMMA FaithfulStill ==
    ASSUME Faithful, UNCHANGED <<occ, meta, plan>>, budget'["fault"] = budget["fault"]
    PROVE  Faithful'
BY DEF Faithful, PlanIsReference, ReferenceOcc

\* ... and those that end outside a discovery.
LEMMA DiscoversOutside ==
    ASSUME NEW p, pc'[p] \notin Discovery, pc'[p] = "off" => who'[p] = {},
           pc'[p] \in {"off", "prepare", "open"} => memb'[p] = 0,
           \A id \in who'[p] : id.fp = source'
    PROVE  Discovers(p)'
BY DEF Discovers, Discovery, Ingesting

\* What is recorded behind a place in the source stays so while records and identity do.
LEMMA CoveredStill ==
    ASSUME NEW p, NEW n, Covered(p, n), occ' = occ, who' = who
    PROVE  Covered(p, n)'
BY DEF Covered, ReferenceOcc

\* Another disturbance is no failed read.
LEMMA SpendOther ==
    ASSUME Safe, NEW d \in Disturbance \ {"fault"}, Spend(d)
    PROVE  budget'["fault"] = budget["fault"]
BY DEF Safe, TypeOK, Spend, Disturbance

\* A process that ends, or begins.
LEMMA EndedReference ==
    ASSUME Safe, NEW p, Proc = {p}, Reference(p), NEW code, Leave(p, code),
           UNCHANGED <<occ, meta, plan, source>>, budget'["fault"] = budget["fault"]
    PROVE  Reference(p)'
<1>1. pc'[p] = "off" /\ who'[p] = {}
  BY Fields
<1>2. memb'[p] = 0
  BY Fields DEF Leave, Safe, TypeOK
<1>3. Discovers(p)'
  BY <1>1, <1>2, DiscoversOutside DEF Discovery
<1>. QED BY <1>3, FaithfulStill DEF Reference

\* The identity a process begins with is that of the source it reads.
LEMMA StartReference ==
    ASSUME Safe, NEW p, Proc = {p}, Reference(p), NEW policy \in Policy, Start(p, policy)
    PROVE  Reference(p)'
<1>1. /\ At(p, "off") /\ pc'[p] = "prepare" /\ UNCHANGED <<occ, meta, plan, source, memb>>
  BY Fields DEF Start, journalVars
<1>2. PICK unread \in {{}} \cup {{l} : l \in Leaf} :
        /\ who' = [who EXCEPT ![p] = {[fp |-> source, unread |-> unread, policy |-> policy]}]
        /\ IF unread = {} THEN UNCHANGED budget ELSE Spend("fingerprint")
  BY DEF Start
<1>3. budget'["fault"] = budget["fault"]
  BY <1>2, SpendOther DEF Disturbance
<1>4. who'[p] = {[fp |-> source, unread |-> unread, policy |-> policy]}
  BY <1>2, Fields DEF Safe, TypeOK
<1>5. \A id \in who'[p] : id.fp = source'
  BY <1>1, <1>4
<1>6. memb'[p] = 0
  BY <1>1 DEF Reference, Discovers, At
<1>7. Discovers(p)'
  BY <1>1, <1>5, <1>6, DiscoversOutside DEF Discovery
<1>. QED BY <1>1, <1>3, <1>7, FaithfulStill DEF Reference

\* prepare adopts the identity, the store is opened, and a discovery begins before the
\* first leaf with nothing counted.
LEMMA OpeningReference ==
    ASSUME Safe, NEW p, Proc = {p}, Reference(p), Opening(p)
    PROVE  Reference(p)'
<1>. USE Fields
<1>1. CASE PrepareRun(p)
  <2>1. /\ pc[p] = "prepare" /\ pc'[p] = "open" /\ who' = who /\ memb' = memb
        /\ UNCHANGED <<occ, plan, source, budget>> /\ meta \subseteq who[p] /\ meta' = who[p]
    BY <1>1 DEF PrepareRun, Prepare, AdoptIdentity, At, Stay, World
  <2>2. PICK id \in Identity : who[p] = {id} BY <2>1 DEF Safe, Local
  <2>3. meta' = {id} /\ (meta # {} => meta' = meta) BY <2>1, <2>2
  <2>4. Faithful'
    <3>1. \A i \in Id : occ'[i] # NoOccurrence => \E x \in meta' : occ'[i] = ReferenceOcc(x)[i]
      BY <2>1, <2>3 DEF Reference, Faithful
    <3>2. plan' # NoPlan => \A x \in meta' : plan' = PlanOf(ReferenceOcc(x), x.policy)
      BY <2>1, <2>3 DEF Reference, Faithful, PlanIsReference
    <3>. QED BY <2>1, <2>3, <3>1, <3>2 DEF Reference, Faithful, PlanIsReference, ReferenceOcc
  <2>5. Discovers(p)'
    <3>1. memb'[p] = 0 /\ \A x \in who'[p] : x.fp = source' BY <2>1 DEF Reference, Discovers
    <3>. QED BY <2>1, <3>1, DiscoversOutside DEF Discovery
  <2>. QED BY <2>4, <2>5 DEF Reference
<1>2. CASE RefuseRun(p)
  <2>1. Leave(p, "conflict") /\ UNCHANGED <<occ, meta, plan, source, budget>>
    BY <1>2 DEF RefuseRun, journalVars, World
  <2>. QED BY <2>1, EndedReference
<1>3. CASE OpenStore(p)
  <2>1. /\ pc[p] = "open" /\ UNCHANGED <<occ, meta, plan, source, budget>> /\ who' = who
        /\ \/ GotoAt(p, "discover", 1)
           \/ Goto(p, "publish")
    BY <1>3 DEF OpenStore, GotoAt, At, journalVars, World
  <2>2. Faithful' BY <2>1, FaithfulStill DEF Reference
  <2>3. \A x \in who'[p] : x.fp = source' BY <2>1 DEF Reference, Discovers
  <2>4. CASE GotoAt(p, "discover", 1)
    <3>1. pc'[p] = "discover" /\ cur'[p] = 1 /\ memb'[p] = memb[p] BY <2>4
    <3>2. memb'[p] = Counted(1)
      <4>1. memb[p] = 0 BY <2>1 DEF Reference, Discovers
      <4>2. MaxMembers \in Nat BY RunAssumption
      <4>. QED BY <3>1, <4>1, <4>2 DEF Counted
    <3>3. \A i \in Id : ~(i[1] < 1)
      <4>1. ASSUME NEW l \in Leaf, NEW k \in Kind PROVE ~(<<l, k>>[1] < 1)
        <5>1. l \in Nat /\ l # 0 BY FirstLeaf, LeafFacts
        <5>. QED BY <5>1
      <4>. QED BY <4>1 DEF Id
    <3>4. Covered(p, cur[p])' BY <3>1, <3>3 DEF Covered
    <3>5. memb'[p] = Counted(cur'[p]) BY <3>1, <3>2
    <3>6. Discovers(p)' BY <2>3, <3>1, <3>4, <3>5 DEF Discovers, Ingesting, Counted
    <3>. QED BY <2>2, <3>6 DEF Reference
  <2>5. CASE Goto(p, "publish")
    <3>1. pc'[p] = "publish" BY <2>5
    <3>2. Discovers(p)' BY <2>3, <3>1, DiscoversOutside DEF Discovery
    <3>. QED BY <2>2, <3>2 DEF Reference
  <2>. QED BY <2>1, <2>4, <2>5
<1>. QED BY <1>1, <1>2, <1>3 DEF Opening

\* There is room for a leaf as long as the limit is not reached.
LEMMA RoomFacts ==
    ASSUME NEW c \in Leaf
    PROVE  /\ Counted(c) \in Nat
           /\ Counted(c) + 1 <= MaxMembers <=> c <= MaxMembers
           /\ c <= MaxMembers => Counted(c) + 1 = c /\ Counted(c + 1) = c
           /\ ~(c <= MaxMembers) => Counted(c + 1) = Counted(c)
<1>1. c \in Nat /\ c # 0 /\ MaxMembers \in Nat
  BY FirstLeaf, LeafFacts, RunAssumption
<1>. QED BY <1>1 DEF Counted

\* The occurrence of the leaf the process is at, and the cursor on the next one.
LEMMA RecordsReference ==
    ASSUME Safe, NEW p, Proc = {p}, Reference(p), NEW kind \in Kind,
           pc[p] \notin {"off", "prepare"}, cur[p] \in Leaf, Covered(p, cur[p]),
           NEW r, occ' = [occ EXCEPT ![<<cur[p], kind>>] = r], UNCHANGED <<meta, plan, who, source>>,
           budget'["fault"] = 0,
           \A id \in who[p] : r = ReferenceOcc(id)[<<cur[p], kind>>],
           \A k \in Kind \ {kind} : \A id \in who[p] : ReferenceOcc(id)[<<cur[p], k>>] = NoOccurrence,
           pc'[p] = "discover", cur'[p] = cur[p] + 1, memb'[p] = Counted(cur[p] + 1)
    PROVE  Reference(p)'
<1>1. PICK n : n = cur[p] + 1
  OBVIOUS
<1>2. Faithful' /\ Covered(p, n)'
  BY <1>1, RecordedReference
<1>3. cur'[p] = n /\ n # 0 /\ memb'[p] = Counted(n)
  <2>1. cur[p] \in Nat BY FirstLeaf
  <2>. QED BY <1>1, <2>1
<1>4. Covered(p, cur[p])'
  BY <1>2, <1>3 DEF Covered
<1>5. \A id \in who'[p] : id.fp = source'
  BY DEF Reference, Discovers
<1>6. memb'[p] = Counted(cur'[p])
  BY <1>3
<1>7. Discovers(p)'
  BY <1>3, <1>4, <1>5, <1>6 DEF Discovers, Ingesting, Counted
<1>. QED BY <1>2, <1>7 DEF Reference

\* A leaf beyond the limit is recorded as such, ...
LEMMA RefuseLeafReference ==
    ASSUME Safe, NEW p, Proc = {p}, Reference(p), RefuseLeaf(p)
    PROVE  Reference(p)'
<1>1. /\ pc[p] = "discover" /\ cur[p] \in Leaf /\ ~HasRoom(p)
      /\ occ' = [occ EXCEPT ![<<cur[p], "limit">>] = Failure]
      /\ UNCHANGED <<meta, plan, source, budget>> /\ who' = who /\ memb' = memb
      /\ pc'[p] = "discover" /\ cur' = [cur EXCEPT ![p] = @ + 1]
  BY Fields DEF RefuseLeaf, RecordFailure, RecordOccurrence, At, World
<1>2. cur'[p] = cur[p] + 1
  BY <1>1 DEF Safe, TypeOK
<1>3. memb[p] = Counted(cur[p]) /\ Covered(p, cur[p])
  BY <1>1 DEF Reference, Discovers
<1>4. ~(cur[p] <= MaxMembers) /\ Counted(cur[p] + 1) = Counted(cur[p])
  BY <1>1, <1>3, RoomFacts DEF HasRoom
<1>5. ASSUME NEW id
      PROVE  /\ ReferenceOcc(id)[<<cur[p], "limit">>] = Failure
             /\ \A k \in Kind \ {"limit"} : ReferenceOcc(id)[<<cur[p], k>>] = NoOccurrence
  <2>1. /\ ReferenceOcc(id)[<<cur[p], "limit">>] = Failure
        /\ ReferenceOcc(id)[<<cur[p], "ok">>] = NoOccurrence
        /\ ReferenceOcc(id)[<<cur[p], "unreadable">>] = NoOccurrence
    <3>1. PICK l \in Leaf : l = cur[p] BY <1>1
    <3>2. ~(l <= MaxMembers) BY <1>4, <3>1
    <3>3. ReferenceOcc(id)[<<l, "unreadable">>] = NoOccurrence BY ReferenceFacts, Zenon
    <3>4. ReferenceOcc(id)[<<l, "limit">>] = Failure BY <3>2, ReferenceFacts, Zenon
    <3>5. ReferenceOcc(id)[<<l, "ok">>] = NoOccurrence BY <3>2, ReferenceFacts, Zenon
    <3>. QED BY <3>1, <3>3, <3>4, <3>5
  <2>2. \A k \in Kind \ {"limit"} : k = "ok" \/ k = "unreadable"
    BY DEF Kind
  <2>. QED BY <2>1, <2>2, Zenon
<1>6. /\ \A id \in who[p] : Failure = ReferenceOcc(id)[<<cur[p], "limit">>]
      /\ \A k \in Kind \ {"limit"} : \A id \in who[p] : ReferenceOcc(id)[<<cur[p], k>>] = NoOccurrence
  BY <1>5, Zenon
<1>7. budget'["fault"] = 0 /\ "limit" \in Kind
  BY <1>1 DEF Reference, Faithful, Kind
<1>8. memb'[p] = Counted(cur[p] + 1)
  BY <1>1, <1>3, <1>4
<1>9. /\ pc[p] \notin {"off", "prepare"} /\ cur[p] \in Leaf /\ Covered(p, cur[p])
      /\ occ' = [occ EXCEPT ![<<cur[p], "limit">>] = Failure] /\ UNCHANGED <<meta, plan, who, source>>
      /\ pc'[p] = "discover" /\ cur'[p] = cur[p] + 1
  BY <1>1, <1>2, <1>3
<1>. QED BY <1>6, <1>7, <1>8, <1>9, RecordsReference, Zenon

\* ... one that was read by its content, ...
LEMMA RecordLeafReference ==
    ASSUME Safe, NEW p, Proc = {p}, Reference(p), RecordLeaf(p)
    PROVE  Reference(p)'
<1>1. /\ pc[p] = "record" /\ pc'[p] = "discover" /\ cur' = [cur EXCEPT ![p] = @ + 1]
      /\ UNCHANGED <<meta, plan, source, budget, who, memb>>
  BY Fields, RecordLeafDoes
<1>2. cur'[p] = cur[p] + 1
  BY <1>1 DEF Safe, TypeOK
<1>3. /\ cur[p] \in Leaf /\ cur[p] <= MaxMembers /\ got[p] = source[cur[p]] /\ Covered(p, cur[p])
      /\ memb[p] = cur[p]
  BY <1>1 DEF Reference, Discovers, Ingesting
<1>4. PICK id \in Identity : who[p] = {id} /\ id.fp = source
  BY <1>1, IdentityFacts DEF Reference
<1>5. PICK r : r = [digest |-> got[p], status |-> Verdict[<<id.policy, cur[p], got[p]>>]]
  OBVIOUS
<1>6. occ' = [occ EXCEPT ![<<cur[p], "ok">>] = r]
  BY <1>4, <1>5, RecordLeafDoes, Zenon
<1>7. \A x \in who[p] : r = ReferenceOcc(x)[<<cur[p], "ok">>]
  <2>1. PICK l \in Leaf : l = cur[p]
    BY <1>3
  <2>2. l <= MaxMembers /\ got[p] = id.fp[l]
    BY <1>3, <1>4, <2>1
  <2>3. ReferenceOcc(id)[<<l, "ok">>] =
          [digest |-> id.fp[l], status |-> Verdict[<<id.policy, l, id.fp[l]>>]]
    <3>1. l <= MaxMembers BY <2>2
    <3>. QED BY <3>1, ReferenceFacts, Zenon
  <2>4. r = [digest |-> id.fp[l], status |-> Verdict[<<id.policy, l, id.fp[l]>>]]
    BY <1>5, <2>1, <2>2
  <2>5. r = ReferenceOcc(id)[<<l, "ok">>]
    BY <2>3, <2>4, Zenon
  <2>. QED BY <1>4, <2>1, <2>5
<1>8. \A k \in Kind \ {"ok"} : \A x \in who[p] : ReferenceOcc(x)[<<cur[p], k>>] = NoOccurrence
  <2>1. ASSUME NEW x
        PROVE  /\ ReferenceOcc(x)[<<cur[p], "limit">>] = NoOccurrence
               /\ ReferenceOcc(x)[<<cur[p], "unreadable">>] = NoOccurrence
    <3>1. PICK l \in Leaf : l = cur[p] BY <1>3
    <3>2. l <= MaxMembers BY <1>3, <3>1
    <3>3. ReferenceOcc(x)[<<l, "unreadable">>] = NoOccurrence BY ReferenceFacts, Zenon
    <3>4. ReferenceOcc(x)[<<l, "limit">>] = NoOccurrence BY <3>2, ReferenceFacts, Zenon
    <3>. QED BY <3>1, <3>3, <3>4
  <2>2. \A k \in Kind \ {"ok"} : k = "limit" \/ k = "unreadable"
    BY DEF Kind
  <2>. QED BY <2>1, <2>2, Zenon
<1>9. budget'["fault"] = 0 /\ "ok" \in Kind
  BY <1>1 DEF Reference, Faithful, Kind
<1>10. memb'[p] = Counted(cur[p] + 1)
  BY <1>1, <1>3, RoomFacts
<1>11. /\ pc[p] \notin {"off", "prepare"} /\ cur[p] \in Leaf /\ Covered(p, cur[p])
       /\ UNCHANGED <<meta, plan, who, source>> /\ pc'[p] = "discover" /\ cur'[p] = cur[p] + 1
  BY <1>1, <1>2, <1>3
<1>. QED BY <1>6, <1>7, <1>8, <1>9, <1>10, <1>11, RecordsReference, Zenon

\* ... and what is staged, committed and charged is the content in between.
LEMMA IngestingReference ==
    ASSUME Safe, NEW p, Proc = {p}, Reference(p), StageLeaf(p) \/ CommitLeaf(p) \/ ChargeLeaf(p)
    PROVE  Reference(p)'
<1>. USE Fields
<1>1. /\ UNCHANGED <<occ, meta, plan, source, budget, who>> /\ cur' = cur
      /\ pc[p] \in {"discover", "staged", "blob"} /\ pc'[p] \in {"staged", "blob", "record"}
  BY DEF StageLeaf, CommitLeaf, ChargeLeaf, RecordBlob, At, Stay, journalVars, World
<1>2. Faithful'
  BY <1>1, FaithfulStill DEF Reference
<1>3. \A id \in who'[p] : id.fp = source'
  BY <1>1 DEF Reference, Discovers
<1>4. Covered(p, cur[p]) /\ cur[p] # 0 /\ memb[p] = Counted(cur[p])
  BY <1>1 DEF Reference, Discovers
<1>5. Covered(p, cur[p])'
  BY <1>1, <1>4 DEF Covered, ReferenceOcc
<1>6. /\ cur'[p] \in Leaf /\ cur'[p] <= MaxMembers /\ got'[p] = source'[cur'[p]]
      /\ pc'[p] \in {"staged", "blob"} => memb'[p] = Counted(cur'[p])
      /\ pc'[p] = "record" => memb'[p] = cur'[p]
  <2>1. CASE StageLeaf(p)
    <3>1. /\ cur[p] \in Leaf /\ HasRoom(p) /\ pc'[p] = "staged" /\ memb' = memb
          /\ got' = [got EXCEPT ![p] = source[cur[p]]]
      BY <2>1 DEF StageLeaf
    <3>2. got'[p] = source[cur[p]] BY <3>1 DEF Safe, TypeOK
    <3>3. cur[p] <= MaxMembers BY <1>4, <3>1, RoomFacts DEF HasRoom
    <3>. QED BY <1>1, <1>4, <3>1, <3>2, <3>3
  <2>2. CASE CommitLeaf(p)
    <3>1. pc[p] = "staged" /\ pc'[p] = "blob" /\ memb' = memb /\ got' = got
      BY <2>2 DEF CommitLeaf, At, Stay
    <3>. QED BY <1>1, <1>4, <3>1 DEF Reference, Discovers, Ingesting
  <2>3. CASE ChargeLeaf(p)
    <3>1. /\ pc[p] = "blob" /\ pc'[p] = "record" /\ got' = got
          /\ memb' = [memb EXCEPT ![p] = @ + 1]
      BY <2>3 DEF ChargeLeaf, At
    <3>2. memb'[p] = memb[p] + 1 BY <3>1 DEF Safe, TypeOK
    <3>3. cur[p] \in Leaf /\ cur[p] <= MaxMembers /\ got[p] = source[cur[p]]
      BY <3>1 DEF Reference, Discovers, Ingesting
    <3>4. memb'[p] = cur[p] BY <1>4, <3>2, <3>3, RoomFacts
    <3>. QED BY <1>1, <3>1, <3>3, <3>4
  <2>. QED BY <2>1, <2>2, <2>3
<1>7. Discovers(p)'
  BY <1>1, <1>3, <1>4, <1>5, <1>6 DEF Discovers, Ingesting, Counted
<1>. QED BY <1>2, <1>7 DEF Reference

\* With everything recorded, the plan that is frozen is the reference plan.
LEMMA FreezingReference ==
    ASSUME Safe, NEW p, Proc = {p}, Phased(p), Reference(p),
           SaveAccounting(p) \/ FreezePlan(p) \/ RefuseFreeze(p)
    PROVE  Reference(p)'
<1>. USE Fields
<1>1. CASE SaveAccounting(p)
  <2>1. /\ pc[p] = "discover" /\ cur[p] \notin Leaf /\ pc'[p] = "freeze"
        /\ UNCHANGED <<occ, meta, plan, source, budget, who>>
    BY <1>1 DEF SaveAccounting, SetAccounting, At, Stay, World
  <2>2. cur[p] \in Nat /\ cur[p] # 0 /\ Covered(p, cur[p])
    BY <2>1 DEF Reference, Discovers
  <2>3. ~(cur[p] <= N) /\ N \in Nat
    BY <2>1, <2>2, PlanAssumption DEF Leaf
  <2>4. ASSUME NEW i \in Id, i[1] < N + 1 PROVE i[1] < cur[p]
    <3>1. PICK l \in Leaf, k \in Kind : i = <<l, k>> BY DEF Id
    <3>2. l \in Nat BY FirstLeaf
    <3>. QED BY <2>2, <2>3, <2>4, <3>1, <3>2
  <2>5. Covered(p, N + 1)
    BY <2>2, <2>4 DEF Covered
  <2>6. Covered(p, N + 1)'
    BY <2>1, <2>5 DEF Covered, ReferenceOcc
  <2>7. Discovers(p)'
    BY <2>1, <2>6 DEF Reference, Discovers, Ingesting
  <2>. QED BY <2>1, <2>7, FaithfulStill DEF Reference
<1>2. CASE FreezePlan(p)
  <2>1. /\ pc[p] = "freeze" /\ pc'[p] = "publish" /\ who' = who /\ UNCHANGED <<source, budget, occ, meta>>
        /\ \E id \in who[p] : WriteOrKeepPlan(id.policy)
    BY <1>2 DEF FreezePlan, Freeze, At, GotoAt, World
  <2>2. PICK id \in Identity : who[p] = {id} /\ meta = {id}
    BY <2>1, IdentityFacts DEF Reference
  <2>3. plan = NoPlan
    BY <2>1 DEF Phased, Discovery
  <2>4. plan' = PlanOf(occ, id.policy)
    BY <2>1, <2>2, <2>3 DEF WriteOrKeepPlan
  <2>5. occ = ReferenceOcc(id)
    <3>1. Covered(p, N + 1)
      BY <2>1 DEF Reference, Discovers
    <3>2. ASSUME NEW i \in Id PROVE occ[i] = ReferenceOcc(id)[i]
      <4>1. PICK l \in Leaf, k \in Kind : i = <<l, k>> BY DEF Id
      <4>2. l < N + 1 BY PlanAssumption DEF Leaf
      <4>3. i[1] < N + 1 BY <4>1, <4>2
      <4>. QED BY <2>2, <3>1, <4>3 DEF Covered
    <3>3. occ = [i \in Id |-> occ[i]]
      BY DEF Safe, TypeOK, JournalTypeOK
    <3>4. ReferenceOcc(id) = [i \in Id |-> ReferenceOcc(id)[i]]
      BY Zenon DEF ReferenceOcc
    <3>. QED BY <3>2, <3>3, <3>4
  <2>6. Faithful'
    <3>1. meta' = {id} /\ occ' = occ /\ plan' = PlanOf(ReferenceOcc(id), id.policy)
      BY <2>1, <2>2, <2>4, <2>5
    <3>2. \A i \in Id : occ'[i] # NoOccurrence => \E x \in meta' : occ'[i] = ReferenceOcc(x)[i]
      BY <2>5, <3>1
    <3>3. \A x \in meta' : plan' = PlanOf(ReferenceOcc(x), x.policy)
      BY <3>1
    <3>4. budget'["fault"] = 0 /\ meta' # {}
      BY <2>1, <3>1 DEF Reference, Faithful
    <3>. QED BY <3>2, <3>3, <3>4 DEF Faithful, PlanIsReference, ReferenceOcc
  <2>7. \A x \in who'[p] : x.fp = source'
    BY <2>1 DEF Reference, Discovers
  <2>8. Discovers(p)'
    BY <2>1, <2>7, DiscoversOutside DEF Discovery
  <2>. QED BY <2>6, <2>8 DEF Reference
<1>3. CASE RefuseFreeze(p)
  <2>1. Leave(p, "conflict") /\ UNCHANGED <<occ, meta, plan, source, budget>>
    BY <1>3 DEF RefuseFreeze, journalVars, World
  <2>. QED BY <2>1, EndedReference
<1>. QED BY <1>1, <1>2, <1>3

\* Nobody fails a read: no other step of a discovery is left.
LEMMA DiscoveringReference ==
    ASSUME Safe, NEW p, Proc = {p}, Staged(p), Phased(p), Reference(p), Discovering(p)
    PROVE  Reference(p)'
<1>1. ~FailLeaf(p)
  BY DEF FailLeaf, Spend, Reference, Faithful
<1>2. ~LoseLeaf(p)
  BY DEF LoseLeaf, At, Staged
<1>. QED BY <1>1, <1>2, RefuseLeafReference, RecordLeafReference, IngestingReference, FreezingReference
     DEF Discovering

\* Publication and the outputs leave the records and the plan alone.
LEMMA FinishingReference ==
    ASSUME Safe, NEW p, Proc = {p}, Reference(p), Publishing(p) \/ Reporting(p)
    PROVE  Reference(p)'
<1>1. UNCHANGED <<occ, meta, plan, source>>
  BY DEF Publishing, PassRecord, AcceptPublished, RefusePublished, CopyBlob, VerifyStage, RejectStage,
     LinkStage, RefuseLink, DropStage, MarkRecord, MarkPublished, Reporting, EndPublish, BeginOutput, WriteOutput,
     CommitOutput, LoseOutput, CompleteRun, CompleteJournal, journalVars, World
<1>2. budget'["fault"] = budget["fault"]
  <2>1. UNCHANGED budget \/ Spend("damage")
    BY DEF Publishing, PassRecord, AcceptPublished, RefusePublished, CopyBlob, VerifyStage, RejectStage,
       LinkStage, RefuseLink, DropStage, MarkRecord, Reporting, EndPublish, BeginOutput, WriteOutput,
       CommitOutput, LoseOutput, CompleteRun, World
  <2>. QED BY <2>1, SpendOther DEF Disturbance
<1>3. (\E code : Leave(p, code)) \/ (pc'[p] \in Frozen /\ who' = who)
  BY Fields DEF Publishing, PassRecord, AcceptPublished, RefusePublished, CopyBlob, VerifyStage, RejectStage,
     LinkStage, RefuseLink, DropStage, MarkRecord, Reporting, EndPublish, BeginOutput, WriteOutput,
     CommitOutput, LoseOutput, CompleteRun, Stay, Frozen, Placing, Closing
<1>4. CASE \E code : Leave(p, code)
  BY <1>1, <1>2, <1>4, EndedReference
<1>5. CASE pc'[p] \in Frozen /\ who' = who
  <2>1. \A id \in who'[p] : id.fp = source' BY <1>1, <1>5 DEF Reference, Discovers
  <2>2. Discovers(p)'
    BY <1>5, <2>1, DiscoversOutside DEF Frozen, Placing, Closing, Discovery
  <2>. QED BY <1>1, <1>2, <2>2, FaithfulStill DEF Reference
<1>. QED BY <1>3, <1>4, <1>5

\* A process that dies, another program's file, and an edit while nobody works.
LEMMA SurroundingsReference ==
    ASSUME Safe, NEW p, Proc = {p}, ~EditsWhileRunning, Reference(p), Surroundings
    PROVE  Reference(p)'
<1>1. CASE Kill(p) \/ Interrupt(p)
  <2>1. (\E code : Leave(p, code)) /\ Spend("crash") /\ UNCHANGED <<occ, meta, plan, source>>
    BY <1>1 DEF Kill, Interrupt, journalVars
  <2>2. budget'["fault"] = budget["fault"] BY <2>1, SpendOther DEF Disturbance
  <2>. QED BY <2>1, <2>2, EndedReference
<1>2. CASE \E l \in Leaf : Intrude(l)
  <2>1. Spend("intrusion") /\ UNCHANGED <<occ, meta, plan, source, pc, who, cur, got, memb>>
    BY <1>2 DEF Intrude, journalVars, procVars
  <2>2. budget'["fault"] = budget["fault"] BY <2>1, SpendOther DEF Disturbance
  <2>3. Discovers(p)' BY <2>1 DEF Reference, Discovers, Covered, ReferenceOcc, Counted
  <2>. QED BY <2>1, <2>2, <2>3, FaithfulStill DEF Reference
<1>3. CASE \E l \in Leaf, d \in Digest : EditSource(l, d)
  <2>1. /\ pc[p] = "off" /\ Spend("edit")
        /\ UNCHANGED <<occ, meta, plan, pc, who, cur, got, memb>>
    BY <1>3 DEF EditSource, journalVars, procVars, At
  <2>2. budget'["fault"] = budget["fault"] BY <2>1, SpendOther DEF Disturbance
  <2>3. who'[p] = {} /\ memb'[p] = 0 /\ pc'[p] = "off" BY <2>1 DEF Reference, Discovers
  <2>4. Discovers(p)' BY <2>3, DiscoversOutside DEF Discovery
  <2>. QED BY <2>1, <2>2, <2>4, FaithfulStill DEF Reference
<1>. QED BY <1>1, <1>2, <1>3 DEF Surroundings

\* Every step, of an undisturbed destination, ...
LEMMA ReferenceNext ==
    ASSUME Safe, NEW p, Proc = {p}, ~EditsWhileRunning, Staged(p), Phased(p), Reference(p), [Next]_vars
    PROVE  Reference(p)'
<1>1. CASE \E policy \in Policy : Start(p, policy)
  BY <1>1, StartReference
<1>2. CASE Step(p)
  BY <1>2, OpeningReference, DiscoveringReference, FinishingReference DEF Step
<1>3. CASE Surroundings
  BY <1>3, SurroundingsReference
<1>4. CASE UNCHANGED vars
  <2>1. UNCHANGED <<occ, meta, plan, source, pc, who, cur, got, memb, budget>>
    BY <1>4 DEF vars, journalVars, procVars
  <2>2. Discovers(p)' BY <2>1 DEF Reference, Discovers, Covered, ReferenceOcc, Counted
  <2>. QED BY <2>1, <2>2, FaithfulStill DEF Reference
<1>. QED BY <1>1, <1>2, <1>3, <1>4 DEF Next

\* ... and the state it starts in.
LEMMA ReferenceInit ==
    ASSUME Init, NEW p, Proc = {p}, Budget["fault"] = 0
    PROVE  Reference(p)
<1>1. /\ budget = Budget /\ plan = NoPlan /\ pc[p] = "off" /\ who[p] = {} /\ memb[p] = 0
      /\ occ = [i \in Id |-> NoOccurrence]
  BY DEF Init, JournalInit
<1>2. Faithful
  BY <1>1 DEF Faithful, PlanIsReference
<1>3. Discovers(p)
  BY <1>1 DEF Discovers, Ingesting
<1>. QED BY <1>2, <1>3 DEF Reference

\* The plan of a destination is a function of the source and the policy it was
\* made for, whatever crashes, restarts and edits between runs came before it was
\* frozen: a discovery that was cut short leaves nothing in the journal that a
\* whole one would not have written there.
THEOREM PlanIsReproducible ==
    ASSUME OneAtATime, Undisturbed
    PROVE  Spec => []PlanIsReference
<1>1. PICK p : Proc = {p}
  BY DEF OneAtATime
<1>2. Init => Reference(p)
  BY <1>1, ReferenceInit DEF Undisturbed
<1>3. Safe /\ Kept(p) /\ Reference(p) /\ [Next]_vars => Reference(p)'
  BY <1>1, ReferenceNext DEF Kept, Undisturbed
<1>4. Reference(p) => PlanIsReference
  BY DEF Reference, Faithful
<1>5. Spec => []Kept(p)
  BY <1>1, KeptAlways
<1>. QED BY <1>2, <1>3, <1>4, <1>5, Safety, PTL DEF Spec
=============================================================================
