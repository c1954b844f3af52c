---------------------------- MODULE IntakeProofs -----------------------------
(***************************************************************************)
(* The way in, for every tree of entries, any number of replacements and   *)
(* every interleaving with the heartbeat: types, no byte from outside of   *)
(* the source is used, the inventory is in order, every entry has its      *)
(* record, and what the heartbeat shows is one point of the run.           *)
(***************************************************************************)
EXTENDS Intake, SequenceLemmas, FiniteSetTheorems

Fields == {"current", "durable", "failures"}
CallType ==
    {Phase(name, total) : name \in Phases, total \in Nat} \cup {Count(f) : f \in Fields} \cup {CloseCall}
WriteType ==
    {Set("phase", name) : name \in Phases}
    \cup {Set(f, value) : f \in Fields \cup {"total"}, value \in Nat}

WalkType == [path : Seq(Names), scanned : BOOLEAN, names : SUBSET Names]
RowType == [path : Seq(Names), reason : Reasons, seen : Files \cup {Nothing}]
OpenType == [path : Seq(Names), done : Nat, dir : Dirs, before : Files \cup {Nothing}]
Opening == {"hash", "identify", "ingest", "hash_file", "identify_file"}

ProgressTyped ==
    /\ ProgressTypeOK
    /\ calls \in Seq(CallType)
    /\ writes \in Seq(WriteType)

RecordType == [path : Seq(Names), reason : Reasons, object : Files \cup {Nothing}]

\* The variables of the main thread, and what is known of the file at hand.
MainTyped ==
    /\ given \in Givens /\ pc \in Labels
    /\ walk \in Seq(WalkType)
    /\ inventory \in Seq(RowType)
    /\ cursor \in Nat \ {0}
    /\ identity \in Files \cup {Nothing}
    /\ reason \in Reasons
    /\ records \subseteq RecordType /\ IsFiniteSet(records)
    /\ read \subseteq Files
    /\ (opening # {}) = (pc \in Opening)
    /\ \A i \in DOMAIN inventory : inventory[i].reason = Unread => inventory[i].path # <<>>
    /\ pc \in {"file", "hash_file", "source", "identify_file", "file_mail"} => given # <<>>
    /\ pc \in {"identify", "peek", "confirm", "mail", "ingest"} =>
           cursor \in DOMAIN inventory /\ inventory[cursor].reason = Unread
    /\ pc \in {"peek", "confirm", "mail", "file_mail"} => identity \in Files
    /\ pc = "failed" => reason # Unread

Typed == TreeTypeOK /\ ProgressTyped /\ MainTyped

\* Without a link nothing inside leads out, in the tree as it is now; a
\* descriptor and an identity were reached without links.
Confined ==
    /\ \A d \in Dirs, n \in Names : LeadsInside(d, fs[d][n])
    /\ \A o \in opening : o.dir \notin Outside
    /\ identity \notin Outside
    /\ ReadConfined

Safe == Typed /\ Confined

\* The strengthened types hold at least the types of the module.
LEMMA TypedIsTypeOK == Typed => TypeOK
BY DEF Typed, MainTyped, ProgressTyped, TypeOK, WalkType, RowType, RecordType, Opening

\* The assignments of a call are well typed.
LEMMA AssignmentsType ==
    ASSUME ProgressTypeOK, NEW call \in CallType
    PROVE  Assignments(call) \in Seq(WriteType)
<1>1. CASE \E name \in Phases, total \in Nat : call = Phase(name, total)
  <2>1. PICK name \in Phases, total \in Nat : call = Phase(name, total) BY <1>1
  <2>2. Assignments(call) = <<Set("phase", name), Set("current", 0), Set("total", total)>>
    BY <2>1 DEF Assignments, Phase
  <2>3. Set("phase", name) \in WriteType /\ Set("current", 0) \in WriteType /\ Set("total", total) \in WriteType
    BY <2>1 DEF WriteType, Fields
  <2>. QED BY <2>2, <2>3
<1>2. CASE \E f \in Fields : call = Count(f)
  <2>1. PICK f \in Fields : call = Count(f) BY <1>2
  <2>2. Assignments(call) = <<Set(f, counters[f] + 1)>>
    BY <2>1 DEF Assignments, Count
  <2>3. counters[f] + 1 \in Nat BY <2>1 DEF ProgressTypeOK, Fields
  <2>4. Set(f, counters[f] + 1) \in WriteType BY <2>1, <2>3 DEF WriteType
  <2>. QED BY <2>2, <2>4
<1>3. CASE call = CloseCall
  <2>2. Assignments(call) = <<Set("phase", "completion"), Set("current", counters.durable),
                                Set("total", counters.durable)>>
    BY <1>3 DEF Assignments, CloseCall
  <2>3. counters.durable \in Nat BY DEF ProgressTypeOK
  <2>4. /\ Set("phase", "completion") \in WriteType /\ Set("current", counters.durable) \in WriteType
        /\ Set("total", counters.durable) \in WriteType
    BY <2>3 DEF WriteType, Fields, Phases
  <2>. QED BY <2>2, <2>4
<1>. QED BY <1>1, <1>2, <1>3 DEF CallType

\* A written field keeps its type.
LEMMA WriteKeepsType ==
    ASSUME ProgressTypeOK, NEW w \in WriteType
    PROVE  [counters EXCEPT ![w.field] = w.value] \in
             [phase : Phases, current : Nat, total : Nat, durable : Nat, failures : Nat]
BY DEF ProgressTypeOK, WriteType, Set, Fields

-----------------------------------------------------------------------------
\* The counters: a step of the main thread leaves them alone or adds calls.

\* Calls that are handed to the progress, none, ...
LEMMA ReportType ==
    ASSUME ProgressTyped, NEW seq \in Seq(CallType), Report(seq)
    PROVE  ProgressTyped'
BY DEF ProgressTyped, ProgressTypeOK, Report

\* ... a change of phase, ...
LEMMA PhaseReport ==
    ASSUME ProgressTyped, NEW name \in Phases, NEW total \in Nat, Report(<<Phase(name, total)>>)
    PROVE  ProgressTyped'
<1>1. Phase(name, total) \in CallType BY DEF CallType
<1>2. <<Phase(name, total)>> \in Seq(CallType) BY <1>1
<1>. QED BY <1>2, ReportType

\* ... or a count, ...
LEMMA CountReport ==
    ASSUME ProgressTyped, NEW call \in {AdvanceCall, CommittedCall, FailedCall}, Report(<<call>>)
    PROVE  ProgressTyped'
<1>1. call \in CallType BY DEF CallType, AdvanceCall, CommittedCall, FailedCall, Fields
<1>2. <<call>> \in Seq(CallType) BY <1>1
<1>. QED BY <1>2, ReportType

\* ... and steps without any.
LEMMA QuietType == ASSUME ProgressTyped, Quiet PROVE ProgressTyped'
BY DEF ProgressTyped, ProgressTypeOK, Quiet, progressVars

\* Every call the main thread makes is one of the progress.
LEMMA CallTypes ==
    /\ \A name \in Phases, total \in Nat : Phase(name, total) \in CallType
    /\ AdvanceCall \in CallType /\ CommittedCall \in CallType /\ FailedCall \in CallType
    /\ CloseCall \in CallType
BY DEF CallType, AdvanceCall, CommittedCall, FailedCall, Fields

\* The calls of Progress and the heartbeat keep the types.
LEMMA CountingType ==
    ASSUME ProgressTyped, BeginCall \/ Assign \/ EndCall \/ Heartbeat
    PROVE  ProgressTyped'
<1>1. CASE BeginCall
  <2>1. calls # <<>> /\ Head(calls) \in CallType /\ Tail(calls) \in Seq(CallType)
    BY <1>1, HeadTailProperties DEF BeginCall, ProgressTyped
  <2>2. Assignments(Head(calls)) \in Seq(WriteType)
    BY <2>1, AssignmentsType DEF ProgressTyped
  <2>. QED BY <1>1, <2>1, <2>2 DEF BeginCall, ProgressTyped, ProgressTypeOK
<1>2. CASE Assign
  <2>1. writes # <<>> /\ Head(writes) \in WriteType /\ Tail(writes) \in Seq(WriteType)
    BY <1>2, HeadTailProperties DEF Assign, ProgressTyped
  <2>2. counters' \in [phase : Phases, current : Nat, total : Nat, durable : Nat, failures : Nat]
    BY <1>2, <2>1, WriteKeepsType DEF Assign, ProgressTyped
  <2>. QED BY <1>2, <2>1, <2>2 DEF Assign, ProgressTyped, ProgressTypeOK
<1>3. CASE EndCall
  BY <1>3 DEF EndCall, ProgressTyped, ProgressTypeOK
<1>4. CASE Heartbeat
  BY <1>4 DEF Heartbeat, Wake, BeginBeat, EndBeat, Quit, ProgressTyped, ProgressTypeOK
<1>. QED BY <1>1, <1>2, <1>3, <1>4

-----------------------------------------------------------------------------
\* The tree and open_source.

\* What lstat sees of a path that is not empty is an entry.
LEMMA LstatType ==
    ASSUME TreeTypeOK, NEW path \in Seq(Names), path # <<>>
    PROVE  Lstat(path) \in Entries
<1>1. Last(path) \in Names BY FrontLast
<1>2. Vacant \in Entries BY DEF Vacant, Entries, Objects
<1>. QED BY <1>1, <1>2 DEF Lstat, TreeTypeOK

\* An open begins before the first component.
LEMMA StartOpenType ==
    ASSUME TreeTypeOK, NEW path \in Seq(Names), path # <<>>,
           StartOpen(path), UNCHANGED <<platform, fs, swaps>>
    PROVE  TreeTypeOK' /\ opening' # {}
<1>1. Len(path) \in Nat /\ 0 < Len(path) BY EmptySeq
<1>. QED BY <1>1, TreeAssumption DEF TreeTypeOK, StartOpen

\* An ancestor of the path of a call, and the path itself.
LEMMA AncestorFacts ==
    ASSUME TreeTypeOK, NEW o \in opening
    PROVE  /\ o.path \in Seq(Names) /\ o.path # <<>> /\ Len(o.path) \in Nat
           /\ o.done \in Nat /\ o.done < Len(o.path) /\ o.dir \in Dirs
           /\ o.before \in Files \cup {Nothing}
           /\ Component(o) \in Names
<1>1. o \in OpenType /\ o.done < Len(o.path) BY DEF TreeTypeOK, OpenType
<1>2. o.path \in Seq(Names) /\ Len(o.path) \in Nat /\ o.done \in Nat BY <1>1, LenProperties DEF OpenType
<1>3. o.path # <<>> BY <1>1, <1>2, EmptySeq
<1>4. Component(o) \in Names BY <1>1, <1>2, ElementOfSeq DEF Component
<1>. QED BY <1>1, <1>2, <1>3, <1>4 DEF OpenType

\* It goes on from component to component.
LEMMA OpenStepType ==
    ASSUME TreeTypeOK, NEW o \in opening, OpenGoesOn(o), UNCHANGED <<platform, fs, swaps>>
    PROVE  TreeTypeOK' /\ opening' # {}
<1>1. PICK u \in OpenType : opening' = {u} /\ u.done < Len(u.path)
  <2>0. o = [path |-> o.path, done |-> o.done, dir |-> o.dir, before |-> o.before]
    BY DEF TreeTypeOK
  <2>. DEFINE Like(done, dir, before) == [path |-> o.path, done |-> done, dir |-> dir, before |-> before]
  <2>b. /\ o.path \in Seq(Names) /\ Len(o.path) \in Nat /\ o.done \in Nat /\ o.done < Len(o.path)
        /\ o.dir \in Dirs /\ o.before \in Files \cup {Nothing} /\ o.done + 1 \in Nat
    BY AncestorFacts
  <2>c. \A done, dir, before : Like(done, dir, before).done = done /\ Like(done, dir, before).path = o.path
    OBVIOUS
  <2>d. Passed(o) = Like(o.done + 1, o.dir, o.before) BY <2>0 DEF Passed
  <2>a. \A done \in Nat, dir \in Dirs, before \in Files \cup {Nothing} : Like(done, dir, before) \in OpenType
    BY <2>b DEF OpenType
  <2>1. CASE platform = "posix" /\ ~AtLeaf(o)
    <3>1. fs[o.dir][Component(o)].to \in Dirs /\ opening' = {[Passed(o) EXCEPT !.dir = fs[o.dir][Component(o)].to]}
      BY <2>1 DEF OpenGoesOn, PlainDirectory
    <3>2. o.done + 1 < Len(o.path) BY <2>1, <2>b DEF AtLeaf
    <3>3. [Passed(o) EXCEPT !.dir = fs[o.dir][Component(o)].to]
            = Like(o.done + 1, fs[o.dir][Component(o)].to, o.before)
      BY <2>d
    <3>. HIDE DEF Like
    <3>. QED BY <2>a, <2>b, <2>c, <3>1, <3>2, <3>3
  <2>2. CASE platform = "nt" /\ ~AtLeaf(o)
    <3>1. opening' = {Passed(o)} BY <2>2 DEF OpenGoesOn
    <3>2. o.done + 1 < Len(o.path) BY <2>2, <2>b DEF AtLeaf
    <3>. HIDE DEF Like
    <3>. QED BY <2>a, <2>b, <2>c, <2>d, <3>1, <3>2
  <2>3. CASE platform = "nt" /\ AtLeaf(o)
    <3>1. Lstat(o.path).to \in Files /\ opening' = {[o EXCEPT !.before = Lstat(o.path).to]}
      BY <2>3 DEF OpenGoesOn, PlainFile
    <3>2. [o EXCEPT !.before = Lstat(o.path).to] = Like(o.done, o.dir, Lstat(o.path).to) BY <2>0
    <3>. HIDE DEF Like
    <3>. QED BY <2>a, <2>b, <2>c, <3>1, <3>2
  <2>. QED BY <2>1, <2>2, <2>3 DEF OpenGoesOn
<1>. QED BY <1>1 DEF TreeTypeOK, OpenType

\* A finished call, whatever its result.
LEMMA CallEndsType ==
    ASSUME TreeTypeOK, opening' = {}, UNCHANGED <<platform, fs, swaps>>
    PROVE  TreeTypeOK'
BY DEF TreeTypeOK

\* A replacement leaves every type as it is.
LEMMA SwapType ==
    ASSUME TreeTypeOK, Swap
    PROVE  TreeTypeOK'
BY TreeAssumption DEF TreeTypeOK, Swap

-----------------------------------------------------------------------------
\* Whoever opens a file gets one that is inside.
LEMMA OpensInside ==
    ASSUME Safe, NEW o \in opening, NEW object, Opens(o, object)
    PROVE  object \notin Outside
<1>1. TreeTypeOK BY DEF Safe, Typed
<1>2. o.dir \in Dirs /\ Component(o) \in Names BY <1>1, AncestorFacts
<1>3. CASE platform = "posix"
  <2>1. /\ ~fs[o.dir][Component(o)].link /\ object = fs[o.dir][Component(o)].to
        /\ o.dir \notin Outside /\ LeadsInside(o.dir, fs[o.dir][Component(o)])
    BY <1>2, <1>3 DEF Opens, PlainFile, Safe, Confined
  <2>. QED BY <2>1 DEF LeadsInside
<1>4. CASE platform = "nt"
  BY <1>4 DEF Opens, Proven
<1>. QED BY <1>1, <1>3, <1>4, TreeAssumption DEF TreeTypeOK

\* A step of open_source stays inside.
LEMMA OpenStepInside ==
    ASSUME Safe, NEW o \in opening, OpenGoesOn(o)
    PROVE  \A u \in opening' : u.dir \notin Outside
<1>1. TreeTypeOK BY DEF Safe, Typed
<1>2. o.dir \in Dirs /\ Component(o) \in Names BY <1>1, AncestorFacts
<1>3. o \in OpenType /\ o.dir \notin Outside
  BY <1>1 DEF Safe, Confined, TreeTypeOK, OpenType
<1>. DEFINE entry == fs[o.dir][Component(o)]
<1>4. CASE platform = "posix" /\ ~AtLeaf(o)
  <2>1. /\ ~entry.link /\ opening' = {[Passed(o) EXCEPT !.dir = entry.to]}
        /\ LeadsInside(o.dir, entry)
    BY <1>2, <1>4 DEF OpenGoesOn, PlainDirectory, Safe, Confined
  <2>2. [Passed(o) EXCEPT !.dir = entry.to].dir = entry.to
    BY <1>3 DEF OpenType, Passed
  <2>. QED BY <1>3, <2>1, <2>2 DEF LeadsInside
<1>5. CASE platform = "nt" /\ ~AtLeaf(o)
  <2>1. opening' = {Passed(o)} /\ Passed(o).dir = o.dir
    BY <1>3, <1>5 DEF OpenGoesOn, Passed, OpenType
  <2>. QED BY <1>3, <2>1
<1>6. CASE platform = "nt" /\ AtLeaf(o)
  <2>1. opening' = {[o EXCEPT !.before = Lstat(o.path).to]} /\ [o EXCEPT !.before = Lstat(o.path).to].dir = o.dir
    BY <1>3, <1>6 DEF OpenGoesOn, OpenType
  <2>. QED BY <1>3, <2>1
<1>. QED BY <1>4, <1>5, <1>6 DEF OpenGoesOn

\* The parts of Safe.
LEMMA SafeParts ==
    ASSUME Safe
    PROVE  TreeTypeOK /\ ProgressTyped /\ MainTyped /\ Confined
BY DEF Safe, Typed

\* A row that is not to be read, or has a path, may be added.
LEMMA AppendRow ==
    ASSUME inventory \in Seq(RowType), NEW row \in RowType, row.reason = Unread => row.path # <<>>,
           \A i \in DOMAIN inventory : inventory[i].reason = Unread => inventory[i].path # <<>>,
           inventory' = Append(inventory, row)
    PROVE  /\ inventory' \in Seq(RowType)
           /\ \A i \in DOMAIN inventory' : inventory'[i].reason = Unread => inventory'[i].path # <<>>
<1>1. /\ inventory' \in Seq(RowType) /\ Len(inventory') = Len(inventory) + 1
      /\ \A i \in 1 .. Len(inventory) : inventory'[i] = inventory[i]
      /\ inventory'[Len(inventory) + 1] = row
  BY AppendProperties
<1>. QED BY <1>1, LenProperties

\* The root is inside, so a call starts inside.
LEMMA StartInside ==
    ASSUME NEW path, StartOpen(path)
    PROVE  \A o \in opening' : o.dir \notin Outside
BY TreeAssumption DEF StartOpen

\* The walk begins with the root.
LEMMA StartWalkSafe ==
    ASSUME Safe, StartWalk
    PROVE  Safe'
<1>5. <<Visit(<<>>)>> \in Seq(WalkType)
  BY DEF Visit, WalkType
<1>1. TreeTypeOK'
  BY SafeParts DEF StartWalk, treeVars, TreeTypeOK
<1>2. ProgressTyped'
  BY SafeParts, PhaseReport DEF StartWalk, Phases
<1>3. MainTyped'
  BY SafeParts, <1>5 DEF StartWalk, MainTyped, At, Goto, treeVars, Labels, Opening
<1>4. Confined'
  BY SafeParts DEF StartWalk, treeVars, Confined, ReadConfined
<1>. QED BY <1>1, <1>2, <1>3, <1>4 DEF Safe, Typed

\* Scanning lists names, or one failure.
LEMMA ScanDirectorySafe ==
    ASSUME Safe, ScanDirectory
    PROVE  Safe'
<1>5. /\ walk' \in Seq(WalkType) /\ inventory' \in Seq(RowType)
      /\ \A i \in DOMAIN inventory' : inventory'[i].reason = Unread => inventory'[i].path # <<>>
  <2>1. walk \in Seq(WalkType) /\ walk # <<>> /\ inventory \in Seq(RowType)
        /\ \A i \in DOMAIN inventory : inventory[i].reason = Unread => inventory[i].path # <<>>
    BY SafeParts DEF ScanDirectory, AtDirectory, MainTyped
  <2>2. Here \in WalkType /\ Front(walk) \in Seq(WalkType) BY <2>1, FrontLast DEF Here
  <2>3. CASE inventory' = inventory /\ walk' = Append(Front(walk), [Here EXCEPT !.scanned = TRUE,
                  !.names = {n \in Names : fs[Follow(Here.path)][n] # Vacant}])
    <3>1. [Here EXCEPT !.scanned = TRUE, !.names = {n \in Names : fs[Follow(Here.path)][n] # Vacant}] \in WalkType
      BY <2>2 DEF WalkType
    <3>. QED BY <2>1, <2>2, <2>3, <3>1, AppendProperties
  <2>4. CASE walk' = Front(walk) /\ inventory' = Append(inventory, Row(Here.path, "unreadable", Nothing))
    <3>1. Row(Here.path, "unreadable", Nothing) \in RowType /\ Row(Here.path, "unreadable", Nothing).reason # Unread
      BY <2>2 DEF WalkType, RowType, Row, Reasons, Unread
    <3>. QED BY <2>1, <2>2, <2>4, <3>1, AppendRow
  <2>. QED BY <2>3, <2>4 DEF ScanDirectory, List
<1>1. TreeTypeOK'
  BY SafeParts DEF ScanDirectory, treeVars, TreeTypeOK
<1>2. ProgressTyped'
  BY SafeParts, QuietType DEF ScanDirectory
<1>3. MainTyped'
  BY SafeParts, <1>5 DEF ScanDirectory, MainTyped, At, Goto, treeVars, Labels, Opening, AtDirectory
<1>4. Confined'
  BY SafeParts DEF ScanDirectory, treeVars, Confined, ReadConfined
<1>. QED BY <1>1, <1>2, <1>3, <1>4 DEF Safe, Typed

\* A name is listed, descended into or opened below the root.
LEMMA VisitEntrySafe ==
    ASSUME Safe, NEW n \in Names, VisitEntry(n)
    PROVE  Safe'
<1>. DEFINE path == Append(Here.path, n)
            rest == Append(Front(walk), [Here EXCEPT !.names = @ \ {n}])
<1>5. Here \in WalkType /\ Front(walk) \in Seq(WalkType) /\ path \in Seq(Names) /\ path # <<>>
      /\ rest \in Seq(WalkType)
  <2>1. walk \in Seq(WalkType) /\ walk # <<>>
    BY SafeParts DEF VisitEntry, AtDirectory, MainTyped
  <2>2. Here \in WalkType /\ Front(walk) \in Seq(WalkType) BY <2>1, FrontLast DEF Here
  <2>3. [Here EXCEPT !.names = @ \ {n}] \in WalkType /\ Here.path \in Seq(Names)
    BY <2>2 DEF WalkType
  <2>4. path \in Seq(Names) /\ Len(path) = Len(Here.path) + 1 /\ Len(Here.path) \in Nat
    BY <2>3, AppendProperties, LenProperties
  <2>5. path # <<>> BY <2>4, EmptySeq
  <2>6. rest \in Seq(WalkType) BY <2>2, <2>3, AppendProperties
  <2>. QED BY <2>2, <2>4, <2>5, <2>6
<1>6. walk' \in Seq(WalkType)
  <2>1. Visit(path) \in WalkType BY <1>5 DEF Visit, WalkType
  <2>2. Append(rest, Visit(path)) \in Seq(WalkType) BY <1>5, <2>1, AppendProperties
  <2>. QED BY <1>5, <2>2 DEF VisitEntry
<1>7. /\ inventory' \in Seq(RowType)
      /\ \A i \in DOMAIN inventory' : inventory'[i].reason = Unread => inventory'[i].path # <<>>
  <2>1. \A why \in {"unreadable", "unsafe_entry"} :
            Row(path, why, Nothing) \in RowType /\ Row(path, why, Nothing).reason # Unread
    BY <1>5 DEF RowType, Row, Reasons, Unread
  <2>2. \/ inventory' = inventory
        \/ \E why \in {"unreadable", "unsafe_entry"} : inventory' = Append(inventory, Row(path, why, Nothing))
    BY DEF VisitEntry, List
  <2>. QED BY <2>1, <2>2, SafeParts, AppendRow DEF MainTyped
<1>8. /\ pc' \in {"walk", "hash"}
      /\ (opening' # {}) = (pc' = "hash")
  BY SafeParts DEF VisitEntry, AtDirectory, At, Goto, StartOpen, MainTyped, Opening
<1>1. TreeTypeOK'
  BY SafeParts, <1>5, StartOpenType DEF VisitEntry, TreeTypeOK
<1>2. ProgressTyped'
  BY SafeParts, QuietType DEF VisitEntry
<1>3. MainTyped'
  BY SafeParts, <1>5, <1>6, <1>7, <1>8 DEF VisitEntry, MainTyped, At, Goto, treeVars, Labels, Opening, AtDirectory, Unread
<1>4. Confined'
  BY SafeParts, <1>5, StartInside DEF VisitEntry, treeVars, Confined, ReadConfined
<1>. QED BY <1>1, <1>2, <1>3, <1>4 DEF Safe, Typed

\* The walk goes back.
LEMMA LeaveDirectorySafe ==
    ASSUME Safe, LeaveDirectory
    PROVE  Safe'
<1>5. walk' \in Seq(WalkType)
  BY SafeParts, FrontLast DEF LeaveDirectory, AtDirectory, MainTyped
<1>1. TreeTypeOK'
  BY SafeParts DEF LeaveDirectory, treeVars, TreeTypeOK
<1>2. ProgressTyped'
  BY SafeParts, QuietType DEF LeaveDirectory
<1>3. MainTyped'
  BY SafeParts, <1>5 DEF LeaveDirectory, MainTyped, At, Goto, treeVars, Labels, Opening, AtDirectory
<1>4. Confined'
  BY SafeParts DEF LeaveDirectory, treeVars, Confined, ReadConfined
<1>. QED BY <1>1, <1>2, <1>3, <1>4 DEF Safe, Typed

\* open_source goes on, inside.
LEMMA OpenStepSafe ==
    ASSUME Safe, OpenStep
    PROVE  Safe'
<1>5. PICK o \in opening : OpenGoesOn(o)
  BY DEF OpenStep
<1>1. TreeTypeOK'
  BY <1>5, SafeParts, OpenStepType DEF OpenStep
<1>2. ProgressTyped'
  BY SafeParts, QuietType DEF OpenStep
<1>3. MainTyped'
  BY SafeParts, <1>5, OpenStepType DEF OpenStep, MainTyped, At, Goto, treeVars, Labels, Opening, intakeVars
<1>4. Confined'
  BY SafeParts, <1>5, OpenStepInside DEF OpenStep, treeVars, Confined, ReadConfined, intakeVars
<1>. QED BY <1>1, <1>2, <1>3, <1>4 DEF Safe, Typed

\* A file is hashed, from inside.
LEMMA HashedSafe ==
    ASSUME Safe, NEW object \in Files, Hashed(object)
    PROVE  Safe'
<1>5. PICK o \in opening : Opens(o, object) /\ List(Row(o.path, Unread, object))
  BY DEF Hashed, Opens, Refuses
<1>6. /\ inventory' \in Seq(RowType)
      /\ \A i \in DOMAIN inventory' : inventory'[i].reason = Unread => inventory'[i].path # <<>>
  <2>1. Row(o.path, Unread, object) \in RowType /\ Row(o.path, Unread, object).path # <<>>
    BY SafeParts, AncestorFacts DEF Row, RowType, Reasons
  <2>. QED BY <1>5, <2>1, SafeParts, AppendRow DEF List, MainTyped
<1>1. TreeTypeOK'
  BY SafeParts, CallEndsType DEF Hashed, Opens, Refuses
<1>2. ProgressTyped'
  BY SafeParts, CountReport DEF Hashed
<1>3. MainTyped'
  BY SafeParts, <1>5, <1>6 DEF Hashed, MainTyped, At, Goto, treeVars, Labels, Opening, Opens, Refuses
<1>4. Confined'
  BY SafeParts, <1>5, OpensInside DEF Hashed, treeVars, Confined, ReadConfined, Opens, Refuses
<1>. QED BY <1>1, <1>2, <1>3, <1>4 DEF Safe, Typed

\* A file that cannot be read is listed all the same.
LEMMA NotHashedSafe ==
    ASSUME Safe, NEW why, NotHashed(why)
    PROVE  Safe'
<1>5. PICK o \in opening : Refuses(o, why) /\ List(Row(o.path, Unread, Nothing))
  BY DEF NotHashed, Opens, Refuses
<1>6. /\ inventory' \in Seq(RowType)
      /\ \A i \in DOMAIN inventory' : inventory'[i].reason = Unread => inventory'[i].path # <<>>
  <2>1. Row(o.path, Unread, Nothing) \in RowType /\ Row(o.path, Unread, Nothing).path # <<>>
    BY SafeParts, AncestorFacts DEF Row, RowType, Reasons
  <2>. QED BY <1>5, <2>1, SafeParts, AppendRow DEF List, MainTyped
<1>1. TreeTypeOK'
  BY SafeParts, CallEndsType DEF NotHashed, Opens, Refuses
<1>2. ProgressTyped'
  BY SafeParts, QuietType DEF NotHashed
<1>3. MainTyped'
  BY SafeParts, <1>5, <1>6 DEF NotHashed, MainTyped, At, Goto, treeVars, Labels, Opening, Opens, Refuses
<1>4. Confined'
  BY SafeParts DEF NotHashed, treeVars, Confined, ReadConfined, Opens, Refuses
<1>. QED BY <1>1, <1>2, <1>3, <1>4 DEF Safe, Typed

\* Discovery begins.
LEMMA EndWalkSafe ==
    ASSUME Safe, EndWalk
    PROVE  Safe'
<1>1. TreeTypeOK'
  BY SafeParts DEF EndWalk, treeVars, TreeTypeOK
<1>2. ProgressTyped'
  BY SafeParts, PhaseReport DEF EndWalk, Phases
<1>3. MainTyped'
  BY SafeParts DEF EndWalk, MainTyped, At, Goto, treeVars, Labels, Opening
<1>4. Confined'
  BY SafeParts DEF EndWalk, treeVars, Confined, ReadConfined
<1>. QED BY <1>1, <1>2, <1>3, <1>4 DEF Safe, Typed

-----------------------------------------------------------------------------
\* The row at hand, and the records made of it.

\* The row at the cursor is one of the inventory, below the source.
LEMMA RowFacts ==
    ASSUME Safe, NEW label, AtRow(label)
    PROVE  /\ ThisRow \in RowType /\ cursor \in DOMAIN inventory /\ cursor + 1 \in Nat \ {0}
           /\ ThisRow.reason = Unread => ThisRow.path # <<>>
<1>1. /\ inventory \in Seq(RowType) /\ cursor \in 1 .. Len(inventory) /\ cursor \in Nat
      /\ \A i \in DOMAIN inventory : inventory[i].reason = Unread => inventory[i].path # <<>>
  BY SafeParts, LenProperties DEF AtRow, MainTyped
<1>2. cursor \in DOMAIN inventory /\ inventory[cursor] \in RowType BY <1>1, LenProperties, ElementOfSeq
<1>. QED BY <1>1, <1>2 DEF ThisRow

\* A record of the row at hand is well typed.
LEMMA RecordKeepsType ==
    ASSUME Safe, NEW label, AtRow(label), NEW why \in Reasons, NEW object \in Files \cup {Nothing},
           Record(why, object)
    PROVE  records' \subseteq RecordType /\ IsFiniteSet(records')
<1>1. ThisRow.path \in Seq(Names) BY RowFacts DEF RowType
<1>2. [path |-> ThisRow.path, reason |-> why, object |-> object] \in RecordType BY <1>1 DEF RecordType
<1>. DEFINE r == [path |-> ThisRow.path, reason |-> why, object |-> object]
<1>3. records \subseteq RecordType /\ IsFiniteSet(records) BY SafeParts DEF MainTyped
<1>4. IsFiniteSet({s \in records : ~SameId(r, s)}) BY <1>3, FS_Subset
<1>5. IsFiniteSet({s \in records : ~SameId(r, s)} \cup {r}) BY <1>4, FS_AddElement
<1>. QED BY <1>2, <1>3, <1>5 DEF Record, Upserted

\* A call of open_source for the row at hand.
LEMMA RowOpenType ==
    ASSUME Safe, NEW label, AtRow(label), ThisRow.reason = Unread,
           StartOpen(ThisRow.path), UNCHANGED <<platform, fs, swaps>>
    PROVE  TreeTypeOK' /\ opening' # {} /\ \A o \in opening' : o.dir \notin Outside
<1>1. ThisRow.path \in Seq(Names) /\ ThisRow.path # <<>> BY RowFacts DEF RowType
<1>. QED BY <1>1, SafeParts, StartOpenType, StartInside

\* The next row is counted.
LEMMA TakeRowSafe ==
    ASSUME Safe, TakeRow
    PROVE  Safe'
<1>5. AtRow("entry") BY DEF TakeRow
<1>6. ThisRow \in RowType /\ cursor \in DOMAIN inventory /\ cursor + 1 \in Nat \ {0}
  BY <1>5, RowFacts
<1>1. TreeTypeOK'
  BY SafeParts DEF TakeRow, treeVars, TreeTypeOK
<1>2. ProgressTyped'
  BY SafeParts, CountReport DEF TakeRow
<1>3. MainTyped'
  BY SafeParts, <1>5, <1>6 DEF TakeRow, MainTyped, At, Goto, treeVars, Labels, Opening, AtRow, ThisRow, NextRow
<1>4. Confined'
  BY SafeParts DEF TakeRow, treeVars, Confined, ReadConfined
<1>. QED BY <1>1, <1>2, <1>3, <1>4 DEF Safe, Typed

\* A row fails, or it is opened to be identified.
LEMMA ExamineRowSafe ==
    ASSUME Safe, ExamineRow
    PROVE  Safe'
<1>5. AtRow("row") BY DEF ExamineRow
<1>6. ThisRow \in RowType /\ cursor \in DOMAIN inventory /\ cursor + 1 \in Nat \ {0}
  BY <1>5, RowFacts
<1>7. StartOpen(ThisRow.path) => opening' # {} BY DEF StartOpen
<1>8. opening = {} BY SafeParts, <1>5 DEF MainTyped, AtRow, At, Opening
<1>1. TreeTypeOK'
  BY SafeParts, <1>5, RowOpenType DEF ExamineRow, TreeTypeOK
<1>2. ProgressTyped'
  BY SafeParts, CountReport, QuietType DEF ExamineRow
<1>3. MainTyped'
  BY SafeParts, <1>5, <1>6, <1>7, <1>8 DEF ExamineRow, MainTyped, At, Goto, treeVars, Labels, Opening, AtRow, ThisRow, NextRow, RowType
<1>4. Confined'
  BY SafeParts, <1>5, RowOpenType DEF ExamineRow, treeVars, Confined, ReadConfined
<1>. QED BY <1>1, <1>2, <1>3, <1>4 DEF Safe, Typed

\* A failure gets its record.
LEMMA RecordFailureSafe ==
    ASSUME Safe, RecordFailure
    PROVE  Safe'
<1>5. AtRow("failed") BY DEF RecordFailure
<1>6. ThisRow \in RowType /\ cursor \in DOMAIN inventory /\ cursor + 1 \in Nat \ {0}
  BY <1>5, RowFacts
<1>7. records' \subseteq RecordType /\ IsFiniteSet(records')
  BY <1>5, RecordKeepsType, SafeParts DEF RecordFailure, MainTyped
<1>1. TreeTypeOK'
  BY SafeParts DEF RecordFailure, treeVars, TreeTypeOK
<1>2. ProgressTyped'
  BY SafeParts, QuietType DEF RecordFailure
<1>3. MainTyped'
  BY SafeParts, <1>5, <1>6, <1>7 DEF RecordFailure, MainTyped, At, Goto, treeVars, Labels, Opening, AtRow, ThisRow, NextRow, Unread, Reasons
<1>4. Confined'
  BY SafeParts DEF RecordFailure, treeVars, Confined, ReadConfined
<1>. QED BY <1>1, <1>2, <1>3, <1>4 DEF Safe, Typed

\* The identity is one of a file inside.
LEMMA IdentifiedSafe ==
    ASSUME Safe, NEW object \in Files, Identified(object)
    PROVE  Safe'
<1>5. AtRow("identify") BY DEF Identified
<1>6. ThisRow \in RowType /\ cursor \in DOMAIN inventory /\ cursor + 1 \in Nat \ {0}
  BY <1>5, RowFacts
<1>1. TreeTypeOK'
  BY SafeParts, CallEndsType DEF Identified, Opens, Refuses
<1>2. ProgressTyped'
  BY SafeParts, QuietType DEF Identified
<1>3. MainTyped'
  BY SafeParts, <1>5, <1>6 DEF Identified, MainTyped, At, Goto, treeVars, Labels, Opening, AtRow, ThisRow, NextRow, Opens
<1>4. Confined'
  BY SafeParts, OpensInside DEF Identified, treeVars, Confined, ReadConfined, Opens
<1>. QED BY <1>1, <1>2, <1>3, <1>4 DEF Safe, Typed

\* A file that cannot be opened fails.
LEMMA NotOpenedSafe ==
    ASSUME Safe, NEW why \in {"unsafe_entry", "unreadable"}, NotOpened(why)
    PROVE  Safe'
<1>1. TreeTypeOK'
  BY SafeParts, CallEndsType DEF NotOpened, Opens, Refuses
<1>2. ProgressTyped'
  BY SafeParts, CountReport DEF NotOpened
<1>3. MainTyped'
  BY SafeParts DEF NotOpened, MainTyped, At, Goto, treeVars, Labels, Opening, AtRow, Refuses, Reasons, Unread
<1>4. Confined'
  BY SafeParts DEF NotOpened, treeVars, Confined, ReadConfined, Refuses
<1>. QED BY <1>1, <1>2, <1>3, <1>4 DEF Safe, Typed

\* A file that may be a mailbox is read by path only if it is the identified one.
LEMMA PeekSafe ==
    ASSUME Safe, Peek
    PROVE  Safe'
<1>5. AtRow("peek") BY DEF Peek
<1>6. ThisRow \in RowType /\ cursor \in DOMAIN inventory /\ cursor + 1 \in Nat \ {0}
  BY <1>5, RowFacts
<1>7. ThisRow.reason = Unread /\ identity \in Files
  BY SafeParts, <1>5 DEF MainTyped, AtRow, At, ThisRow
<1>8. read' \subseteq Files BY SafeParts, <1>7 DEF Peek, MainTyped
<1>9. pc' \in {"confirm", "ingest"} /\ (opening' # {}) = (pc' = "ingest")
  BY SafeParts DEF Peek, AtRow, At, Goto, Ingest, StartOpen, MainTyped, Opening
<1>1. TreeTypeOK'
  BY SafeParts, <1>5, <1>7, RowOpenType DEF Peek, Ingest, TreeTypeOK
<1>2. ProgressTyped'
  BY SafeParts, QuietType DEF Peek
<1>3. MainTyped'
  BY SafeParts, <1>5, <1>6, <1>7, <1>8, <1>9 DEF Peek, MainTyped, At, Goto, treeVars, Labels, Opening, AtRow, ThisRow, NextRow
<1>4. Confined'
  BY SafeParts, <1>5, <1>7, RowOpenType DEF Peek, treeVars, Confined, ReadConfined, Ingest
<1>. QED BY <1>1, <1>2, <1>3, <1>4 DEF Safe, Typed

\* A FIFO in the place of the file stops the run.
LEMMA PeekBlocksSafe ==
    ASSUME Safe, PeekBlocks
    PROVE  Safe'
<1>1. TreeTypeOK'
  BY SafeParts DEF PeekBlocks, treeVars, TreeTypeOK
<1>2. ProgressTyped'
  BY SafeParts, QuietType DEF PeekBlocks
<1>3. MainTyped'
  BY SafeParts DEF PeekBlocks, MainTyped, At, Goto, treeVars, Labels, Opening, AtRow
<1>4. Confined'
  BY SafeParts DEF PeekBlocks, treeVars, Confined, ReadConfined
<1>. QED BY <1>1, <1>2, <1>3, <1>4 DEF Safe, Typed

\* Confirming reads nothing more.
LEMMA ConfirmSafe ==
    ASSUME Safe, Confirm
    PROVE  Safe'
<1>5. AtRow("confirm") BY DEF Confirm
<1>6. ThisRow \in RowType /\ cursor \in DOMAIN inventory /\ cursor + 1 \in Nat \ {0}
  BY <1>5, RowFacts
<1>7. ThisRow.reason = Unread /\ identity \in Files
  BY SafeParts, <1>5 DEF MainTyped, AtRow, At, ThisRow
<1>9. pc' \in {"mail", "ingest"} /\ (opening' # {}) = (pc' = "ingest")
  BY SafeParts DEF Confirm, AtRow, At, Goto, Ingest, StartOpen, MainTyped, Opening
<1>1. TreeTypeOK'
  BY SafeParts, <1>5, <1>7, RowOpenType DEF Confirm, Ingest, TreeTypeOK
<1>2. ProgressTyped'
  BY SafeParts, QuietType DEF Confirm
<1>3. MainTyped'
  BY SafeParts, <1>5, <1>6, <1>7, <1>9 DEF Confirm, MainTyped, At, Goto, treeVars, Labels, Opening, AtRow, ThisRow, NextRow
<1>4. Confined'
  BY SafeParts, <1>5, <1>7, RowOpenType DEF Confirm, treeVars, Confined, ReadConfined, Ingest
<1>. QED BY <1>1, <1>2, <1>3, <1>4 DEF Safe, Typed

\* A mailbox is parsed only if it is the identified file.
LEMMA IterateMailboxSafe ==
    ASSUME Safe, IterateMailbox
    PROVE  Safe'
<1>5. AtRow("mail") BY DEF IterateMailbox
<1>6. ThisRow \in RowType /\ cursor \in DOMAIN inventory /\ cursor + 1 \in Nat \ {0}
  BY <1>5, RowFacts
<1>7. identity \in Files
  BY SafeParts, <1>5 DEF MainTyped, AtRow, At
<1>8. records' \subseteq RecordType /\ IsFiniteSet(records') /\ read' \subseteq Files
  <2>1. CASE Reopened = identity /\ Record(Unread, Reopened) /\ read' = read \cup {Reopened}
    BY <1>5, <1>7, <2>1, RecordKeepsType, SafeParts DEF Reasons, MainTyped
  <2>2. CASE UNCHANGED <<records, read>>
    BY <2>2, SafeParts DEF MainTyped
  <2>. QED BY <2>1, <2>2 DEF IterateMailbox
<1>1. TreeTypeOK'
  BY SafeParts DEF IterateMailbox, treeVars, TreeTypeOK
<1>2. ProgressTyped'
  BY SafeParts, CountReport, QuietType DEF IterateMailbox
<1>3. MainTyped'
  BY SafeParts, <1>5, <1>6, <1>7, <1>8 DEF IterateMailbox, MainTyped, At, Goto, treeVars, Labels, Opening, AtRow, ThisRow, NextRow, Reasons, Unread
<1>4. Confined'
  BY SafeParts DEF IterateMailbox, treeVars, Confined, ReadConfined
<1>. QED BY <1>1, <1>2, <1>3, <1>4 DEF Safe, Typed

\* A file is staged from inside.
LEMMA IngestedSafe ==
    ASSUME Safe, NEW object \in Files, Ingested(object)
    PROVE  Safe'
<1>5. AtRow("ingest") BY DEF Ingested
<1>6. ThisRow \in RowType /\ cursor \in DOMAIN inventory /\ cursor + 1 \in Nat \ {0}
  BY <1>5, RowFacts
<1>7. records' \subseteq RecordType /\ IsFiniteSet(records') /\ read' \subseteq Files
  BY <1>5, RecordKeepsType, SafeParts DEF Ingested, Reasons, MainTyped
<1>8. (IF object \in Containers THEN ExpansionCalls ELSE <<>>) \in Seq(CallType)
  <2>1. Phase("expand", 1) \in CallType /\ AdvanceCall \in CallType /\ Phase("discovery", 0) \in CallType
    BY CallTypes DEF Phases
  <2>. QED BY <2>1 DEF ExpansionCalls
<1>1. TreeTypeOK'
  BY SafeParts, CallEndsType DEF Ingested, Opens, Refuses
<1>2. ProgressTyped'
  BY SafeParts, <1>8, ReportType DEF Ingested
<1>3. MainTyped'
  BY SafeParts, <1>5, <1>6, <1>7 DEF Ingested, MainTyped, At, Goto, treeVars, Labels, Opening, AtRow, ThisRow, NextRow, Opens
<1>4. Confined'
  BY SafeParts, OpensInside DEF Ingested, treeVars, Confined, ReadConfined, Opens
<1>. QED BY <1>1, <1>2, <1>3, <1>4 DEF Safe, Typed

-----------------------------------------------------------------------------
\* A source that is one file, and what follows discovery.

\* The source is a path.
LEMMA GivenType == ASSUME Safe PROVE given \in Seq(Names)
<1>1. given \in Givens BY SafeParts DEF MainTyped
<1>2. given = <<>> \/ \E n \in Names : given = <<n>> BY <1>1, IntakeAssumption
<1>3. CASE given = <<>> BY <1>3
<1>4. CASE \E n \in Names : given = <<n>>
  <2>1. PICK n \in Names : given = <<n>> BY <1>4
  <2>2. <<n>> \in Seq(Names) OBVIOUS
  <2>. QED BY <2>1, <2>2
<1>. QED BY <1>2, <1>3, <1>4

\* The file, or a walk of what is in its place.
LEMMA StartFileSafe ==
    ASSUME Safe, StartFile
    PROVE  Safe'
<1>5. <<Visit(given)>> \in Seq(WalkType)
  <2>1. given \in Seq(Names) BY GivenType
  <2>2. Visit(given) \in WalkType BY <2>1 DEF Visit, WalkType
  <2>. QED BY <2>2
<1>6. walk' \in Seq(WalkType) BY SafeParts, <1>5 DEF StartFile, MainTyped
<1>1. TreeTypeOK'
  BY SafeParts DEF StartFile, treeVars, TreeTypeOK
<1>2. ProgressTyped'
  BY SafeParts, PhaseReport DEF StartFile, Phases
<1>3. MainTyped'
  BY SafeParts, <1>6 DEF StartFile, MainTyped, At, Goto, treeVars, Labels, Opening
<1>4. Confined'
  BY SafeParts DEF StartFile, treeVars, Confined, ReadConfined
<1>. QED BY <1>1, <1>2, <1>3, <1>4 DEF Safe, Typed

\* The file is opened to be hashed, or listed as unreadable.
LEMMA FingerprintFileSafe ==
    ASSUME Safe, FingerprintFile
    PROVE  Safe'
<1>5. given \in Seq(Names) BY GivenType
<1>6. given # <<>> BY SafeParts DEF FingerprintFile, At, MainTyped
<1>7. /\ inventory' \in Seq(RowType)
      /\ \A i \in DOMAIN inventory' : inventory'[i].reason = Unread => inventory'[i].path # <<>>
  <2>1. Row(given, "unreadable", Nothing) \in RowType /\ Row(given, "unreadable", Nothing).path # <<>>
    BY <1>5, <1>6 DEF Row, RowType, Reasons
  <2>. QED BY <2>1, SafeParts, AppendRow DEF FingerprintFile, List, MainTyped
<1>8. pc' \in {"walk", "hash_file"} /\ (opening' # {}) = (pc' = "hash_file")
  BY SafeParts DEF FingerprintFile, At, Goto, StartOpen, MainTyped, Opening
<1>1. TreeTypeOK'
  BY SafeParts, <1>5, <1>6, StartOpenType DEF FingerprintFile, TreeTypeOK
<1>2. ProgressTyped'
  BY SafeParts, QuietType DEF FingerprintFile
<1>3. MainTyped'
  BY SafeParts, <1>5, <1>6, <1>7, <1>8 DEF FingerprintFile, MainTyped, At, Goto, treeVars, Labels, Opening
<1>4. Confined'
  BY SafeParts, StartInside DEF FingerprintFile, treeVars, Confined, ReadConfined
<1>. QED BY <1>1, <1>2, <1>3, <1>4 DEF Safe, Typed

\* The file is hashed, from inside.
LEMMA HashedFileSafe ==
    ASSUME Safe, NEW object \in Files, HashedFile(object)
    PROVE  Safe'
<1>5. given \in Seq(Names) BY GivenType
<1>6. given # <<>> BY SafeParts DEF HashedFile, At, MainTyped
<1>7. /\ inventory' \in Seq(RowType)
      /\ \A i \in DOMAIN inventory' : inventory'[i].reason = Unread => inventory'[i].path # <<>>
  <2>1. Row(given, Unread, object) \in RowType /\ Row(given, Unread, object).path # <<>>
    BY <1>5, <1>6 DEF Row, RowType, Reasons
  <2>. QED BY <2>1, SafeParts, AppendRow DEF HashedFile, List, MainTyped
<1>1. TreeTypeOK'
  BY SafeParts, CallEndsType DEF HashedFile, Opens, Refuses
<1>2. ProgressTyped'
  BY SafeParts, CountReport DEF HashedFile
<1>3. MainTyped'
  BY SafeParts, <1>7 DEF HashedFile, MainTyped, At, Goto, treeVars, Labels, Opening, Opens
<1>4. Confined'
  BY SafeParts, OpensInside DEF HashedFile, treeVars, Confined, ReadConfined, Opens
<1>. QED BY <1>1, <1>2, <1>3, <1>4 DEF Safe, Typed

\* Discovery opens the file, or takes the rows.
LEMMA TakeFileSafe ==
    ASSUME Safe, TakeFile
    PROVE  Safe'
<1>5. given \in Seq(Names) BY GivenType
<1>6. given # <<>> BY SafeParts DEF TakeFile, At, MainTyped
<1>8. pc' \in {"entry", "identify_file"} /\ (opening' # {}) = (pc' = "identify_file")
  BY SafeParts DEF TakeFile, At, Goto, StartOpen, MainTyped, Opening
<1>1. TreeTypeOK'
  BY SafeParts, <1>5, <1>6, StartOpenType DEF TakeFile, TreeTypeOK
<1>2. ProgressTyped'
  BY SafeParts, QuietType DEF TakeFile
<1>3. MainTyped'
  BY SafeParts, <1>5, <1>6, <1>8 DEF TakeFile, MainTyped, At, Goto, treeVars, Labels, Opening
<1>4. Confined'
  BY SafeParts, StartInside DEF TakeFile, treeVars, Confined, ReadConfined
<1>. QED BY <1>1, <1>2, <1>3, <1>4 DEF Safe, Typed

\* The identity of the one file.
LEMMA FileIdentifiedSafe ==
    ASSUME Safe, NEW object \in Files, FileIdentified(object)
    PROVE  Safe'
<1>1. TreeTypeOK'
  BY SafeParts, CallEndsType DEF FileIdentified, Opens, Refuses
<1>2. ProgressTyped'
  BY SafeParts, QuietType DEF FileIdentified
<1>3. MainTyped'
  BY SafeParts DEF FileIdentified, MainTyped, At, Goto, treeVars, Labels, Opening, Opens
<1>4. Confined'
  BY SafeParts, OpensInside DEF FileIdentified, treeVars, Confined, ReadConfined, Opens
<1>. QED BY <1>1, <1>2, <1>3, <1>4 DEF Safe, Typed

\* The one file cannot be opened.
LEMMA FileRefusedSafe ==
    ASSUME Safe, NEW why, FileRefused(why)
    PROVE  Safe'
<1>1. TreeTypeOK'
  BY SafeParts, CallEndsType DEF FileRefused, Opens, Refuses
<1>2. ProgressTyped'
  BY SafeParts, QuietType DEF FileRefused
<1>3. MainTyped'
  BY SafeParts DEF FileRefused, MainTyped, At, Goto, treeVars, Labels, Opening, Refuses
<1>4. Confined'
  BY SafeParts DEF FileRefused, treeVars, Confined, ReadConfined, Refuses
<1>. QED BY <1>1, <1>2, <1>3, <1>4 DEF Safe, Typed

\* The one file is parsed only if it is the identified one.
LEMMA IterateFileSafe ==
    ASSUME Safe, IterateFile
    PROVE  Safe'
<1>5. given \in Seq(Names) BY GivenType
<1>6. identity \in Files /\ given # <<>> /\ Len(inventory) + 1 \in Nat \ {0}
  BY SafeParts, LenProperties DEF IterateFile, At, MainTyped
<1>7. [path |-> given, reason |-> Unread, object |-> identity] \in RecordType
      /\ IsFiniteSet({[path |-> given, reason |-> Unread, object |-> identity]})
  BY <1>5, <1>6, FS_Singleton DEF RecordType, Reasons
<1>8. records' \subseteq RecordType /\ IsFiniteSet(records') /\ read' \subseteq Files
  BY SafeParts, <1>6, <1>7 DEF IterateFile, MainTyped
<1>1. TreeTypeOK'
  BY SafeParts DEF IterateFile, treeVars, TreeTypeOK
<1>2. ProgressTyped'
  BY SafeParts, QuietType DEF IterateFile
<1>3. MainTyped'
  BY SafeParts, <1>6, <1>8 DEF IterateFile, MainTyped, At, Goto, treeVars, Labels, Opening
<1>4. Confined'
  BY SafeParts DEF IterateFile, treeVars, Confined, ReadConfined
<1>. QED BY <1>1, <1>2, <1>3, <1>4 DEF Safe, Typed

\* The plan is made.
LEMMA EndDiscoverySafe ==
    ASSUME Safe, EndDiscovery
    PROVE  Safe'
<1>1. TreeTypeOK'
  BY SafeParts DEF EndDiscovery, treeVars, TreeTypeOK
<1>2. ProgressTyped'
  BY SafeParts, PhaseReport DEF EndDiscovery, Phases
<1>3. MainTyped'
  BY SafeParts DEF EndDiscovery, MainTyped, At, Goto, treeVars, Labels, Opening
<1>4. Confined'
  BY SafeParts DEF EndDiscovery, treeVars, Confined, ReadConfined
<1>. QED BY <1>1, <1>2, <1>3, <1>4 DEF Safe, Typed

\* The records are published.
LEMMA StartPublishingSafe ==
    ASSUME Safe, StartPublishing
    PROVE  Safe'
<1>5. Cardinality(records) \in Nat
  BY SafeParts, FS_CardinalityType DEF MainTyped
<1>1. TreeTypeOK'
  BY SafeParts DEF StartPublishing, treeVars, TreeTypeOK
<1>2. ProgressTyped'
  BY SafeParts, <1>5, PhaseReport DEF StartPublishing, Phases
<1>3. MainTyped'
  BY SafeParts DEF StartPublishing, MainTyped, At, Goto, treeVars, Labels, Opening
<1>4. Confined'
  BY SafeParts DEF StartPublishing, treeVars, Confined, ReadConfined
<1>. QED BY <1>1, <1>2, <1>3, <1>4 DEF Safe, Typed

\* A record is counted, and committed if it is canonical.
LEMMA PublishRowSafe ==
    ASSUME Safe, PublishRow
    PROVE  Safe'
<1>5. (IF RecordsOf(cursor) = {} THEN <<>>
       ELSE IF \E r \in RecordsOf(cursor) : Canonical(r) THEN <<AdvanceCall, CommittedCall>>
       ELSE <<AdvanceCall>>) \in Seq(CallType)
  BY CallTypes
<1>6. cursor + 1 \in Nat \ {0} BY SafeParts DEF MainTyped
<1>1. TreeTypeOK'
  BY SafeParts DEF PublishRow, treeVars, TreeTypeOK
<1>2. ProgressTyped'
  BY SafeParts, <1>5, ReportType DEF PublishRow
<1>3. MainTyped'
  BY SafeParts, <1>6 DEF PublishRow, MainTyped, At, Goto, treeVars, Labels, Opening, AtRow
<1>4. Confined'
  BY SafeParts DEF PublishRow, treeVars, Confined, ReadConfined
<1>. QED BY <1>1, <1>2, <1>3, <1>4 DEF Safe, Typed

\* The reports are written.
LEMMA StartReportSafe ==
    ASSUME Safe, StartReport
    PROVE  Safe'
<1>1. TreeTypeOK'
  BY SafeParts DEF StartReport, treeVars, TreeTypeOK
<1>2. ProgressTyped'
  BY SafeParts, PhaseReport DEF StartReport, Phases
<1>3. MainTyped'
  BY SafeParts DEF StartReport, MainTyped, At, Goto, treeVars, Labels, Opening
<1>4. Confined'
  BY SafeParts DEF StartReport, treeVars, Confined, ReadConfined
<1>. QED BY <1>1, <1>2, <1>3, <1>4 DEF Safe, Typed

\* The heartbeat is told to stop.
LEMMA StopHeartbeatSafe ==
    ASSUME Safe, StopHeartbeat
    PROVE  Safe'
<1>1. TreeTypeOK'
  BY SafeParts DEF StopHeartbeat, treeVars, TreeTypeOK
<1>2. ProgressTyped'
  BY SafeParts DEF StopHeartbeat, Stop, ProgressTyped, ProgressTypeOK
<1>3. MainTyped'
  BY SafeParts DEF StopHeartbeat, MainTyped, At, Goto, treeVars, Labels, Opening
<1>4. Confined'
  BY SafeParts DEF StopHeartbeat, treeVars, Confined, ReadConfined
<1>. QED BY <1>1, <1>2, <1>3, <1>4 DEF Safe, Typed

\* The counters are closed.
LEMMA JoinHeartbeatSafe ==
    ASSUME Safe, JoinHeartbeat
    PROVE  Safe'
<1>1. TreeTypeOK'
  BY SafeParts DEF JoinHeartbeat, treeVars, TreeTypeOK
<1>2. ProgressTyped'
  BY SafeParts, CallTypes DEF JoinHeartbeat, Join, ProgressTyped, ProgressTypeOK
<1>3. MainTyped'
  BY SafeParts DEF JoinHeartbeat, MainTyped, At, Goto, treeVars, Labels, Opening
<1>4. Confined'
  BY SafeParts DEF JoinHeartbeat, treeVars, Confined, ReadConfined
<1>. QED BY <1>1, <1>2, <1>3, <1>4 DEF Safe, Typed

\* A call of Progress touches the counters only.
LEMMA CountingSafe ==
    ASSUME Safe, Counting \/ Beating
    PROVE  Safe'
<1>1. TreeTypeOK'
  BY SafeParts DEF Counting, Beating, treeVars, TreeTypeOK
<1>2. ProgressTyped'
  BY SafeParts, CountingType DEF Counting, Beating
<1>3. MainTyped'
  BY SafeParts DEF Counting, Beating, treeVars, intakeVars, MainTyped
<1>4. Confined'
  BY SafeParts DEF Counting, Beating, treeVars, intakeVars, Confined, ReadConfined
<1>. QED BY <1>1, <1>2, <1>3, <1>4 DEF Safe, Typed

\* Whatever others put in place, only a link leads out.
LEMMA DisturbanceSafe ==
    ASSUME Safe, Disturbance
    PROVE  Safe'
<1>5. \A d \in Dirs, n \in Names : LeadsInside(d, fs'[d][n])
  <2>1. PICK s \in Swaps : fs' = [fs EXCEPT ![s.dir][s.name] = s.entry]
    BY DEF Disturbance, Swap
  <2>2. fs \in [Dirs -> [Names -> Entries]] /\ LeadsInside(s.dir, s.entry)
    BY SafeParts, TreeAssumption DEF TreeTypeOK
  <2>3. ASSUME NEW d \in Dirs, NEW n \in Names
        PROVE  fs'[d][n] = fs[d][n] \/ (d = s.dir /\ fs'[d][n] = s.entry)
    BY <2>1, <2>2
  <2>. QED BY <2>2, <2>3, SafeParts DEF Confined
<1>1. TreeTypeOK'
  BY SafeParts, SwapType DEF Disturbance
<1>2. ProgressTyped'
  BY SafeParts, QuietType DEF Disturbance, Quiet
<1>3. MainTyped'
  BY SafeParts DEF Disturbance, Swap, intakeVars, MainTyped
<1>4. Confined'
  BY SafeParts, <1>5 DEF Disturbance, Swap, intakeVars, Confined, ReadConfined
<1>. QED BY <1>1, <1>2, <1>3, <1>4 DEF Safe, Typed

-----------------------------------------------------------------------------
\* In every state the program starts in, and after every step.

\* The state the intake starts in.
LEMMA InitSafe == Init => Safe
<1>. SUFFICES ASSUME Init PROVE Safe OBVIOUS
<1>1. TreeTypeOK
  BY TreeAssumption DEF Init, TreeInit, TreeTypeOK
<1>2. ProgressTyped
  <2>1. calls \in Seq(CallType) /\ writes \in Seq(WriteType)
    BY DEF Init, ProgressInit
  <2>2. ProgressTypeOK
    BY DEF Init, ProgressInit, ProgressTypeOK, Phases
  <2>. QED BY <2>1, <2>2 DEF ProgressTyped
<1>3. MainTyped
  BY FS_EmptySet, TreeAssumption DEF Init, TreeInit, MainTyped, Labels, Reasons, Opening
<1>4. Confined
  BY TreeAssumption DEF Init, TreeInit, Confined, ReadConfined
<1>. QED BY <1>1, <1>2, <1>3, <1>4 DEF Safe, Typed

\* The walk, ...
LEMMA WalkingSafe == ASSUME Safe, Walking PROVE Safe'
BY StartWalkSafe, ScanDirectorySafe, LeaveDirectorySafe, EndWalkSafe, VisitEntrySafe,
   HashedSafe, NotHashedSafe DEF Walking

\* ... discovery, ...
LEMMA DiscoveringSafe == ASSUME Safe, Discovering PROVE Safe'
BY TakeRowSafe, ExamineRowSafe, RecordFailureSafe, PeekSafe, PeekBlocksSafe, ConfirmSafe,
   IterateMailboxSafe, IdentifiedSafe, IngestedSafe, NotOpenedSafe DEF Discovering

\* ... the source that is one mailbox ...
LEMMA OneFileSafe == ASSUME Safe, OneFile PROVE Safe'
BY StartFileSafe, FingerprintFileSafe, TakeFileSafe, IterateFileSafe, HashedFileSafe,
   FileIdentifiedSafe, FileRefusedSafe DEF OneFile

\* ... and steps that change nothing, ...
LEMMA StutterSafe == ASSUME Safe, UNCHANGED vars PROVE Safe'
<1>1. TreeTypeOK' BY SafeParts DEF vars, treeVars, TreeTypeOK
<1>2. ProgressTyped' BY SafeParts, QuietType DEF vars, Quiet
<1>3. MainTyped' BY SafeParts DEF vars, treeVars, intakeVars, MainTyped
<1>4. Confined' BY SafeParts DEF vars, treeVars, intakeVars, Confined, ReadConfined
<1>. QED BY <1>1, <1>2, <1>3, <1>4 DEF Safe, Typed

\* ... that is, every step.
LEMMA NextSafe == Safe /\ [Next]_vars => Safe'
BY WalkingSafe, DiscoveringSafe, OneFileSafe, OpenStepSafe, EndDiscoverySafe, StartPublishingSafe,
   PublishRowSafe, StartReportSafe, StopHeartbeatSafe, JoinHeartbeatSafe, CountingSafe,
   DisturbanceSafe, StutterSafe DEF Next, Main

\* Whatever is replaced in the source, however often and whenever: the intake
\* keeps its types, and every descriptor and identity it holds is inside.
THEOREM IntakeSafe == Spec => []Safe
BY InitSafe, NextSafe, PTL DEF Spec

\* The types, and that open_source is never entered twice (source_io.py).
THEOREM IntakeTypes == Spec => []TypeOK
BY IntakeSafe, TypedIsTypeOK, PTL DEF Safe

\* No byte of a file outside of the source is hashed, staged or parsed, however
\* many entries are replaced between the system calls of open_source, on both
\* platforms, and in the mailboxes that are opened by path.
THEOREM NothingOutsideRead == Spec => []ReadConfined
<1>1. Safe => ReadConfined BY DEF Safe, Confined
<1>. QED BY IntakeSafe, <1>1, PTL

-----------------------------------------------------------------------------
(***************************************************************************)
(* Every entry of the inventory has a record of its own.                   *)
(***************************************************************************)

\* No two names have the same portable_text_key.  Of two names that have (a
\* letter composed and decomposed), the later record replaces the earlier.
KeysTellNames ==
    \A n, m \in Names : Folded[n] = Folded[m] /\ Composed[n] = Composed[m] => n = m

Discovery == {"entry", "row", "identify", "peek", "confirm", "mail", "ingest", "failed"}

HasRecord(i) == \E r \in records : r.path = inventory[i].path

\* A directory: the rows before the cursor have their records.
RowsRecorded ==
    given = <<>> =>
      /\ pc \in {"start", "walk", "hash"} => cursor = 1
      /\ pc \in Discovery => \A i \in DOMAIN inventory : i < cursor => HasRecord(i)
      /\ pc = "frozen" => \A i \in DOMAIN inventory : HasRecord(i)

\* One file that nobody touches: it is found each time, and has its one row.
FileRecorded ==
    given # <<>> /\ swaps = MaxSwaps =>
      /\ IsFile
      /\ pc \notin (Discovery \cup {"hash"}) \ {"entry"}
      /\ walk = <<>>
      /\ pc \in {"start", "file", "hash_file"} => inventory = <<>>
      /\ pc \in {"walk", "source", "identify_file", "file_mail"} =>
             Len(inventory) = 1 /\ inventory[1].path = given
      /\ pc \in {"entry", "frozen"} => \A i \in DOMAIN inventory : HasRecord(i)
      /\ pc = "entry" => cursor > Len(inventory)

Recorded == RowsRecorded /\ FileRecorded

\* Different entries have different ids.
LEMMA KeysTellPaths ==
    ASSUME KeysTellNames, NEW p \in Seq(Names), NEW q \in Seq(Names), Key(p) = Key(q)
    PROVE  p = q
<1>1. DOMAIN p = 1 .. Len(p) /\ DOMAIN q = 1 .. Len(q) /\ Len(p) \in Nat /\ Len(q) \in Nat
  BY LenProperties
<1>2. DOMAIN p = DOMAIN q
  <2>1. DOMAIN Key(p) = DOMAIN p /\ DOMAIN Key(q) = DOMAIN q BY DEF Key
  <2>. QED BY <2>1
<1>3. Len(p) = Len(q) BY <1>1, <1>2, IntervalEnd
<1>4. ASSUME NEW i \in DOMAIN p PROVE p[i] = q[i]
  <2>1. Key(p)[i] = <<Folded[p[i]], Composed[p[i]]>> /\ Key(q)[i] = <<Folded[q[i]], Composed[q[i]]>>
    BY <1>2 DEF Key
  <2>2. p[i] \in Names /\ q[i] \in Names BY <1>1, <1>2, ElementOfSeq
  <2>. QED BY <2>1, <2>2 DEF KeysTellNames
<1>. QED BY <1>1, <1>3, <1>4, SeqEqual

\* A new record takes no path's record away.
LEMMA RecordKeepsOthers ==
    ASSUME KeysTellNames, Safe, NEW label, AtRow(label), NEW why, NEW object, Record(why, object)
    PROVE  /\ \A path : (\E r \in records : r.path = path) => \E r \in records' : r.path = path
           /\ \E r \in records' : r.path = ThisRow.path
<1>. DEFINE new == [path |-> ThisRow.path, reason |-> why, object |-> object]
<1>1. records' = {s \in records : ~SameId(new, s)} \cup {new}
  BY DEF Record, Upserted
<1>2. ThisRow.path \in Seq(Names) BY RowFacts DEF RowType
<1>3. ASSUME NEW s \in records, SameId(new, s) PROVE s.path = new.path
  <2>1. s.path \in Seq(Names) BY SafeParts DEF MainTyped, RecordType
  <2>2. Key(new.path) = Key(s.path) BY <1>3 DEF SameId
  <2>. QED BY <1>2, <2>1, <2>2, KeysTellPaths
<1>. QED BY <1>1, <1>3

\* The row at hand is recorded, and the next one taken.
LEMMA NextRowRecorded ==
    ASSUME KeysTellNames, Safe, RowsRecorded, NEW label \in Discovery, AtRow(label),
           NEW why, NEW object, Record(why, object), NextRow, UNCHANGED <<given, inventory>>
    PROVE  RowsRecorded'
<1>1. ASSUME given = <<>>, NEW i \in DOMAIN inventory, i < cursor + 1
      PROVE  HasRecord(i)'
  <2>1. cursor \in Nat /\ i \in Nat BY SafeParts, LenProperties DEF MainTyped
  <2>2. CASE i = cursor
    BY <2>2, RecordKeepsOthers DEF HasRecord, ThisRow
  <2>3. CASE i < cursor
    BY <1>1, <2>3, RecordKeepsOthers DEF HasRecord, RowsRecorded, AtRow, At
  <2>. QED BY <1>1, <2>1, <2>2, <2>3
<1>. QED BY <1>1 DEF RowsRecorded, NextRow, Goto, Discovery

\* Steps of the walk.
LEMMA WalkingRecorded ==
    ASSUME Safe, Recorded, Walking PROVE Recorded'
<1>1. cursor' = cursor /\ given' = given /\ swaps' = swaps /\ fs' = fs /\ records' = records
  BY DEF Walking, StartWalk, ScanDirectory, LeaveDirectory, EndWalk, VisitEntry, Hashed, NotHashed, treeVars
<1>2. RowsRecorded'
  <2>1. pc \in {"start", "walk", "hash"} /\ pc' \in {"walk", "hash", "entry", "source"}
    BY DEF Walking, StartWalk, ScanDirectory, LeaveDirectory, EndWalk, VisitEntry, Hashed, NotHashed,
           AtDirectory, At, Goto
  <2>2. \A i \in DOMAIN inventory' : ~(i < 1)
    <3>1. inventory' \in Seq(RowType) BY WalkingSafe DEF Safe, Typed, MainTyped
    <3>. QED BY <3>1, LenProperties
  <2>. QED BY <1>1, <2>1, <2>2 DEF Recorded, RowsRecorded, Discovery
<1>3. FileRecorded'
  <2>. SUFFICES ASSUME given # <<>>, swaps = MaxSwaps PROVE FileRecorded'
    BY <1>1 DEF FileRecorded
  <2>1. pc # "hash" /\ walk = <<>> /\ IsFile BY DEF Recorded, FileRecorded
  <2>2. EndWalk
    BY <2>1 DEF Walking, StartWalk, ScanDirectory, LeaveDirectory, VisitEntry, Hashed, NotHashed,
                AtDirectory, At
  <2>. QED BY <1>1, <2>1, <2>2 DEF EndWalk, Recorded, FileRecorded, IsFile, Follow, At, Goto, Discovery
<1>. QED BY <1>2, <1>3 DEF Recorded

\* Steps of discovery.
LEMMA DiscoveringRecorded ==
    ASSUME KeysTellNames, Safe, Recorded, Discovering PROVE Recorded'
<1>1. given' = given /\ inventory' = inventory /\ swaps' = swaps
  BY DEF Discovering, TakeRow, ExamineRow, RecordFailure, Peek, PeekBlocks, Confirm, IterateMailbox,
         Identified, Ingested, NotOpened, treeVars
<1>2. PICK label \in Discovery : AtRow(label)
  BY DEF Discovering, TakeRow, ExamineRow, RecordFailure, Peek, PeekBlocks, Confirm, IterateMailbox,
         Identified, Ingested, NotOpened, Discovery
<1>3. RowsRecorded'
  <2>1. CASE RecordFailure \/ (\E object \in Files : Ingested(object)) \/
             (IterateMailbox /\ Record(Unread, Reopened) /\ NextRow)
    <3>1. PICK why, object : Record(why, object) /\ NextRow
      BY <2>1 DEF RecordFailure, Ingested
    <3>. QED BY <1>1, <1>2, <3>1, NextRowRecorded DEF Recorded
  <2>2. CASE /\ UNCHANGED <<cursor, records>>
             /\ pc' \in (Discovery \ {"entry"}) \cup {"blocked", "abort"}
    BY <1>1, <1>2, <2>2 DEF Recorded, RowsRecorded, HasRecord, Discovery, AtRow, At
  <2>3. ASSUME TakeRow \/ ExamineRow \/ Peek \/ PeekBlocks \/ Confirm
               \/ (\E object \in Files : Identified(object))
               \/ (\E why \in {"unsafe_entry", "unreadable"} : NotOpened(why))
        PROVE  /\ UNCHANGED <<cursor, records>>
               /\ pc' \in (Discovery \ {"entry"}) \cup {"blocked", "abort"}
    BY <2>3 DEF TakeRow, ExamineRow, Peek, PeekBlocks, Confirm, Ingest, Identified, NotOpened, Goto, Discovery
  <2>4. CASE IterateMailbox
    BY <2>1, <2>2, <2>4 DEF IterateMailbox, Goto, Discovery
  <2>. QED BY <2>1, <2>2, <2>3, <2>4 DEF Discovering
<1>4. FileRecorded'
  <2>1. pc \in Discovery /\ cursor <= Len(inventory) BY <1>2 DEF AtRow, At
  <2>2. cursor \in Nat /\ Len(inventory) \in Nat BY SafeParts, LenProperties DEF MainTyped
  <2>3. given = <<>> \/ swaps # MaxSwaps
    BY <2>1, <2>2 DEF Recorded, FileRecorded, Discovery
  <2>. QED BY <1>1, <2>3 DEF FileRecorded
<1>. QED BY <1>3, <1>4 DEF Recorded

\* Steps for one file.
LEMMA OneFileRecorded ==
    ASSUME Safe, Recorded, OneFile PROVE Recorded'
<1>1. given' = given /\ swaps' = swaps /\ fs' = fs /\ given # <<>>
  BY SafeParts DEF OneFile, StartFile, FingerprintFile, TakeFile, IterateFile, HashedFile, FileIdentified,
         FileRefused, treeVars, MainTyped, At
<1>2. RowsRecorded' BY <1>1 DEF RowsRecorded
<1>3. ASSUME swaps = MaxSwaps PROVE FileRecorded'
  <2>0. IsFile /\ IsFile' /\ walk = <<>> /\ pc # "entry"
    BY <1>1, <1>3 DEF Recorded, FileRecorded, IsFile, Follow, OneFile, StartFile, FingerprintFile, TakeFile,
                      IterateFile, HashedFile, FileIdentified, FileRefused, At
  <2>1. CASE StartFile
    BY <1>1, <1>3, <2>0, <2>1 DEF StartFile, Recorded, FileRecorded, At, Goto, Discovery
  <2>2. CASE FingerprintFile
    BY <1>1, <1>3, <2>0, <2>2 DEF FingerprintFile, Recorded, FileRecorded, At, Goto, Discovery
  <2>3. CASE \E object \in Files : HashedFile(object)
    <3>1. PICK object : HashedFile(object) BY <2>3
    <3>2. inventory = <<>> BY <1>1, <1>3, <3>1 DEF HashedFile, At, Recorded, FileRecorded
    <3>3. inventory' = <<Row(given, Unread, object)>> BY <3>1, <3>2 DEF HashedFile, List
    <3>4. Len(inventory') = 1 /\ inventory'[1].path = given BY <3>3 DEF Row
    <3>. QED BY <1>1, <1>3, <2>0, <3>1, <3>4 DEF HashedFile, FileRecorded, Goto, Discovery
  <2>4. CASE TakeFile
    BY <1>1, <1>3, <2>0, <2>4 DEF TakeFile, Recorded, FileRecorded, At, Goto, Discovery
  <2>5. CASE \E object \in Files : FileIdentified(object)
    BY <1>1, <1>3, <2>0, <2>5 DEF FileIdentified, Recorded, FileRecorded, At, Goto, Discovery
  <2>6. CASE IterateFile
    <3>1. Len(inventory) = 1 /\ inventory[1].path = given /\ inventory' = inventory
      BY <1>1, <1>3, <2>6 DEF IterateFile, At, Recorded, FileRecorded
    <3>2. DOMAIN inventory' = {1} BY <3>1, SafeParts, LenProperties DEF MainTyped
    <3>3. CASE pc' = "abort"
      BY <1>1, <1>3, <2>0, <2>6, <3>3 DEF IterateFile, FileRecorded, Discovery
    <3>4. CASE /\ records' = {[path |-> given, reason |-> Unread, object |-> identity]}
               /\ cursor' = Len(inventory) + 1 /\ pc' = "entry"
      BY <1>1, <1>3, <2>0, <2>6, <3>1, <3>2, <3>4 DEF IterateFile, FileRecorded, HasRecord, Discovery
    <3>. QED BY <2>6, <3>3, <3>4 DEF IterateFile, Goto
  <2>7. CASE \E why : FileRefused(why)
    BY <1>1, <1>3, <2>0, <2>7 DEF FileRefused, Recorded, FileRecorded, At, Goto, Discovery
  <2>. QED BY <2>1, <2>2, <2>3, <2>4, <2>5, <2>6, <2>7 DEF OneFile
<1>. QED BY <1>1, <1>2, <1>3 DEF Recorded, FileRecorded

\* Nothing else adds a row, and records are only read from then on.
LEMMA LaterRecorded ==
    ASSUME Safe, Recorded,
           \/ EndDiscovery \/ StartPublishing \/ PublishRow \/ StartReport \/ StopHeartbeat \/ JoinHeartbeat
    PROVE  Recorded'
<1>1. given' = given /\ swaps' = swaps /\ fs' = fs /\ inventory' = inventory /\ records' = records /\ walk' = walk
  BY DEF EndDiscovery, StartPublishing, PublishRow, StartReport, StopHeartbeat, JoinHeartbeat, treeVars
<1>2. cursor \in Nat /\ \A i \in DOMAIN inventory : i \in Nat /\ i <= Len(inventory) /\ Len(inventory) \in Nat
  BY SafeParts, LenProperties DEF MainTyped
<1>3. \/ pc' \in {"publish", "reported", "join", "ended"}
      \/ pc = "entry" /\ pc' = "frozen" /\ cursor > Len(inventory)
  BY DEF EndDiscovery, StartPublishing, PublishRow, StartReport, StopHeartbeat, JoinHeartbeat, At, AtRow, Goto
<1>. QED BY <1>1, <1>2, <1>3 DEF Recorded, RowsRecorded, FileRecorded, HasRecord, IsFile, Follow, Discovery

\* Opening, counting, beating and replacing make and lose no record.
LEMMA OthersRecorded ==
    ASSUME Safe, Recorded, OpenStep \/ Counting \/ Beating \/ Disturbance \/ UNCHANGED vars
    PROVE  Recorded'
<1>1. UNCHANGED intakeVars /\ (UNCHANGED <<fs, swaps>> \/ swaps' # MaxSwaps)
  BY SafeParts, TreeAssumption DEF OpenStep, Counting, Beating, Disturbance, Swap, treeVars, vars, TreeTypeOK
<1>. QED BY <1>1 DEF intakeVars, Recorded, RowsRecorded, FileRecorded, HasRecord, IsFile, Follow

\* There is nothing to record at first, ...
LEMMA InitRecorded == Init => Recorded
<1>. SUFFICES ASSUME Init PROVE Recorded OBVIOUS
<1>1. given # <<>> => IsFile BY IntakeAssumption DEF Init, IsFile
<1>. QED BY <1>1 DEF Init, TreeInit, Recorded, RowsRecorded, FileRecorded, Discovery

\* ... and every step keeps what was recorded.
LEMMA NextRecorded == KeysTellNames /\ Safe /\ Recorded /\ [Next]_vars => Recorded'
BY WalkingRecorded, DiscoveringRecorded, OneFileRecorded, LaterRecorded, OthersRecorded DEF Next, Main

\* When discovery ends, each row of the inventory has its record, whatever was
\* replaced, refused or unreadable (_discover, journal.upsert), provided that no
\* two names have the same key: of two that have, the later record replaces the
\* earlier one.
THEOREM EntriesRecorded ==
    ASSUME KeysTellNames
    PROVE  Spec => []EveryEntryRecorded
<1>1. Safe /\ Recorded /\ [Next]_vars => Recorded'
  BY NextRecorded
<1>2. Recorded => EveryEntryRecorded
  BY DEF Recorded, RowsRecorded, FileRecorded, HasRecord, EveryEntryRecorded
<1>. QED BY IntakeSafe, InitRecorded, <1>1, <1>2, PTL DEF Spec

-----------------------------------------------------------------------------
(***************************************************************************)
(* The inventory is in the order of its paths.                             *)
(***************************************************************************)

\* What a directory in the walk is still going to list, or to list below.
Ahead(visit) ==
    IF visit.scanned THEN {Append(visit.path, n) : n \in visit.names} ELSE {visit.path}

\* What is ahead of an inner directory comes before what is ahead of an outer one;
\* the rows there are come before both, and so does the file that is being hashed.
Ordered ==
    /\ InventoryOrdered
    /\ \A k, l \in DOMAIN walk : k < l =>
           \A p \in Ahead(walk[l]), q \in Ahead(walk[k]) : PathBefore(p, q)
    /\ \A i \in DOMAIN inventory, k \in DOMAIN walk :
           \A q \in Ahead(walk[k]) : PathBefore(inventory[i].path, q)
    /\ pc = "hash" => \A o \in opening :
         /\ \A i \in DOMAIN inventory : PathBefore(inventory[i].path, o.path)
         /\ \A k \in DOMAIN walk : \A q \in Ahead(walk[k]) : PathBefore(o.path, q)
    /\ pc \in {"start", "file", "hash_file"} => inventory = <<>> /\ walk = <<>>

\* A path below another is where the other one is.
LEMMA BelowStays ==
    ASSUME NEW p \in Seq(Names), NEW q \in Seq(Names), NEW n \in Names, PathBefore(p, q)
    PROVE  PathBefore(p, Append(q, n)) /\ PathBefore(Append(p, n), q)
<1>1. PICK i \in DOMAIN p \cap DOMAIN q :
          Precedes(p[i], q[i]) /\ \A j \in 1 .. i - 1 : p[j] = q[j]
  BY DEF PathBefore
<1>2. i \in 1 .. Len(p) /\ i \in 1 .. Len(q) /\ Len(p) \in Nat /\ Len(q) \in Nat
  BY <1>1, LenProperties
<1>3. /\ Append(q, n) \in Seq(Names) /\ Len(Append(q, n)) = Len(q) + 1
      /\ \A j \in 1 .. Len(q) : Append(q, n)[j] = q[j]
      /\ Append(p, n) \in Seq(Names) /\ Len(Append(p, n)) = Len(p) + 1
      /\ \A j \in 1 .. Len(p) : Append(p, n)[j] = p[j]
  BY AppendProperties
<1>4. i \in DOMAIN Append(q, n) /\ i \in DOMAIN Append(p, n)
  BY <1>2, <1>3, LenProperties
<1>5. \A j \in 1 .. i : Append(q, n)[j] = q[j] /\ Append(p, n)[j] = p[j]
  BY <1>2, <1>3
<1>6. PathBefore(p, Append(q, n))
  <2>1. Precedes(p[i], Append(q, n)[i]) /\ \A j \in 1 .. i - 1 : p[j] = Append(q, n)[j]
    BY <1>1, <1>2, <1>5
  <2>. QED BY <1>1, <1>4, <2>1 DEF PathBefore
<1>7. PathBefore(Append(p, n), q)
  <2>1. Precedes(Append(p, n)[i], q[i]) /\ \A j \in 1 .. i - 1 : Append(p, n)[j] = q[j]
    BY <1>1, <1>2, <1>5
  <2>. QED BY <1>1, <1>4, <2>1 DEF PathBefore
<1>. QED BY <1>6, <1>7

\* Two names in one directory.
LEMMA SiblingsBefore ==
    ASSUME NEW p \in Seq(Names), NEW n \in Names, NEW m \in Names, Precedes(n, m)
    PROVE  PathBefore(Append(p, n), Append(p, m))
<1>. DEFINE i == Len(p) + 1
<1>1. i \in Nat /\ Len(p) \in Nat /\ i \in 1 .. i BY LenProperties
<1>2. ASSUME NEW x \in Names
      PROVE  /\ i \in DOMAIN Append(p, x) /\ Append(p, x)[i] = x
             /\ \A j \in 1 .. i - 1 : Append(p, x)[j] = p[j]
  BY <1>1, AppendProperties, LenProperties
<1>. QED BY <1>2 DEF PathBefore

\* Different names are ordered.
LEMMA NamesOrdered ==
    ASSUME NEW n \in Names, NEW m \in Names, n # m, ~Precedes(m, n)
    PROVE  Precedes(n, m)
<1>1. /\ Folded[n] \in Nat /\ Folded[m] \in Nat /\ Composed[n] \in Nat /\ Composed[m] \in Nat
      /\ Original[n] \in Nat /\ Original[m] \in Nat /\ Original[n] # Original[m]
  BY IntakeAssumption
<1>. QED BY <1>1 DEF Precedes

\* The innermost directory of the walk.
LEMMA HereFacts ==
    ASSUME Safe, walk # <<>>
    PROVE  /\ Here \in WalkType /\ Here = walk[Len(walk)] /\ Len(walk) \in Nat /\ Len(walk) > 0
           /\ DOMAIN walk = 1 .. Len(walk) /\ Len(walk) \in DOMAIN walk
<1>1. walk \in Seq(WalkType) BY SafeParts DEF MainTyped
<1>2. Len(walk) \in Nat /\ Len(walk) > 0 /\ DOMAIN walk = 1 .. Len(walk)
  BY <1>1, LenProperties, EmptySeq
<1>3. Here \in WalkType /\ Here = walk[Len(walk)]
  BY <1>1, FrontLast DEF Here, Last
<1>. QED BY <1>2, <1>3

\* The walk without it.
LEMMA FrontFacts ==
    ASSUME Safe, walk # <<>>
    PROVE  /\ Front(walk) \in Seq(WalkType)
           /\ \A k : k \in DOMAIN Front(walk) <=> k \in DOMAIN walk /\ k # Len(walk)
           /\ \A k \in DOMAIN walk : k # Len(walk) => k < Len(walk) /\ Front(walk)[k] = walk[k]
<1>1. walk \in Seq(WalkType) BY SafeParts DEF MainTyped
<1>2. Len(walk) \in Nat /\ DOMAIN walk = 1 .. Len(walk) /\ Len(walk) > 0
  BY HereFacts
<1>3. /\ Front(walk) \in Seq(WalkType) /\ Len(Front(walk)) = Len(walk) - 1
      /\ \A k \in 1 .. Len(walk) - 1 : Front(walk)[k] = walk[k]
  BY <1>1, FrontLast
<1>4. DOMAIN Front(walk) = 1 .. Len(walk) - 1 BY <1>3, LenProperties
<1>. QED BY <1>2, <1>3, <1>4

\* The walk with it replaced.
LEMMA ReplacedFacts ==
    ASSUME Safe, walk # <<>>, NEW v \in WalkType
    PROVE  /\ Append(Front(walk), v) \in Seq(WalkType)
           /\ Len(Append(Front(walk), v)) = Len(walk)
           /\ DOMAIN Append(Front(walk), v) = DOMAIN walk
           /\ Append(Front(walk), v)[Len(walk)] = v
           /\ \A k \in DOMAIN walk : k # Len(walk) => k < Len(walk) /\ Append(Front(walk), v)[k] = walk[k]
<1>1. walk \in Seq(WalkType) BY SafeParts DEF MainTyped
<1>2. Len(walk) \in Nat /\ DOMAIN walk = 1 .. Len(walk) /\ Len(walk) > 0
  BY HereFacts
<1>3. /\ Front(walk) \in Seq(WalkType) /\ Len(Front(walk)) = Len(walk) - 1
      /\ \A k \in 1 .. Len(walk) - 1 : Front(walk)[k] = walk[k]
  BY <1>1, FrontLast
<1>4. /\ Append(Front(walk), v) \in Seq(WalkType)
      /\ Len(Append(Front(walk), v)) = Len(Front(walk)) + 1
      /\ \A k \in 1 .. Len(Front(walk)) : Append(Front(walk), v)[k] = Front(walk)[k]
      /\ Append(Front(walk), v)[Len(Front(walk)) + 1] = v
  BY <1>3, AppendProperties
<1>5. Len(Front(walk)) + 1 = Len(walk) BY <1>2, <1>3
<1>6. DOMAIN Append(Front(walk), v) = DOMAIN walk BY <1>2, <1>4, <1>5, LenProperties
<1>7. \A k \in DOMAIN walk : k # Len(walk) => k < Len(walk) /\ Append(Front(walk), v)[k] = walk[k]
  <2>1. \A k \in DOMAIN walk : k # Len(walk) => k < Len(walk) /\ k \in 1 .. Len(walk) - 1 BY <1>2
  <2>. QED BY <1>3, <1>4, <2>1
<1>8. Append(Front(walk), v)[Len(walk)] = v BY <1>4, <1>5
<1>. QED BY <1>4, <1>5, <1>6, <1>7, <1>8

\* What is ahead of a directory are paths.
LEMMA AheadPaths ==
    ASSUME Safe, NEW k \in DOMAIN walk, NEW p \in Ahead(walk[k])
    PROVE  p \in Seq(Names)
<1>1. walk[k] \in WalkType BY SafeParts, LenProperties, ElementOfSeq DEF MainTyped
<1>. QED BY <1>1, AppendProperties DEF Ahead, WalkType

\* The rows of the inventory are paths.
LEMMA RowPaths ==
    ASSUME Safe, NEW i \in DOMAIN inventory
    PROVE  inventory[i].path \in Seq(Names)
<1>1. inventory[i] \in RowType BY SafeParts, LenProperties, ElementOfSeq DEF MainTyped
<1>. QED BY <1>1 DEF RowType

\* A row after all others.
LEMMA ListedLast ==
    ASSUME Safe, InventoryOrdered, NEW row, List(row),
           \A i \in DOMAIN inventory : PathBefore(inventory[i].path, row.path)
    PROVE  /\ InventoryOrdered'
           /\ \A i \in DOMAIN inventory' : inventory'[i] = row \/ (i \in DOMAIN inventory /\ inventory'[i] = inventory[i])
<1>1. /\ DOMAIN inventory = 1 .. Len(inventory) /\ Len(inventory) \in Nat
      /\ DOMAIN inventory' = 1 .. Len(inventory) + 1
      /\ \A i \in 1 .. Len(inventory) : inventory'[i] = inventory[i]
      /\ inventory'[Len(inventory) + 1] = row
  <2>1. inventory \in Seq(RowType \cup {row}) /\ row \in RowType \cup {row}
    BY SafeParts, LenProperties, SeqDef DEF MainTyped
  <2>2. /\ Append(inventory, row) \in Seq(RowType \cup {row})
        /\ Len(Append(inventory, row)) = Len(inventory) + 1
        /\ \A i \in 1 .. Len(inventory) : Append(inventory, row)[i] = inventory[i]
        /\ Append(inventory, row)[Len(inventory) + 1] = row
    BY <2>1, AppendProperties
  <2>. QED BY <2>1, <2>2, LenProperties DEF List
<1>2. ASSUME NEW i \in DOMAIN inventory', NEW j \in DOMAIN inventory', i < j
      PROVE  PathBefore(inventory'[i].path, inventory'[j].path)
  <2>1. i \in DOMAIN inventory /\ inventory'[i] = inventory[i] BY <1>1, <1>2
  <2>2. CASE j \in DOMAIN inventory
    BY <1>1, <1>2, <2>1, <2>2 DEF InventoryOrdered
  <2>3. CASE j = Len(inventory) + 1
    BY <1>1, <2>1, <2>3
  <2>. QED BY <1>1, <2>2, <2>3
<1>. QED BY <1>1, <1>2 DEF InventoryOrdered

\* A directory that is listed is replaced by its entries, which all come after it.
LEMMA ScanDirectoryOrdered ==
    ASSUME Safe, Ordered, ScanDirectory PROVE Ordered'
<1>. DEFINE N == Len(walk)
<1>1. walk # <<>> /\ ~Here.scanned /\ pc = "walk" /\ pc' = "walk"
  BY DEF ScanDirectory, AtDirectory, At
<1>2. Ahead(walk[N]) = {Here.path} /\ N \in DOMAIN walk /\ Here = walk[N]
  BY <1>1, HereFacts DEF Ahead
<1>3. CASE walk' = Front(walk) /\ List(Row(Here.path, "unreadable", Nothing))
  <2>1. \A i \in DOMAIN inventory : PathBefore(inventory[i].path, Here.path)
    BY <1>2 DEF Ordered
  <2>2. Row(Here.path, "unreadable", Nothing).path = Here.path BY DEF Row
  <2>3. \A k \in DOMAIN walk' : k \in DOMAIN walk /\ walk'[k] = walk[k] /\ k < N
    BY <1>1, <1>3, FrontFacts
  <2>4. \A k \in DOMAIN walk' : \A q \in Ahead(walk'[k]) : PathBefore(Here.path, q)
    BY <1>2, <2>3 DEF Ordered
  <2>5. /\ InventoryOrdered'
        /\ \A i \in DOMAIN inventory' :
             \/ inventory'[i].path = Here.path
             \/ i \in DOMAIN inventory /\ inventory'[i] = inventory[i]
    BY <1>3, <2>1, <2>2, ListedLast DEF Ordered
  <2>. QED BY <1>1, <2>3, <2>4, <2>5 DEF Ordered
<1>4. CASE /\ UNCHANGED inventory
           /\ walk' = Append(Front(walk), [Here EXCEPT !.scanned = TRUE,
                  !.names = {n \in Names : fs[Follow(Here.path)][n] # Vacant}])
  <2>. DEFINE v == [Here EXCEPT !.scanned = TRUE, !.names = {n \in Names : fs[Follow(Here.path)][n] # Vacant}]
  <2>1. Here \in WalkType BY <1>1, HereFacts
  <2>2. v \in WalkType /\ v.scanned /\ v.path = Here.path /\ v.names \subseteq Names
    BY <2>1 DEF WalkType
  <2>. HIDE DEF v
  <2>3. \A p \in Ahead(v) : \E n \in Names : p = Append(Here.path, n)
    BY <2>2 DEF Ahead
  <2>4. walk' = Append(Front(walk), v) BY <1>4 DEF v
  <2>5. /\ DOMAIN walk' = DOMAIN walk /\ walk'[N] = v
        /\ \A k \in DOMAIN walk : k # N => walk'[k] = walk[k] /\ k < N
    BY <1>1, <2>2, <2>4, ReplacedFacts
  <2>6. Here.path \in Seq(Names) BY <2>1 DEF WalkType
  <2>7. ASSUME NEW p \in Ahead(v), NEW k \in DOMAIN walk, k # N, NEW q \in Ahead(walk[k])
        PROVE  PathBefore(p, q)
    <3>1. PathBefore(Here.path, q) BY <1>2, <2>5, <2>7 DEF Ordered
    <3>. QED BY <2>3, <2>6, <3>1, AheadPaths, <2>7, BelowStays
  <2>8. ASSUME NEW i \in DOMAIN inventory, NEW q \in Ahead(v)
        PROVE  PathBefore(inventory[i].path, q)
    <3>1. PathBefore(inventory[i].path, Here.path) BY <1>2 DEF Ordered
    <3>. QED BY <2>3, <2>6, <3>1, RowPaths, BelowStays, ZenonT(30)
  <2>9. \A k, l \in DOMAIN walk : k < l =>
            \A p \in Ahead(walk'[l]), q \in Ahead(walk'[k]) : PathBefore(p, q)
    <3>. SUFFICES ASSUME NEW k \in DOMAIN walk, NEW l \in DOMAIN walk, k < l,
                         NEW p \in Ahead(walk'[l]), NEW q \in Ahead(walk'[k])
                  PROVE  PathBefore(p, q)
      OBVIOUS
    <3>1. k # N BY <1>1, HereFacts
    <3>2. CASE l = N BY <2>5, <2>7, <3>1, <3>2
    <3>3. CASE l # N BY <2>5, <3>1, <3>3 DEF Ordered
    <3>. QED BY <3>2, <3>3
  <2>10. \A i \in DOMAIN inventory, k \in DOMAIN walk :
            \A q \in Ahead(walk'[k]) : PathBefore(inventory[i].path, q)
    BY <2>5, <2>8 DEF Ordered
  <2>11. inventory' = inventory /\ DOMAIN walk' = DOMAIN walk BY <1>4, <2>5
  <2>12. InventoryOrdered' BY <2>11 DEF Ordered, InventoryOrdered
  <2>13. \A i \in DOMAIN inventory', k \in DOMAIN walk' :
            \A q \in Ahead(walk'[k]) : PathBefore(inventory'[i].path, q)
    BY <2>10, <2>11
  <2>14. \A k, l \in DOMAIN walk' : k < l =>
            \A p \in Ahead(walk'[l]), q \in Ahead(walk'[k]) : PathBefore(p, q)
    BY <2>9, <2>11
  <2>. QED BY <1>1, <2>12, <2>13, <2>14 DEF Ordered
<1>. QED BY <1>3, <1>4 DEF ScanDirectory

\* The entry that is visited comes before all that are left, and so does what is below it.
LEMMA VisitEntryOrdered ==
    ASSUME Safe, Ordered, NEW n \in Names, VisitEntry(n) PROVE Ordered'
<1>. DEFINE N == Len(walk)
            path == Append(Here.path, n)
            v == [Here EXCEPT !.names = @ \ {n}]
            rest == Append(Front(walk), v)
<1>1. walk # <<>> /\ Here.scanned /\ pc = "walk" /\ n \in Here.names
      /\ \A m \in Here.names : ~Precedes(m, n)
  BY DEF VisitEntry, AtDirectory, At
<1>2. Here \in WalkType /\ Here = walk[N] /\ N \in DOMAIN walk /\ Here.path \in Seq(Names)
  BY <1>1, HereFacts DEF WalkType
<1>3. v \in WalkType /\ v.scanned /\ v.path = Here.path /\ v.names = Here.names \ {n}
      /\ Here.names \subseteq Names
  BY <1>1, <1>2 DEF WalkType
<1>4. path \in Ahead(walk[N]) /\ Ahead(v) \subseteq Ahead(walk[N])
  BY <1>1, <1>2, <1>3 DEF Ahead
<1>5. \A q \in Ahead(v) : PathBefore(path, q)
  <2>. SUFFICES ASSUME NEW m \in Here.names, m # n PROVE PathBefore(path, Append(Here.path, m))
    BY <1>3 DEF Ahead
  <2>1. Precedes(n, m) BY <1>1, <1>3, NamesOrdered
  <2>. QED BY <1>2, <1>3, <2>1, SiblingsBefore
<1>. HIDE DEF v
<1>6. /\ DOMAIN rest = DOMAIN walk /\ rest[N] = v /\ Len(rest) = N /\ rest \in Seq(WalkType)
      /\ \A k \in DOMAIN walk : k # N => rest[k] = walk[k] /\ k < N
  BY <1>1, <1>3, ReplacedFacts
<1>. HIDE DEF rest, path
\* The path comes after the rows and before what is then ahead.
<1>7. \A i \in DOMAIN inventory : PathBefore(inventory[i].path, path)
  BY <1>2, <1>4 DEF Ordered
<1>8. \A k \in DOMAIN rest : \A q \in Ahead(rest[k]) : PathBefore(path, q)
  BY <1>2, <1>4, <1>5, <1>6 DEF Ordered
\* What is ahead without it is in order as before.
<1>9. \A k \in DOMAIN rest : Ahead(rest[k]) \subseteq Ahead(walk[k])
  BY <1>2, <1>4, <1>6
<1>10. /\ \A k, l \in DOMAIN rest : k < l =>
              \A p \in Ahead(rest[l]), q \in Ahead(rest[k]) : PathBefore(p, q)
       /\ \A i \in DOMAIN inventory, k \in DOMAIN rest :
              \A q \in Ahead(rest[k]) : PathBefore(inventory[i].path, q)
  BY <1>6, <1>9 DEF Ordered
<1>11. CASE \E why : List(Row(path, why, Nothing)) /\ walk' = rest /\ UNCHANGED pc
  <2>1. PICK why : List(Row(path, why, Nothing)) BY <1>11
  <2>2. Row(path, why, Nothing).path = path BY DEF Row
  <2>3. /\ InventoryOrdered'
        /\ \A i \in DOMAIN inventory' :
             \/ inventory'[i].path = path
             \/ i \in DOMAIN inventory /\ inventory'[i] = inventory[i]
    BY <1>7, <2>1, <2>2, ListedLast DEF Ordered
  <2>. QED BY <1>1, <1>8, <1>10, <1>11, <2>3 DEF Ordered
<1>12. CASE walk' = Append(rest, Visit(path)) /\ UNCHANGED <<pc, inventory>>
  <2>. DEFINE w == Visit(path)
  <2>1. w \in WalkType /\ Ahead(w) = {path}
    <3>1. path \in Seq(Names) BY <1>2, AppendProperties DEF path
    <3>. QED BY <3>1 DEF Visit, WalkType, Ahead
  <2>. HIDE DEF w
  <2>2. walk' = Append(rest, w) BY <1>12 DEF w
  <2>3. /\ walk' \in Seq(WalkType) /\ Len(walk') = N + 1
        /\ \A k \in 1 .. N : walk'[k] = rest[k]
        /\ walk'[N + 1] = w
    BY <1>6, <2>1, <2>2, AppendProperties
  <2>4. DOMAIN walk' = 1 .. N + 1 /\ N \in Nat /\ DOMAIN rest = 1 .. N
    BY <1>1, <1>6, <2>3, HereFacts, LenProperties
  <2>5. \A k, l \in DOMAIN walk' : k < l =>
            \A p \in Ahead(walk'[l]), q \in Ahead(walk'[k]) : PathBefore(p, q)
    <3>. SUFFICES ASSUME NEW k \in DOMAIN walk', NEW l \in DOMAIN walk', k < l,
                         NEW p \in Ahead(walk'[l]), NEW q \in Ahead(walk'[k])
                  PROVE  PathBefore(p, q)
      OBVIOUS
    <3>1. k \in DOMAIN rest /\ walk'[k] = rest[k] BY <2>3, <2>4
    <3>2. CASE l = N + 1 BY <1>8, <2>1, <2>3, <3>1, <3>2
    <3>3. CASE l \in DOMAIN rest BY <1>10, <2>3, <2>4, <3>1, <3>3
    <3>. QED BY <2>4, <3>2, <3>3
  <2>6. \A i \in DOMAIN inventory, k \in DOMAIN walk' :
            \A q \in Ahead(walk'[k]) : PathBefore(inventory[i].path, q)
    <3>. SUFFICES ASSUME NEW i \in DOMAIN inventory, NEW k \in DOMAIN walk', NEW q \in Ahead(walk'[k])
                  PROVE  PathBefore(inventory[i].path, q)
      OBVIOUS
    <3>1. CASE k = N + 1 BY <1>7, <2>1, <2>3, <3>1
    <3>2. CASE k \in DOMAIN rest BY <1>10, <2>3, <2>4, <3>2
    <3>. QED BY <2>4, <3>1, <3>2
  <2>. QED BY <1>1, <1>12, <2>5, <2>6 DEF Ordered, InventoryOrdered
<1>13. CASE StartOpen(path) /\ pc' = "hash" /\ walk' = rest /\ UNCHANGED inventory
  <2>1. \A o \in opening' : o.path = path BY <1>13 DEF StartOpen
  <2>. QED BY <1>7, <1>8, <1>10, <1>13, <2>1 DEF Ordered, InventoryOrdered
<1>. QED BY <1>11, <1>12, <1>13 DEF VisitEntry, Goto, path, rest, v

\* A directory without entries left is nowhere ahead.
LEMMA LeaveDirectoryOrdered ==
    ASSUME Safe, Ordered, LeaveDirectory PROVE Ordered'
<1>1. \A k \in DOMAIN walk' : k \in DOMAIN walk /\ walk'[k] = walk[k]
  BY FrontFacts DEF LeaveDirectory, AtDirectory
<1>. QED BY <1>1 DEF LeaveDirectory, AtDirectory, At, Ordered, InventoryOrdered

\* The file that was hashed, or could not be, is the next row.
LEMMA HashingOrdered ==
    ASSUME Safe, Ordered, (\E object \in Files : Hashed(object)) \/ (\E why : NotHashed(why))
    PROVE  Ordered'
<1>0. PICK o \in opening : \E seen : List(Row(o.path, Unread, seen))
  BY DEF Hashed, NotHashed, Opens, Refuses
<1>1. PICK seen : List(Row(o.path, Unread, seen))
  BY <1>0
<1>2. pc = "hash" /\ pc' = "walk" /\ walk' = walk
  BY DEF Hashed, NotHashed, At, Goto
<1>3. Row(o.path, Unread, seen).path = o.path BY DEF Row
<1>4. /\ InventoryOrdered'
      /\ \A i \in DOMAIN inventory' :
           \/ inventory'[i].path = o.path
           \/ i \in DOMAIN inventory /\ inventory'[i] = inventory[i]
  BY <1>1, <1>2, <1>3, ListedLast DEF Ordered
<1>. QED BY <1>2, <1>4 DEF Ordered

\* A source that is one file has one row.
LEMMA OneFileOrdered ==
    ASSUME Safe, Ordered, OneFile
    PROVE  Ordered'
<1>1. CASE StartFile
  <2>1. CASE walk' = walk
    BY <1>1, <2>1 DEF StartFile, At, Goto, Ordered, InventoryOrdered
  <2>2. CASE walk' = <<Visit(given)>> /\ pc' = "walk"
    <3>1. DOMAIN walk' = {1} BY <2>2
    <3>2. inventory = <<>> /\ inventory' = <<>> BY <1>1 DEF StartFile, At, Ordered
    <3>. QED BY <2>2, <3>1, <3>2 DEF Ordered, InventoryOrdered
  <2>. QED BY <1>1, <2>1, <2>2 DEF StartFile, Goto
<1>2. CASE FingerprintFile \/ (\E object \in Files : HashedFile(object))
  <2>1. walk = <<>> /\ inventory = <<>> /\ walk' = walk /\ pc' \in {"walk", "hash_file"}
    BY <1>2 DEF FingerprintFile, HashedFile, At, Goto, Ordered
  <2>2. CASE inventory' = inventory
    BY <2>1, <2>2 DEF Ordered, InventoryOrdered
  <2>3. CASE pc' = "walk" /\ \E row : List(row)
    <3>1. PICK row : List(row) BY <2>3
    <3>2. inventory' = <<row>> BY <2>1, <3>1 DEF List
    <3>3. DOMAIN inventory' = {1} BY <3>2
    <3>4. DOMAIN walk' = {} BY <2>1
    <3>. QED BY <2>1, <2>3, <3>3, <3>4 DEF Ordered, InventoryOrdered
  <2>. QED BY <1>2, <2>2, <2>3 DEF FingerprintFile, HashedFile, Goto
<1>3. CASE \/ TakeFile \/ IterateFile \/ (\E object \in Files : FileIdentified(object))
           \/ (\E why : FileRefused(why))
  BY <1>3 DEF TakeFile, IterateFile, FileIdentified, FileRefused, Goto, Ordered, InventoryOrdered
<1>. QED BY <1>1, <1>2, <1>3 DEF OneFile

\* open_source goes on with the path it has.
LEMMA OpenStepOrdered ==
    ASSUME Safe, Ordered, OpenStep PROVE Ordered'
<1>1. PICK o \in opening : OpenGoesOn(o) BY DEF OpenStep
<1>2. o \in OpenType BY SafeParts DEF TreeTypeOK, OpenType
<1>3. \A u \in opening' : u.path = o.path
  BY <1>1, <1>2 DEF OpenGoesOn, Passed, OpenType
<1>. QED BY <1>3 DEF OpenStep, intakeVars, Ordered, InventoryOrdered

\* From discovery on the inventory is only read.
LEMMA LaterOrdered ==
    ASSUME Safe, Ordered,
           \/ StartWalk \/ EndWalk \/ Discovering
           \/ EndDiscovery \/ StartPublishing \/ PublishRow \/ StartReport \/ StopHeartbeat \/ JoinHeartbeat
    PROVE  Ordered'
<1>1. CASE StartWalk
  <2>1. inventory = <<>> /\ inventory' = <<>> /\ walk' = <<Visit(<<>>)>> /\ pc' = "walk"
    BY <1>1 DEF StartWalk, At, Goto, Ordered
  <2>2. DOMAIN walk' = {1} BY <2>1
  <2>. QED BY <2>1, <2>2 DEF Ordered, InventoryOrdered
<1>2. CASE EndWalk
  BY <1>2 DEF EndWalk, Goto, Ordered, InventoryOrdered
<1>3. CASE Discovering
  <2>1. inventory' = inventory /\ walk' = walk /\ pc' \notin {"hash", "start", "file", "hash_file"}
    BY <1>3 DEF Discovering, TakeRow, ExamineRow, RecordFailure, Peek, PeekBlocks, Confirm, Ingest,
                IterateMailbox, Identified, Ingested, NotOpened, NextRow, Goto
  <2>. QED BY <2>1 DEF Ordered, InventoryOrdered
<1>4. CASE EndDiscovery \/ StartPublishing \/ PublishRow \/ StartReport \/ StopHeartbeat \/ JoinHeartbeat
  BY <1>4 DEF EndDiscovery, StartPublishing, PublishRow, StartReport, StopHeartbeat, JoinHeartbeat,
              AtRow, At, Goto, Ordered, InventoryOrdered
<1>. QED BY <1>1, <1>2, <1>3, <1>4

\* Counting, beating and replacing leave walk and inventory alone.
LEMMA OthersOrdered ==
    ASSUME Ordered, Counting \/ Beating \/ Disturbance \/ UNCHANGED vars
    PROVE  Ordered'
BY DEF Counting, Beating, Disturbance, Swap, vars, treeVars, intakeVars, Ordered, InventoryOrdered

\* There are no rows at first, ...
LEMMA InitOrdered == Init => Ordered
BY DEF Init, Ordered, InventoryOrdered

\* ... and every step keeps them in order.
LEMMA NextOrdered == Safe /\ Ordered /\ [Next]_vars => Ordered'
BY ScanDirectoryOrdered, VisitEntryOrdered, LeaveDirectoryOrdered, HashingOrdered, OneFileOrdered,
   OpenStepOrdered, LaterOrdered, OthersOrdered DEF Next, Main, Walking

\* The rows of the inventory are in the order of the index (_walk_directory,
\* _SourceInventory), each before all that are listed later, whatever is added,
\* replaced or removed while the walk is under way.
THEOREM InventoryIsOrdered == Spec => []InventoryOrdered
<1>1. Ordered => InventoryOrdered BY DEF Ordered
<1>. QED BY IntakeSafe, InitOrdered, NextOrdered, <1>1, PTL DEF Spec

-----------------------------------------------------------------------------
(***************************************************************************)
(* The counters that are shown belong to one point of the run.             *)
(***************************************************************************)

\* What the counters are once a call is made, and once a write is.
After(c, call) ==
    CASE call[1] = "phase" -> [c EXCEPT !.phase = call[2], !.current = 0, !.total = call[3]]
      [] call[1] = "count" -> [c EXCEPT ![call[2]] = @ + 1]
      [] call[1] = "close" -> [c EXCEPT !.phase = "completion", !.current = c.durable, !.total = c.durable]
Written(c, w) == [c EXCEPT ![w.field] = w.value]

CounterType == [phase : Phases, current : Nat, total : Nat, durable : Nat, failures : Nat]

\* c: the counters when the call under way has been made.
Settling(c) ==
    \/ writes = <<>> /\ c = counters
    \/ \E v \in WriteType : writes = <<v>> /\ c = Written(counters, v)
    \/ \E u, v \in WriteType : writes = <<u, v>> /\ c = Written(Written(counters, u), v)
    \/ \E t, u, v \in WriteType :
         writes = <<t, u, v>> /\ c = Written(Written(Written(counters, t), u), v)

Published == {r \in records : \E i \in DOMAIN inventory : i < cursor /\ r.path = inventory[i].path}

WalkPhase == {"start", "walk", "hash", "file", "hash_file"}
FilePhase == {"source", "identify_file", "file_mail"}

\* What they are when all calls have been made, by where the main thread is.
Exact(c) ==
    /\ Whole(c)
    /\ c.failures = Cardinality(Failures) + (IF pc = "failed" THEN 1 ELSE 0)
    /\ pc \in WalkPhase => c.phase = "fingerprint"
    /\ pc \in FilePhase => c.phase = "discovery" /\ c.current = 0
    /\ pc \in Discovery \cup {"blocked"} => c.phase = "discovery"
    /\ pc = "entry" =>
         /\ c.current <= cursor - 1
         /\ (given = <<>> /\ c.current < cursor - 1) => \E r \in records : r.object \in Containers
    /\ pc \in Discovery \ {"entry"} /\ given = <<>> /\ c.current < cursor =>
         \E r \in records : r.object \in Containers
    /\ pc = "frozen" => c.phase = "plan"
    /\ pc = "publish" =>
         c.phase = "publish" /\ c.total = Cardinality(records) /\ c.current = Cardinality(Published)
    /\ pc \in WalkPhase \cup FilePhase \cup Discovery \cup {"frozen"} => c.durable = 0

\* Every state between two calls is whole, from c on.
Onward(c) ==
    \/ calls = <<>> /\ Exact(c)
    \/ \E x \in CallType : calls = <<x>> /\ Whole(c) /\ Exact(After(c, x))
    \/ \E x, y \in CallType :
         calls = <<x, y>> /\ Whole(c) /\ Whole(After(c, x)) /\ Exact(After(After(c, x), y))
    \/ \E x, y, z \in CallType :
         /\ calls = <<x, y, z>> /\ Whole(c) /\ Whole(After(c, x)) /\ Whole(After(After(c, x), y))
         /\ Exact(After(After(After(c, x), y), z))

Pending == \E c \in CounterType : Settling(c) /\ Onward(c)

\* A row has one record at most, made when the row was at hand.
RecordsOnce ==
    /\ pc \in WalkPhase \cup FilePhase => records = {}
    /\ pc \in Discovery /\ cursor \in DOMAIN inventory => \A r \in records :
           \E i \in DOMAIN inventory : i < cursor /\ r.path = inventory[i].path
    /\ \A r, s \in records : r.path = s.path => r = s

LockHeld ==
    /\ (beat = "emitting") = (lock = "heartbeat")
    /\ lock # "main" => writes = <<>>

Counted == RecordsOnce /\ LockHeld /\ Pending

\* A call on its own: what it leaves in each field.
LEMMA AfterPhase ==
    ASSUME NEW c \in CounterType, NEW name \in Phases, NEW total \in Nat
    PROVE  After(c, Phase(name, total)) =
             [phase |-> name, current |-> 0, total |-> total, durable |-> c.durable, failures |-> c.failures]
<1>1. After(c, Phase(name, total)) = [c EXCEPT !.phase = name, !.current = 0, !.total = total]
  BY DEF After, Phase
<1>. QED BY <1>1 DEF CounterType

\* What each kind of call makes of the counters: a count, ...
LEMMA AfterCount ==
    ASSUME NEW c \in CounterType
    PROVE  /\ After(c, AdvanceCall) =
                [phase |-> c.phase, current |-> c.current + 1, total |-> c.total,
                 durable |-> c.durable, failures |-> c.failures]
           /\ After(c, CommittedCall) =
                [phase |-> c.phase, current |-> c.current, total |-> c.total,
                 durable |-> c.durable + 1, failures |-> c.failures]
           /\ After(c, FailedCall) =
                [phase |-> c.phase, current |-> c.current, total |-> c.total,
                 durable |-> c.durable, failures |-> c.failures + 1]
<1>1. /\ After(c, AdvanceCall) = [c EXCEPT !["current"] = @ + 1]
      /\ After(c, CommittedCall) = [c EXCEPT !["durable"] = @ + 1]
      /\ After(c, FailedCall) = [c EXCEPT !["failures"] = @ + 1]
  BY DEF After, Count, AdvanceCall, CommittedCall, FailedCall
<1>. QED BY <1>1 DEF CounterType

\* ... and the final record.
LEMMA AfterClose ==
    ASSUME NEW c \in CounterType
    PROVE  After(c, CloseCall) =
             [phase |-> "completion", current |-> c.durable, total |-> c.durable,
              durable |-> c.durable, failures |-> c.failures]
<1>1. After(c, CloseCall) = [c EXCEPT !.phase = "completion", !.current = c.durable, !.total = c.durable]
  BY DEF After, CloseCall
<1>. QED BY <1>1 DEF CounterType

\* A write on its own.
LEMMA WrittenIs ==
    ASSUME NEW c \in CounterType, NEW x
    PROVE  /\ Written(c, Set("phase", x)) =
                [phase |-> x, current |-> c.current, total |-> c.total, durable |-> c.durable, failures |-> c.failures]
           /\ Written(c, Set("current", x)) =
                [phase |-> c.phase, current |-> x, total |-> c.total, durable |-> c.durable, failures |-> c.failures]
           /\ Written(c, Set("total", x)) =
                [phase |-> c.phase, current |-> c.current, total |-> x, durable |-> c.durable, failures |-> c.failures]
<1>1. /\ Written(c, Set("phase", x)) = [c EXCEPT !["phase"] = x]
      /\ Written(c, Set("current", x)) = [c EXCEPT !["current"] = x]
      /\ Written(c, Set("total", x)) = [c EXCEPT !["total"] = x]
  BY DEF Written, Set
<1>. QED BY <1>1 DEF CounterType

\* The writes of a call, one after the other, make it.
LEMMA CallIsItsWrites ==
    ASSUME Safe, NEW call \in CallType, writes' = Assignments(call), UNCHANGED counters
    PROVE  Settling(After(counters, call))'
<1>1. counters \in CounterType BY SafeParts DEF ProgressTyped, ProgressTypeOK, CounterType
<1>2. CASE \E name \in Phases, total \in Nat : call = Phase(name, total)
  <2>1. PICK name \in Phases, total \in Nat : call = Phase(name, total) BY <1>2
  <2>. DEFINE t == Set("phase", name)
              u == Set("current", 0)
              v == Set("total", total)
  <2>2. writes' = <<t, u, v>>
    BY <2>1 DEF Assignments, Phase
  <2>3. t \in WriteType /\ u \in WriteType /\ v \in WriteType BY DEF WriteType, Fields
  <2>. DEFINE a == [phase |-> name, current |-> counters.current, total |-> counters.total,
                     durable |-> counters.durable, failures |-> counters.failures]
              b == [phase |-> name, current |-> 0, total |-> counters.total,
                     durable |-> counters.durable, failures |-> counters.failures]
  <2>6. a \in CounterType /\ b \in CounterType BY <1>1 DEF CounterType, Phases
  <2>7. Written(counters, t) = a BY <1>1, WrittenIs
  <2>8. Written(a, u) = b
    <3>1. Written(a, u) = [phase |-> a.phase, current |-> 0, total |-> a.total,
                           durable |-> a.durable, failures |-> a.failures]
      BY <2>6, WrittenIs
    <3>. QED BY <3>1
  <2>9. Written(b, v) = [phase |-> name, current |-> 0, total |-> total,
                     durable |-> counters.durable, failures |-> counters.failures]
    <3>1. Written(b, v) = [phase |-> b.phase, current |-> b.current, total |-> total,
                           durable |-> b.durable, failures |-> b.failures]
      BY <2>6, WrittenIs
    <3>. QED BY <3>1
  <2>4. Written(Written(Written(counters, t), u), v) = [phase |-> name, current |-> 0, total |-> total,
                     durable |-> counters.durable, failures |-> counters.failures]
    BY <2>7, <2>8, <2>9
  <2>5. Written(Written(Written(counters, t), u), v) = After(counters, call)
    BY <1>1, <2>1, <2>4, AfterPhase
  <2>. HIDE DEF t, u, v
  <2>. QED BY <2>2, <2>3, <2>5 DEF Settling
<1>3. CASE \E f \in Fields : call = Count(f)
  <2>1. PICK f \in Fields : call = Count(f) BY <1>3
  <2>. DEFINE v == Set(f, counters[f] + 1)
  <2>2. writes' = <<v>> BY <2>1 DEF Assignments, Count
  <2>3. v \in WriteType
    <3>1. counters[f] + 1 \in Nat BY <1>1, <2>1 DEF CounterType, Fields
    <3>. QED BY <2>1, <3>1 DEF WriteType
  <2>4. Written(counters, v) = After(counters, call) BY <2>1 DEF After, Count, Written, Set
  <2>. HIDE DEF v
  <2>. QED BY <2>2, <2>3, <2>4 DEF Settling
<1>4. CASE call = CloseCall
  <2>. DEFINE t == Set("phase", "completion")
              u == Set("current", counters.durable)
              v == Set("total", counters.durable)
  <2>2. writes' = <<t, u, v>> BY <1>4 DEF Assignments, CloseCall
  <2>3. t \in WriteType /\ u \in WriteType /\ v \in WriteType
    BY <1>1 DEF WriteType, Fields, Phases, CounterType
  <2>. DEFINE a == [phase |-> "completion", current |-> counters.current, total |-> counters.total,
                     durable |-> counters.durable, failures |-> counters.failures]
              b == [phase |-> "completion", current |-> counters.durable, total |-> counters.total,
                     durable |-> counters.durable, failures |-> counters.failures]
  <2>6. a \in CounterType /\ b \in CounterType BY <1>1 DEF CounterType, Phases
  <2>7. Written(counters, t) = a BY <1>1, WrittenIs
  <2>8. Written(a, u) = b
    <3>1. Written(a, u) = [phase |-> a.phase, current |-> counters.durable, total |-> a.total,
                           durable |-> a.durable, failures |-> a.failures]
      BY <2>6, WrittenIs
    <3>. QED BY <3>1
  <2>9. Written(b, v) = [phase |-> "completion", current |-> counters.durable, total |-> counters.durable,
                     durable |-> counters.durable, failures |-> counters.failures]
    <3>1. Written(b, v) = [phase |-> b.phase, current |-> b.current, total |-> counters.durable,
                           durable |-> b.durable, failures |-> b.failures]
      BY <2>6, WrittenIs
    <3>. QED BY <3>1
  <2>4. Written(Written(Written(counters, t), u), v) = [phase |-> "completion", current |-> counters.durable, total |-> counters.durable,
                     durable |-> counters.durable, failures |-> counters.failures]
    BY <2>7, <2>8, <2>9
  <2>5. Written(Written(Written(counters, t), u), v) = After(counters, call)
    BY <1>1, <1>4, <2>4, AfterClose
  <2>. HIDE DEF t, u, v
  <2>. QED BY <2>2, <2>3, <2>5 DEF Settling
<1>. QED BY <1>2, <1>3, <1>4 DEF CallType

\* A write that is due does not change where the call leads.
LEMMA WriteSettles ==
    ASSUME NEW c, Settling(c), Assign
    PROVE  Settling(c)'
<1>1. writes # <<>> /\ writes' = Tail(writes) /\ counters' = Written(counters, Head(writes))
  BY DEF Assign, Written
<1>2. CASE \E v \in WriteType : writes = <<v>> /\ c = Written(counters, v)
  BY <1>1, <1>2 DEF Settling
<1>3. CASE \E u, v \in WriteType : writes = <<u, v>> /\ c = Written(Written(counters, u), v)
  BY <1>1, <1>3 DEF Settling
<1>4. CASE \E t, u, v \in WriteType :
               writes = <<t, u, v>> /\ c = Written(Written(Written(counters, t), u), v)
  BY <1>1, <1>4 DEF Settling
<1>. QED BY <1>1, <1>2, <1>3, <1>4 DEF Settling

\* What a call leaves has the types of the counters.
LEMMA AfterType ==
    ASSUME NEW c \in CounterType, NEW call \in CallType
    PROVE  After(c, call) \in CounterType
<1>1. CASE \E name \in Phases, total \in Nat : call = Phase(name, total)
  BY <1>1, AfterPhase DEF CounterType
<1>2. CASE \E f \in Fields : call = Count(f)
  BY <1>2, AfterCount DEF CounterType, Fields, AdvanceCall, CommittedCall, FailedCall
<1>3. CASE call = CloseCall
  BY <1>3, AfterClose DEF CounterType, Phases
<1>. QED BY <1>1, <1>2, <1>3 DEF CallType

\* The calls of Progress: what is pending stays so, one call less.
LEMMA CountingCounted ==
    ASSUME Safe, Counted, Counting PROVE Counted'
<1>1. UNCHANGED intakeVars BY DEF Counting
<1>2. RecordsOnce' BY <1>1 DEF intakeVars, Counted, RecordsOnce, WalkPhase, FilePhase
<1>3. PICK c \in CounterType : Settling(c) /\ Onward(c) BY DEF Counted, Pending
<1>4. ASSUME NEW d PROVE (Whole(d)' <=> Whole(d)) /\ (Exact(d)' <=> Exact(d))
  <2>1. Whole(d)' <=> Whole(d) BY <1>1 DEF intakeVars, Whole, Failures
  <2>. QED BY <1>1, <2>1 DEF intakeVars, Exact, Failures, Published
<1>5. CASE BeginCall
  <2>1. calls # <<>> /\ Head(calls) \in CallType /\ calls' = Tail(calls)
    BY <1>5, SafeParts, HeadTailProperties DEF BeginCall, ProgressTyped
  <2>2. writes = <<>> BY <1>5 DEF BeginCall, Counted, LockHeld
  <2>3. c = counters BY <1>3, <2>2 DEF Settling
  <2>. PICK d \in CounterType : d = After(c, Head(calls)) BY <2>1, AfterType
  <2>4. Settling(d)' BY <1>5, <2>1, <2>3, CallIsItsWrites DEF BeginCall
  <2>6. Onward(d)'
    <3>1. CASE \E x \in CallType : calls = <<x>> /\ Whole(c) /\ Exact(After(c, x))
      BY <1>4, <2>1, <3>1 DEF Onward
    <3>2. CASE \E x, y \in CallType :
                 calls = <<x, y>> /\ Whole(c) /\ Whole(After(c, x)) /\ Exact(After(After(c, x), y))
      BY <1>4, <2>1, <3>2 DEF Onward
    <3>3. CASE \E x, y, z \in CallType :
                 /\ calls = <<x, y, z>> /\ Whole(c) /\ Whole(After(c, x)) /\ Whole(After(After(c, x), y))
                 /\ Exact(After(After(After(c, x), y), z))
      BY <1>4, <2>1, <3>3 DEF Onward
    <3>. QED BY <1>3, <2>1, <3>1, <3>2, <3>3 DEF Onward
  <2>7. LockHeld' BY <1>5 DEF BeginCall, Counted, LockHeld
  <2>. QED BY <1>2, <2>4, <2>6, <2>7 DEF Counted, Pending
<1>6. CASE Assign
  <2>1. Settling(c)' BY <1>3, <1>6, WriteSettles
  <2>2. Onward(c)' BY <1>3, <1>4, <1>6 DEF Assign, Onward
  <2>3. LockHeld' BY <1>6 DEF Assign, Counted, LockHeld
  <2>. QED BY <1>2, <2>1, <2>2, <2>3 DEF Counted, Pending
<1>7. CASE EndCall
  <2>1. Settling(c)' BY <1>3, <1>7 DEF EndCall, Settling
  <2>2. Onward(c)' BY <1>3, <1>4, <1>7 DEF EndCall, Onward
  <2>3. LockHeld' BY <1>7 DEF EndCall, Counted, LockHeld
  <2>. QED BY <1>2, <2>1, <2>2, <2>3 DEF Counted, Pending
<1>. QED BY <1>5, <1>6, <1>7 DEF Counting

\* The heartbeat, and others, touch nothing the counters tell of.
LEMMA OthersCounted ==
    ASSUME Safe, Counted, OpenStep \/ Beating \/ Disturbance \/ UNCHANGED vars
    PROVE  Counted'
<1>1. UNCHANGED intakeVars /\ UNCHANGED <<counters, calls, writes>>
  BY DEF OpenStep, Quiet, Beating, Heartbeat, Wake, BeginBeat, EndBeat, Quit, Disturbance, progressVars, vars
<1>2. RecordsOnce' BY <1>1 DEF intakeVars, Counted, RecordsOnce, WalkPhase, FilePhase
<1>3. LockHeld'
  BY DEF OpenStep, Quiet, Beating, Heartbeat, Wake, BeginBeat, EndBeat, Quit, LockFree, Disturbance,
         progressVars, vars, Counted, LockHeld
<1>4. PICK c \in CounterType : Settling(c) /\ Onward(c) BY DEF Counted, Pending
<1>5. ASSUME NEW d PROVE (Whole(d)' <=> Whole(d)) /\ (Exact(d)' <=> Exact(d))
  <2>1. Whole(d)' <=> Whole(d) BY <1>1 DEF intakeVars, Whole, Failures
  <2>. QED BY <1>1, <2>1 DEF intakeVars, Exact, Failures, Published
<1>6. Settling(c)' /\ Onward(c)' BY <1>1, <1>4, <1>5 DEF Settling, Onward
<1>. QED BY <1>2, <1>3, <1>4, <1>6 DEF Counted, Pending

\* When the main thread does its own work nothing is pending.
LEMMA ReadyCounted ==
    ASSUME Safe, Counted, Ready
    PROVE  counters \in CounterType /\ writes = <<>> /\ calls = <<>> /\ Exact(counters)
<1>1. counters \in CounterType BY SafeParts DEF ProgressTyped, ProgressTypeOK, CounterType
<1>2. writes = <<>> /\ calls = <<>> BY DEF Ready, Counted, LockHeld
<1>3. PICK c \in CounterType : Settling(c) /\ Onward(c) BY DEF Counted, Pending
<1>4. c = counters BY <1>2, <1>3 DEF Settling
<1>. QED BY <1>1, <1>2, <1>3, <1>4 DEF Onward

\* Its step makes no call, one, two or three.
LEMMA NoCall ==
    ASSUME Safe, Counted, Ready, UNCHANGED <<counters, calls, writes, lock, beat>>,
           NEW c, c = counters, Exact(c)'
    PROVE  Pending' /\ LockHeld'
<1>1. c \in CounterType /\ writes = <<>> /\ calls = <<>> BY ReadyCounted
<1>2. Settling(c)' /\ Onward(c)' BY <1>1 DEF Settling, Onward
<1>3. LockHeld' BY DEF Counted, LockHeld
<1>. QED BY <1>1, <1>2, <1>3 DEF Pending

\* From one point to the next by one call, ...
LEMMA OneCall ==
    ASSUME Safe, Counted, Ready, UNCHANGED <<counters, writes, lock, beat>>, NEW x \in CallType, calls' = <<x>>,
           NEW c, c = counters, Whole(c)', NEW d, d = After(c, x), Exact(d)'
    PROVE  Pending' /\ LockHeld'
<1>1. c \in CounterType /\ writes = <<>> BY ReadyCounted
<1>2. Settling(c)' BY <1>1 DEF Settling
<1>3. Onward(c)' BY DEF Onward
<1>4. LockHeld' BY DEF Counted, LockHeld
<1>. QED BY <1>1, <1>2, <1>3, <1>4 DEF Pending

\* ... by two with a point between them, ...
LEMMA TwoCalls ==
    ASSUME Safe, Counted, Ready, UNCHANGED <<counters, writes, lock, beat>>,
           NEW x \in CallType, NEW y \in CallType, calls' = <<x, y>>,
           NEW c, c = counters, Whole(c)', NEW d, d = After(c, x), Whole(d)', NEW e, e = After(d, y), Exact(e)'
    PROVE  Pending' /\ LockHeld'
<1>1. c \in CounterType /\ writes = <<>> BY ReadyCounted
<1>2. Settling(c)' BY <1>1 DEF Settling
<1>3. Onward(c)' BY DEF Onward
<1>4. LockHeld' BY DEF Counted, LockHeld
<1>. QED BY <1>1, <1>2, <1>3, <1>4 DEF Pending

\* ... and by three.
LEMMA ThreeCalls ==
    ASSUME Safe, Counted, Ready, UNCHANGED <<counters, writes, lock, beat>>,
           NEW x \in CallType, NEW y \in CallType, NEW z \in CallType, calls' = <<x, y, z>>,
           NEW c, c = counters, Whole(c)', NEW d, d = After(c, x), Whole(d)',
           NEW e, e = After(d, y), Whole(e)', NEW f, f = After(e, z), Exact(f)'
    PROVE  Pending' /\ LockHeld'
<1>1. c \in CounterType /\ writes = <<>> BY ReadyCounted
<1>2. Settling(c)' BY <1>1 DEF Settling
<1>3. Onward(c)' BY DEF Onward
<1>4. LockHeld' BY DEF Counted, LockHeld
<1>. QED BY <1>1, <1>2, <1>3, <1>4 DEF Pending

-----------------------------------------------------------------------------
\* The records that are counted.

\* No two rows have one path.
LEMMA RowsDiffer ==
    ASSUME Safe, InventoryOrdered, NEW i \in DOMAIN inventory, NEW j \in DOMAIN inventory, i < j
    PROVE  inventory[i].path # inventory[j].path
<1>1. PathBefore(inventory[i].path, inventory[j].path) BY DEF InventoryOrdered
<1>2. inventory[j].path \in Seq(Names) BY RowPaths
<1>. SUFFICES ASSUME inventory[i].path = inventory[j].path PROVE FALSE OBVIOUS
<1>3. PICK k \in DOMAIN inventory[j].path : Precedes(inventory[j].path[k], inventory[j].path[k])
  BY <1>1 DEF PathBefore
<1>4. inventory[j].path[k] \in Names BY <1>2, LenProperties, ElementOfSeq
<1>. QED BY <1>3, <1>4, IntakeAssumption DEF Precedes

\* The record of the row at hand is a new one and replaces none.
LEMMA RecordIsNew ==
    ASSUME KeysTellNames, Safe, InventoryOrdered, RecordsOnce,
           NEW label \in Discovery, AtRow(label), NEW why, NEW object, Record(why, object),
           NEW r, r = [path |-> ThisRow.path, reason |-> why, object |-> object]
    PROVE  records' = records \cup {r} /\ \A s \in records : s.path # ThisRow.path
<1>1. ThisRow = inventory[cursor] /\ cursor \in DOMAIN inventory /\ cursor \in Nat /\ ThisRow.path \in Seq(Names)
  BY RowFacts, SafeParts DEF ThisRow, RowType, MainTyped
<1>2. ASSUME NEW s \in records PROVE s.path # ThisRow.path
  <2>1. PICK i \in DOMAIN inventory : i < cursor /\ s.path = inventory[i].path
    BY <1>1 DEF RecordsOnce, AtRow, At
  <2>. QED BY <1>1, <2>1, RowsDiffer
<1>3. ASSUME NEW s \in records PROVE ~SameId(r, s)
  <2>1. s.path \in Seq(Names) BY SafeParts DEF MainTyped, RecordType
  <2>2. Key(r.path) = Key(s.path) => r.path = s.path BY <1>1, <2>1, KeysTellPaths
  <2>. QED BY <1>2, <2>2 DEF SameId
<1>. QED BY <1>2, <1>3 DEF Record, Upserted

\* The row that was recorded is behind the cursor.
LEMMA NextRowOnce ==
    ASSUME KeysTellNames, Safe, InventoryOrdered, RecordsOnce,
           NEW label \in Discovery, AtRow(label), NEW why, NEW object, Record(why, object), NextRow,
           UNCHANGED inventory
    PROVE  RecordsOnce'
<1>. PICK r : r = [path |-> ThisRow.path, reason |-> why, object |-> object] OBVIOUS
<1>1. records' = records \cup {r} /\ \A s \in records : s.path # ThisRow.path BY RecordIsNew
<1>2. r.path = ThisRow.path /\ ThisRow = inventory[cursor] /\ cursor \in DOMAIN inventory /\ cursor \in Nat
      /\ cursor' = cursor + 1 /\ pc' = "entry"
  BY RowFacts, SafeParts DEF ThisRow, MainTyped, NextRow, Goto
<1>3. \A s \in records : \E i \in DOMAIN inventory : i < cursor /\ s.path = inventory[i].path
  BY <1>2 DEF RecordsOnce, AtRow, At
<1>4. \A s \in records' : \E i \in DOMAIN inventory : i < cursor + 1 /\ s.path = inventory[i].path
  <2>1. \A i \in DOMAIN inventory : i \in Nat BY SafeParts, LenProperties DEF MainTyped
  <2>. QED BY <1>1, <1>2, <1>3, <2>1
<1>5. \A s, t \in records' : s.path = t.path => s = t
  BY <1>1, <1>2 DEF RecordsOnce
<1>. QED BY <1>2, <1>4, <1>5 DEF RecordsOnce, WalkPhase, FilePhase

\* What discovery does to the records and the cursor.
LEMMA DiscoveringOnce ==
    ASSUME KeysTellNames, Safe, InventoryOrdered, RecordsOnce, Discovering
    PROVE  RecordsOnce'
<1>1. inventory' = inventory
  BY DEF Discovering, TakeRow, ExamineRow, RecordFailure, Peek, PeekBlocks, Confirm, IterateMailbox,
         Identified, Ingested, NotOpened, treeVars
<1>2. PICK label \in Discovery : AtRow(label)
  BY DEF Discovering, TakeRow, ExamineRow, RecordFailure, Peek, PeekBlocks, Confirm, IterateMailbox,
         Identified, Ingested, NotOpened, Discovery
<1>3. CASE RecordFailure \/ (\E object \in Files : Ingested(object)) \/
             (IterateMailbox /\ Record(Unread, Reopened) /\ NextRow)
  <2>1. PICK why, object : Record(why, object) /\ NextRow
    BY <1>3 DEF RecordFailure, Ingested
  <2>. QED BY <1>1, <1>2, <2>1, NextRowOnce
<1>4. CASE /\ UNCHANGED <<cursor, records>>
           /\ pc' \in (Discovery \ {"entry"}) \cup {"blocked", "abort"}
  BY <1>1, <1>2, <1>4 DEF RecordsOnce, Discovery, WalkPhase, FilePhase, AtRow, At
<1>5. ASSUME TakeRow \/ ExamineRow \/ Peek \/ PeekBlocks \/ Confirm
             \/ (\E object \in Files : Identified(object))
             \/ (\E why \in {"unsafe_entry", "unreadable"} : NotOpened(why))
      PROVE  /\ UNCHANGED <<cursor, records>>
             /\ pc' \in (Discovery \ {"entry"}) \cup {"blocked", "abort"}
  BY <1>5 DEF TakeRow, ExamineRow, Peek, PeekBlocks, Confirm, Ingest, Identified, NotOpened, Goto, Discovery
<1>6. CASE IterateMailbox
  BY <1>3, <1>4, <1>6 DEF IterateMailbox, Goto, Discovery
<1>. QED BY <1>3, <1>4, <1>5, <1>6 DEF Discovering

\* The rest: no record yet, the one of a single file, or none any more.
LEMMA MainOnce ==
    ASSUME Safe, RecordsOnce,
           \/ Walking \/ OneFile
           \/ EndDiscovery \/ StartPublishing \/ PublishRow \/ StartReport \/ StopHeartbeat \/ JoinHeartbeat
    PROVE  RecordsOnce'
<1>1. CASE Walking
  <2>1. pc \in WalkPhase /\ records' = records
    BY <1>1 DEF Walking, StartWalk, ScanDirectory, LeaveDirectory, EndWalk, VisitEntry, Hashed, NotHashed,
                AtDirectory, At, WalkPhase
  <2>. QED BY <2>1 DEF RecordsOnce
<1>2. CASE OneFile
  <2>1. pc \in WalkPhase \cup FilePhase
    BY <1>2 DEF OneFile, StartFile, FingerprintFile, TakeFile, IterateFile, HashedFile, FileIdentified,
                FileRefused, At, WalkPhase, FilePhase
  <2>2. CASE records' = records
    BY <2>1, <2>2 DEF RecordsOnce
  <2>3. CASE /\ records' = {[path |-> given, reason |-> Unread, object |-> identity]}
             /\ cursor' = Len(inventory) + 1 /\ pc' = "entry" /\ inventory' = inventory
    <3>1. cursor' \notin DOMAIN inventory'
      BY <2>3, SafeParts, LenProperties DEF MainTyped
    <3>. QED BY <2>3, <3>1 DEF RecordsOnce, WalkPhase, FilePhase
  <2>. QED BY <1>2, <2>2, <2>3 DEF OneFile, StartFile, FingerprintFile, TakeFile, IterateFile, HashedFile,
                                  FileIdentified, FileRefused, Goto
<1>3. CASE EndDiscovery \/ StartPublishing \/ PublishRow \/ StartReport \/ StopHeartbeat \/ JoinHeartbeat
  <2>1. records' = records /\ pc' \in {"frozen", "publish", "reported", "join", "ended"}
    BY <1>3 DEF EndDiscovery, StartPublishing, PublishRow, StartReport, StopHeartbeat, JoinHeartbeat,
                AtRow, At, Goto
  <2>. QED BY <2>1 DEF RecordsOnce, WalkPhase, FilePhase, Discovery
<1>. QED BY <1>1, <1>2, <1>3

-----------------------------------------------------------------------------
\* The steps of the main thread and their calls.

\* The numbers the main thread counts with.
LEMMA MainFacts ==
    ASSUME Safe, Counted, Ready
    PROVE  /\ counters \in CounterType /\ Exact(counters)
           /\ Len(inventory) \in Nat /\ cursor \in Nat /\ cursor >= 1
           /\ Cardinality(Failures) \in Nat
           /\ IsFiniteSet(records) /\ Cardinality(records) \in Nat
<1>1. IsFiniteSet(records) /\ Failures \subseteq records BY SafeParts DEF MainTyped, Failures
<1>2. IsFiniteSet(Failures) BY <1>1, FS_Subset
<1>3. Cardinality(Failures) \in Nat /\ Cardinality(records) \in Nat BY <1>1, <1>2, FS_CardinalityType
<1>. QED BY <1>1, <1>3, ReadyCounted, SafeParts, LenProperties DEF MainTyped

\* Failures are a part of the records.
LEMMA FailuresStay ==
    ASSUME UNCHANGED records PROVE Failures' = Failures
BY DEF Failures

\* The walk shows how many rows were hashed, of the rows there are.
LEMMA WalkingCounted ==
    ASSUME Safe, Counted, RowsRecorded, Walking PROVE Pending' /\ LockHeld'
<1>1. Ready /\ records' = records /\ cursor' = cursor /\ given' = given
  BY DEF Walking, StartWalk, ScanDirectory, LeaveDirectory, EndWalk, VisitEntry, Hashed, NotHashed,
         AtDirectory, At
<1>2. /\ counters \in CounterType /\ Exact(counters) /\ Len(inventory) \in Nat /\ cursor \in Nat /\ cursor >= 1
      /\ Cardinality(Failures) \in Nat /\ Failures' = Failures
  BY <1>1, MainFacts, FailuresStay
<1>3. PICK c : c = counters OBVIOUS
<1>4. pc \in WalkPhase /\ c.phase = "fingerprint" /\ c.current <= Len(inventory)
      /\ c.failures = Cardinality(Failures) /\ c.durable = 0 /\ c.current \in Nat /\ c \in CounterType
  <2>1. pc \in WalkPhase /\ pc # "failed"
    BY DEF Walking, StartWalk, ScanDirectory, LeaveDirectory, EndWalk, VisitEntry, Hashed, NotHashed,
           AtDirectory, At, WalkPhase
  <2>2. Exact(c) /\ c \in CounterType BY <1>2, <1>3
  <2>3. c.phase = "fingerprint" /\ c.durable = 0 BY <2>1, <2>2 DEF Exact
  <2>4. c.failures = Cardinality(Failures) BY <1>2, <2>1, <2>2 DEF Exact
  <2>5. c.current <= Len(inventory) BY <2>2, <2>3 DEF Exact, Whole
  <2>. QED BY <2>1, <2>2, <2>3, <2>4, <2>5 DEF CounterType
<1>5. Len(inventory') \in Nat /\ Len(inventory') >= Len(inventory)
      /\ ((\E object \in Files : Hashed(object)) => Len(inventory') = Len(inventory) + 1)
  <2>1. inventory \in Seq(RowType) /\ inventory' \in Seq(RowType)
    BY SafeParts, WalkingSafe DEF Safe, Typed, MainTyped
  <2>2. CASE UNCHANGED inventory /\ ~(\E object \in Files : Hashed(object)) BY <1>2, <2>2
  <2>3. CASE \E row : List(row)
    <3>1. PICK row : inventory' = Append(inventory, row) BY <2>3 DEF List
    <3>2. Len(inventory') = Len(inventory) + 1 BY <2>1, <3>1
    <3>. QED BY <1>2, <3>2
  <2>. QED BY <2>2, <2>3 DEF Walking, StartWalk, ScanDirectory, LeaveDirectory, EndWalk, VisitEntry, Hashed, NotHashed
<1>6. CASE StartWalk
  <2>1. PICK d : d = After(c, Phase("fingerprint", 0)) OBVIOUS
  <2>2. d = [phase |-> "fingerprint", current |-> 0, total |-> 0, durable |-> c.durable, failures |-> c.failures]
    BY <1>4, <2>1, AfterPhase DEF Phases
  <2>3. Whole(c)' BY <1>1, <1>2, <1>4, <1>5 DEF Whole
  <2>4. pc' = "walk" BY <1>6 DEF StartWalk, Goto
  <2>5. Exact(d)' BY <1>1, <1>2, <1>4, <1>5, <2>2, <2>4 DEF Exact, Whole, WalkPhase, FilePhase, Discovery
  <2>6. Phase("fingerprint", 0) \in CallType BY CallTypes DEF Phases
  <2>. QED BY <1>1, <1>3, <1>6, <2>1, <2>3, <2>5, <2>6, OneCall DEF StartWalk, Report
<1>7. CASE \/ ScanDirectory \/ LeaveDirectory \/ (\E n \in Names : VisitEntry(n))
           \/ (\E why \in {"unsafe_entry", "unreadable"} : NotHashed(why))
  <2>1. pc' \in WalkPhase /\ Quiet
    BY <1>4, <1>7 DEF ScanDirectory, LeaveDirectory, VisitEntry, NotHashed, Goto, At, AtDirectory, WalkPhase
  <2>2. Exact(c)' BY <1>1, <1>2, <1>4, <1>5, <2>1 DEF Exact, Whole, WalkPhase, FilePhase, Discovery
  <2>. QED BY <1>1, <1>3, <2>1, <2>2, NoCall DEF Quiet, progressVars
<1>8. CASE \E object \in Files : Hashed(object)
  <2>1. PICK d : d = After(c, AdvanceCall) OBVIOUS
  <2>2. d = [phase |-> c.phase, current |-> c.current + 1, total |-> c.total,
             durable |-> c.durable, failures |-> c.failures]
    BY <1>4, <2>1, AfterCount
  <2>3. Whole(c)' BY <1>1, <1>2, <1>4, <1>5 DEF Whole
  <2>4. pc' = "walk" /\ Len(inventory') = Len(inventory) + 1 BY <1>5, <1>8 DEF Hashed, Goto
  <2>5. Exact(d)' BY <1>1, <1>2, <1>4, <1>5, <2>2, <2>4 DEF Exact, Whole, WalkPhase, FilePhase, Discovery
  <2>. QED BY <1>1, <1>3, <1>8, <2>1, <2>3, <2>5, CallTypes, OneCall DEF Hashed, Report
<1>9. CASE EndWalk
  <2>1. PICK d : d = After(c, Phase("discovery", 0)) OBVIOUS
  <2>2. d = [phase |-> "discovery", current |-> 0, total |-> 0, durable |-> c.durable, failures |-> c.failures]
    BY <1>4, <2>1, AfterPhase DEF Phases
  <2>3. Whole(c)' BY <1>1, <1>2, <1>4, <1>5 DEF Whole
  <2>4. pc' = (IF given = <<>> THEN "entry" ELSE "source") /\ (given = <<>> => cursor = 1)
    BY <1>9 DEF EndWalk, Goto, At, RowsRecorded
  <2>5. Exact(d)' BY <1>1, <1>2, <1>4, <1>5, <2>2, <2>4 DEF Exact, Whole, WalkPhase, FilePhase, Discovery
  <2>6. Phase("discovery", 0) \in CallType BY CallTypes DEF Phases
  <2>. QED BY <1>1, <1>3, <1>9, <2>1, <2>3, <2>5, <2>6, OneCall DEF EndWalk, Report
<1>. QED BY <1>6, <1>7, <1>8, <1>9 DEF Walking

\* What is shown of discovery: rows taken, and one failure more when one is at hand.
LEMMA DiscoveryFacts ==
    ASSUME Safe, Counted, NEW label \in Discovery, AtRow(label), NEW c, c = counters
    PROVE  /\ Ready /\ pc = label /\ c \in CounterType /\ Exact(c)
           /\ c.phase = "discovery" /\ c.durable = 0 /\ c.current \in Nat /\ c.failures \in Nat
           /\ c.failures = Cardinality(Failures) + (IF pc = "failed" THEN 1 ELSE 0)
           /\ c.current <= cursor
           /\ given = <<>> /\ c.current < cursor - 1 => \E r \in records : r.object \in Containers
           /\ cursor \in Nat /\ cursor >= 1 /\ Cardinality(Failures) \in Nat
<1>1. Ready /\ pc = label BY DEF AtRow, At
<1>2. /\ c \in CounterType /\ Exact(c) /\ cursor \in Nat /\ cursor >= 1 /\ Cardinality(Failures) \in Nat
  BY <1>1, MainFacts
<1>3. c.phase = "discovery" /\ c.durable = 0 BY <1>1, <1>2 DEF Exact
<1>4. c.failures = Cardinality(Failures) + (IF pc = "failed" THEN 1 ELSE 0) BY <1>2 DEF Exact
<1>5. /\ c.current <= cursor
      /\ given = <<>> /\ c.current < cursor - 1 => \E r \in records : r.object \in Containers
  BY <1>2, <1>3 DEF Exact, Whole
<1>. QED BY <1>1, <1>2, <1>3, <1>4, <1>5 DEF CounterType

\* A row is taken: one entry more.
LEMMA TakeRowCounted ==
    ASSUME Safe, Counted, TakeRow PROVE Pending' /\ LockHeld'
<1>1. PICK c : c = counters OBVIOUS
<1>2. AtRow("entry") /\ "entry" \in Discovery BY DEF TakeRow, Discovery
<1>3. /\ Ready /\ pc = "entry" /\ c \in CounterType /\ Exact(c)
      /\ c.phase = "discovery" /\ c.durable = 0 /\ c.current \in Nat /\ c.failures \in Nat
      /\ c.failures = Cardinality(Failures)
      /\ c.current <= cursor
      /\ given = <<>> /\ c.current < cursor - 1 => \E r \in records : r.object \in Containers
      /\ cursor \in Nat /\ cursor >= 1 /\ Cardinality(Failures) \in Nat
  BY <1>1, <1>2, DiscoveryFacts
<1>4. /\ pc' = "row" /\ cursor' = cursor /\ records' = records /\ given' = given /\ Failures' = Failures
      /\ inventory' = inventory
  BY FailuresStay DEF TakeRow, Goto
<1>5. c.current <= cursor - 1 BY <1>3 DEF Exact
<1>6. Whole(c)' BY <1>3, <1>4 DEF Whole
<1>7. PICK d : d = After(c, AdvanceCall) OBVIOUS
<1>8. d = [phase |-> c.phase, current |-> c.current + 1, total |-> c.total,
           durable |-> c.durable, failures |-> c.failures]
  BY <1>3, <1>7, AfterCount
<1>9. Exact(d)' BY <1>3, <1>4, <1>5, <1>8 DEF Exact, Whole, WalkPhase, FilePhase, Discovery
<1>. QED BY <1>1, <1>3, <1>6, <1>7, <1>9, CallTypes, OneCall DEF TakeRow, Report

\* The row at hand goes on, or turns out to fail: the counter comes first.
LEMMA RowCounted ==
    ASSUME Safe, Counted, NEW label \in Discovery \ {"entry", "failed"}, AtRow(label),
           UNCHANGED <<cursor, records, given, inventory>>,
           \/ Quiet /\ pc' \in (Discovery \ {"entry", "failed"}) \cup {"blocked", "abort"}
           \/ Report(<<FailedCall>>) /\ pc' = "failed"
    PROVE  Pending' /\ LockHeld'
<1>1. PICK c : c = counters OBVIOUS
<1>3. /\ Ready /\ pc = label /\ c \in CounterType /\ Exact(c)
      /\ c.phase = "discovery" /\ c.durable = 0 /\ c.current \in Nat /\ c.failures \in Nat
      /\ c.failures = Cardinality(Failures)
      /\ c.current <= cursor
      /\ given = <<>> /\ c.current < cursor - 1 => \E r \in records : r.object \in Containers
      /\ cursor \in Nat /\ cursor >= 1 /\ Cardinality(Failures) \in Nat
  BY <1>1, DiscoveryFacts
<1>4. Failures' = Failures BY FailuresStay
<1>5. given = <<>> /\ c.current < cursor => \E r \in records : r.object \in Containers
  BY <1>3 DEF Exact
<1>6. Whole(c)' BY <1>3, <1>4 DEF Whole
<1>7. CASE Quiet /\ pc' \in (Discovery \ {"entry", "failed"}) \cup {"blocked", "abort"}
  <2>1. Exact(c)' BY <1>3, <1>4, <1>5, <1>6, <1>7 DEF Exact, WalkPhase, FilePhase, Discovery
  <2>. QED BY <1>1, <1>3, <1>7, <2>1, NoCall DEF Quiet, progressVars
<1>8. CASE Report(<<FailedCall>>) /\ pc' = "failed"
  <2>1. PICK d : d = After(c, FailedCall) OBVIOUS
  <2>2. d = [phase |-> c.phase, current |-> c.current, total |-> c.total,
             durable |-> c.durable, failures |-> c.failures + 1]
    BY <1>3, <2>1, AfterCount
  <2>3. Exact(d)' BY <1>3, <1>4, <1>5, <1>8, <2>2 DEF Exact, Whole, WalkPhase, FilePhase, Discovery
  <2>. QED BY <1>1, <1>3, <1>6, <1>8, <2>1, <2>3, CallTypes, OneCall DEF Report
<1>. QED BY <1>7, <1>8

\* A failure is recorded: now the records have it too.
LEMMA RecordFailureCounted ==
    ASSUME KeysTellNames, InventoryOrdered, Safe, Counted, RecordFailure PROVE Pending' /\ LockHeld'
<1>1. PICK c : c = counters OBVIOUS
<1>2. AtRow("failed") /\ "failed" \in Discovery BY DEF RecordFailure, Discovery
<1>3. /\ Ready /\ pc = "failed" /\ c \in CounterType /\ Exact(c)
      /\ c.phase = "discovery" /\ c.durable = 0 /\ c.current \in Nat /\ c.failures \in Nat
      /\ c.failures = Cardinality(Failures) + 1
      /\ c.current <= cursor
      /\ cursor \in Nat /\ cursor >= 1 /\ Cardinality(Failures) \in Nat
  BY <1>1, <1>2, DiscoveryFacts
<1>4. /\ pc' = "entry" /\ cursor' = cursor + 1 /\ given' = given /\ inventory' = inventory
  BY DEF RecordFailure, NextRow, Goto
<1>5. given = <<>> /\ c.current < cursor => \E r \in records : r.object \in Containers
  BY <1>2, <1>3 DEF Exact
<1>6. PICK r : r = [path |-> ThisRow.path, reason |-> reason, object |-> Nothing] OBVIOUS
<1>7. records' = records \cup {r} /\ r \notin records
  BY <1>2, <1>6, RecordIsNew DEF RecordFailure, Counted
<1>8. reason # Unread BY <1>3, SafeParts DEF MainTyped
<1>9. Cardinality(Failures') = Cardinality(Failures) + 1
  <2>1. Failures' = Failures \cup {r} /\ r \notin Failures BY <1>6, <1>7, <1>8 DEF Failures
  <2>2. IsFiniteSet(Failures)
    <3>1. IsFiniteSet(records) /\ Failures \subseteq records BY SafeParts DEF MainTyped, Failures
    <3>. QED BY <3>1, FS_Subset
  <2>. QED BY <2>1, <2>2, FS_AddElement
<1>10. Exact(c)' BY <1>3, <1>4, <1>5, <1>7, <1>9 DEF Exact, Whole, WalkPhase, FilePhase, Discovery
<1>. QED BY <1>1, <1>3, <1>10, NoCall DEF RecordFailure, Quiet, progressVars

\* A file is recorded, and a container has had a phase of its own.
LEMMA RecordedCounted ==
    ASSUME KeysTellNames, InventoryOrdered, Safe, Counted, NEW label \in {"mail", "ingest"}, AtRow(label),
           NEW object, Record(Unread, object), NextRow, UNCHANGED <<given, inventory>>,
           \/ Quiet
           \/ Report(IF object \in Containers THEN ExpansionCalls ELSE <<>>)
    PROVE  Pending' /\ LockHeld'
<1>1. PICK c : c = counters OBVIOUS
<1>2. label \in Discovery BY DEF Discovery
<1>3. /\ Ready /\ pc = label /\ c \in CounterType /\ Exact(c)
      /\ c.phase = "discovery" /\ c.durable = 0 /\ c.current \in Nat /\ c.failures \in Nat
      /\ c.failures = Cardinality(Failures)
      /\ c.current <= cursor
      /\ cursor \in Nat /\ cursor >= 1 /\ Cardinality(Failures) \in Nat
  BY <1>1, <1>2, DiscoveryFacts
<1>4. pc' = "entry" /\ cursor' = cursor + 1 BY DEF NextRow, Goto
<1>5. given = <<>> /\ c.current < cursor => \E s \in records : s.object \in Containers
  BY <1>2, <1>3 DEF Exact
<1>6. PICK r : r = [path |-> ThisRow.path, reason |-> Unread, object |-> object] OBVIOUS
<1>7. records' = records \cup {r} BY <1>2, <1>6, RecordIsNew DEF Counted
<1>8. Failures' = Failures BY <1>6, <1>7 DEF Failures
<1>9. Exact(c)' BY <1>3, <1>4, <1>5, <1>7, <1>8 DEF Exact, Whole, WalkPhase, FilePhase, Discovery
<1>10. CASE Quiet \/ Report(<<>>)
  <2>1. calls = <<>> BY <1>3 DEF Ready
  <2>. QED BY <1>1, <1>3, <1>9, <1>10, <2>1, NoCall DEF Quiet, Report, progressVars
<1>11. CASE object \in Containers /\ Report(ExpansionCalls)
  <2>1. PICK d : d = After(c, Phase("expand", 1)) OBVIOUS
  <2>2. d = [phase |-> "expand", current |-> 0, total |-> 1, durable |-> c.durable, failures |-> c.failures]
    BY <1>3, <2>1, AfterPhase DEF Phases
  <2>3. d \in CounterType BY <1>3, <2>2 DEF CounterType, Phases
  <2>4. PICK e : e = After(d, AdvanceCall) OBVIOUS
  <2>5. e = [phase |-> "expand", current |-> 1, total |-> 1, durable |-> c.durable, failures |-> c.failures]
    <3>1. e = [phase |-> d.phase, current |-> d.current + 1, total |-> d.total,
               durable |-> d.durable, failures |-> d.failures]
      BY <2>3, <2>4, AfterCount
    <3>. QED BY <2>2, <3>1
  <2>6. e \in CounterType BY <1>3, <2>5 DEF CounterType, Phases
  <2>7. PICK f : f = After(e, Phase("discovery", 0)) OBVIOUS
  <2>8. f = [phase |-> "discovery", current |-> 0, total |-> 0, durable |-> c.durable, failures |-> c.failures]
    <3>1. f = [phase |-> "discovery", current |-> 0, total |-> 0, durable |-> e.durable, failures |-> e.failures]
      BY <2>6, <2>7, AfterPhase DEF Phases
    <3>. QED BY <2>5, <3>1
  <2>9. Whole(c)' BY <1>9 DEF Exact
  <2>10. Whole(d)' BY <1>3, <1>8, <2>2 DEF Whole
  <2>11. Whole(e)' BY <1>3, <1>8, <2>5 DEF Whole
  <2>12. \E s \in records' : s.object \in Containers BY <1>6, <1>7, <1>11
  <2>13. Exact(f)'
    BY <1>3, <1>4, <1>8, <2>8, <2>12 DEF Exact, Whole, WalkPhase, FilePhase, Discovery
  <2>14. Phase("expand", 1) \in CallType /\ AdvanceCall \in CallType /\ Phase("discovery", 0) \in CallType
    BY CallTypes DEF Phases
  <2>15. calls' = <<Phase("expand", 1), AdvanceCall, Phase("discovery", 0)>> BY <1>11 DEF Report, ExpansionCalls
  <2>. QED BY <1>1, <1>3, <1>11, <2>1, <2>4, <2>7, <2>9, <2>10, <2>11, <2>13, <2>14, <2>15, ThreeCalls DEF Report
<1>. QED BY <1>10, <1>11

\* Every step of discovery.
LEMMA DiscoveringCounted ==
    ASSUME KeysTellNames, InventoryOrdered, Safe, Counted, Discovering PROVE Pending' /\ LockHeld'
<1>1. CASE TakeRow BY <1>1, TakeRowCounted
<1>2. CASE RecordFailure BY <1>2, RecordFailureCounted
<1>3. CASE \E object \in Files : Ingested(object)
  BY <1>3, RecordedCounted DEF Ingested
<1>4. CASE IterateMailbox
  <2>1. CASE Quiet /\ Record(Unread, Reopened) /\ NextRow
    BY <1>4, <2>1, RecordedCounted DEF IterateMailbox
  <2>2. CASE \/ Report(<<FailedCall>>) /\ pc' = "failed" /\ UNCHANGED <<cursor, records>>
             \/ Quiet /\ pc' = "abort" /\ UNCHANGED <<cursor, records>>
    <3>1. "mail" \in Discovery \ {"entry", "failed"} BY DEF Discovery
    <3>. QED BY <1>4, <2>2, <3>1, RowCounted DEF IterateMailbox
  <2>. QED BY <1>4, <2>1, <2>2 DEF IterateMailbox, Goto
<1>5. CASE \/ ExamineRow \/ Peek \/ PeekBlocks \/ Confirm \/ (\E object \in Files : Identified(object))
           \/ (\E why \in {"unsafe_entry", "unreadable"} : NotOpened(why))
  <2>1. UNCHANGED <<cursor, records, given, inventory>>
    BY <1>5 DEF ExamineRow, Peek, PeekBlocks, Confirm, Identified, NotOpened
  <2>2. \E label \in Discovery \ {"entry", "failed"} : AtRow(label)
    BY <1>5 DEF ExamineRow, Peek, PeekBlocks, Confirm, Identified, NotOpened, Discovery
  <2>3. \/ Quiet /\ pc' \in (Discovery \ {"entry", "failed"}) \cup {"blocked", "abort"}
        \/ Report(<<FailedCall>>) /\ pc' = "failed"
    BY <1>5 DEF ExamineRow, Peek, PeekBlocks, Confirm, Ingest, Identified, NotOpened, Goto, Discovery
  <2>. QED BY <2>1, <2>2, <2>3, RowCounted
<1>. QED BY <1>1, <1>2, <1>3, <1>4, <1>5 DEF Discovering

\* A source that is one file: nothing is counted before it is hashed.
LEMMA OneFileCounted ==
    ASSUME Safe, Ordered, Counted, OneFile PROVE Pending' /\ LockHeld'
<1>1. PICK c : c = counters OBVIOUS
<1>2. Ready /\ pc \in WalkPhase \cup FilePhase /\ pc \notin {"failed", "walk", "hash"} /\ given' = given
  BY DEF OneFile, StartFile, FingerprintFile, TakeFile, IterateFile, HashedFile, FileIdentified,
         FileRefused, At, WalkPhase, FilePhase
<1>3. /\ c \in CounterType /\ Exact(c) /\ cursor \in Nat /\ cursor >= 1 /\ Cardinality(Failures) \in Nat
      /\ Len(inventory) \in Nat
  BY <1>1, <1>2, MainFacts
<1>4. /\ c.durable = 0 /\ c.current \in Nat /\ c.failures = Cardinality(Failures) /\ Whole(c)
  BY <1>2, <1>3 DEF Exact, CounterType
<1>5. Failures = {} /\ Cardinality(Failures) = 0
  <2>1. Failures = {} BY <1>2 DEF Counted, RecordsOnce, Failures
  <2>. QED BY <2>1, FS_EmptySet
<1>6. c.failures = 0 BY <1>4, <1>5
<1>7. given # <<>>
  BY SafeParts DEF OneFile, StartFile, FingerprintFile, TakeFile, IterateFile, HashedFile, FileIdentified,
                   FileRefused, At, MainTyped
<1>8. CASE StartFile
  <2>1. c.phase = "fingerprint" BY <1>3, <1>8 DEF StartFile, At, Exact, WalkPhase
  <2>2. c.current <= Len(inventory) BY <1>4, <2>1 DEF Whole
  <2>3. /\ pc' \in {"file", "walk"} /\ inventory' = inventory /\ Failures' = Failures /\ cursor' = cursor
    BY <1>8, FailuresStay DEF StartFile, Goto
  <2>4. Whole(c)' BY <1>3, <1>4, <2>1, <2>2, <2>3 DEF Whole
  <2>5. PICK d : d = After(c, Phase("fingerprint", 0)) OBVIOUS
  <2>6. d = [phase |-> "fingerprint", current |-> 0, total |-> 0, durable |-> c.durable, failures |-> c.failures]
    BY <1>3, <2>5, AfterPhase DEF Phases
  <2>7. Exact(d)' BY <1>3, <1>4, <2>3, <2>6 DEF Exact, Whole, WalkPhase, FilePhase, Discovery
  <2>8. Phase("fingerprint", 0) \in CallType BY CallTypes DEF Phases
  <2>. QED BY <1>1, <1>2, <1>8, <2>4, <2>5, <2>7, <2>8, OneCall DEF StartFile, Report
<1>9. CASE FingerprintFile \/ (\E object \in Files : HashedFile(object))
  <2>1. c.phase = "fingerprint" /\ inventory = <<>>
    BY <1>3, <1>9 DEF FingerprintFile, HashedFile, At, Exact, WalkPhase, Ordered
  <2>2. c.current = 0
    <3>1. c.current <= Len(inventory) BY <1>4, <2>1 DEF Whole
    <3>. QED BY <1>4, <2>1, <3>1
  <2>3. /\ Failures' = Failures /\ cursor' \in Nat /\ cursor' >= 1
    BY <1>3, <1>9, FailuresStay DEF FingerprintFile, HashedFile
  <2>4. /\ pc' \in {"walk", "hash_file"} /\ Len(inventory') \in Nat
        /\ ((\E object \in Files : HashedFile(object)) => Len(inventory') = 1)
    <3>1. CASE \E row : List(row) /\ pc' = "walk"
      <4>1. PICK row : inventory' = <<row>> BY <2>1, <3>1 DEF List
      <4>. QED BY <3>1, <4>1
    <3>2. CASE FingerprintFile /\ UNCHANGED inventory /\ pc' = "hash_file"
      <4>1. ~(\E object \in Files : HashedFile(object))
        BY <3>2 DEF FingerprintFile, HashedFile, At
      <4>. QED BY <1>3, <3>2, <4>1
    <3>. QED BY <1>9, <3>1, <3>2 DEF FingerprintFile, HashedFile, Goto
  <2>5. Whole(c)' BY <1>3, <1>4, <2>1, <2>2, <2>3, <2>4 DEF Whole
  <2>6. CASE FingerprintFile
    <3>1. Exact(c)' BY <1>3, <1>4, <2>1, <2>3, <2>4, <2>5 DEF Exact, WalkPhase, FilePhase, Discovery
    <3>. QED BY <1>1, <1>2, <2>6, <3>1, NoCall DEF FingerprintFile, Quiet, progressVars
  <2>7. CASE \E object \in Files : HashedFile(object)
    <3>1. PICK d : d = After(c, AdvanceCall) OBVIOUS
    <3>2. d = [phase |-> c.phase, current |-> c.current + 1, total |-> c.total,
               durable |-> c.durable, failures |-> c.failures]
      BY <1>3, <3>1, AfterCount
    <3>4. Len(inventory') = 1 /\ pc' = "walk" BY <2>4, <2>7 DEF HashedFile, Goto
    <3>5. d.current = 1 /\ d.phase = "fingerprint" /\ d.durable = 0 /\ d.failures = Cardinality(Failures)
      BY <1>4, <2>1, <2>2, <3>2
    <3>3. Exact(d)' BY <1>3, <2>3, <3>4, <3>5 DEF Exact, Whole, WalkPhase, FilePhase, Discovery
    <3>. QED BY <1>1, <1>2, <2>5, <2>7, <3>1, <3>3, CallTypes, OneCall DEF HashedFile, Report
  <2>. QED BY <1>9, <2>6, <2>7
<1>10. CASE TakeFile \/ (\E object \in Files : FileIdentified(object))
  <2>1. c.phase = "discovery" /\ c.current = 0
    BY <1>3, <1>10 DEF TakeFile, FileIdentified, At, Exact, FilePhase
  <2>2. /\ Failures' = Failures /\ cursor' = cursor /\ pc' \in {"entry", "identify_file", "file_mail"} /\ Quiet
    BY <1>10, FailuresStay DEF TakeFile, FileIdentified, Goto
  <2>3. Exact(c)' BY <1>2, <1>3, <1>4, <1>7, <2>1, <2>2 DEF Exact, Whole, WalkPhase, FilePhase, Discovery
  <2>. QED BY <1>1, <1>2, <2>2, <2>3, NoCall DEF Quiet, progressVars
<1>11. CASE \E why \in {"unsafe_entry", "unreadable"} : FileRefused(why)
  <2>1. /\ Failures' = Failures /\ cursor' = cursor /\ pc' = "abort" /\ Quiet
        /\ UNCHANGED <<inventory, records, given>>
    BY <1>11, FailuresStay DEF FileRefused, Goto
  <2>2. Whole(c)' BY <1>4, <2>1 DEF Whole
  <2>3. Exact(c)' BY <1>3, <1>4, <2>1, <2>2 DEF Exact, WalkPhase, FilePhase, Discovery
  <2>. QED BY <1>1, <1>2, <2>1, <2>3, NoCall DEF Quiet, progressVars
<1>12. CASE IterateFile
  <2>1. c.phase = "discovery" /\ c.current = 0
    BY <1>3, <1>12 DEF IterateFile, At, Exact, FilePhase
  <2>2. Failures' = {} /\ Cardinality(Failures') = 0
    <3>1. Failures' = {} BY <1>5, <1>12 DEF IterateFile, Failures
    <3>. QED BY <3>1, FS_EmptySet
  <2>3. cursor' \in Nat /\ cursor' >= 1 /\ pc' \in {"entry", "abort"} /\ Quiet
    BY <1>3, <1>12 DEF IterateFile, Goto
  <2>4. Exact(c)' BY <1>2, <1>6, <1>7, <1>4, <2>1, <2>2, <2>3 DEF Exact, Whole, WalkPhase, FilePhase, Discovery
  <2>. QED BY <1>1, <1>2, <2>3, <2>4, NoCall DEF Quiet, progressVars
<1>. QED BY <1>8, <1>9, <1>10, <1>11, <1>12 DEF OneFile

\* The plan, the publication and the report begin with counters of their own.
LEMMA EndDiscoveryCounted ==
    ASSUME Safe, Counted, EndDiscovery PROVE Pending' /\ LockHeld'
<1>1. PICK c : c = counters OBVIOUS
<1>2. Ready /\ pc = "entry" /\ pc' = "frozen" BY DEF EndDiscovery, At, Goto
<1>3. c \in CounterType /\ Exact(c) /\ Cardinality(Failures) \in Nat BY <1>1, <1>2, MainFacts
<1>4. UNCHANGED <<inventory, records, cursor, given>> /\ Failures' = Failures
  BY FailuresStay DEF EndDiscovery
<1>5. /\ c.durable = 0 /\ c.failures = Cardinality(Failures) /\ Whole(c)
  BY <1>2, <1>3 DEF Exact, Discovery
<1>6. Whole(c)' BY <1>4, <1>5 DEF Whole
<1>7. PICK d : d = After(c, Phase("plan", 0)) OBVIOUS
<1>8. d = [phase |-> "plan", current |-> 0, total |-> 0, durable |-> c.durable, failures |-> c.failures]
  BY <1>3, <1>7, AfterPhase DEF Phases
<1>9. Exact(d)' BY <1>2, <1>3, <1>4, <1>5, <1>8 DEF Exact, Whole, WalkPhase, FilePhase, Discovery
<1>10. Phase("plan", 0) \in CallType BY CallTypes DEF Phases
<1>. QED BY <1>1, <1>2, <1>6, <1>7, <1>9, <1>10, OneCall DEF EndDiscovery, Report

\* Publication starts from zero with the records as its total.
LEMMA StartPublishingCounted ==
    ASSUME Safe, Counted, StartPublishing PROVE Pending' /\ LockHeld'
<1>1. PICK c : c = counters OBVIOUS
<1>2. Ready /\ pc = "frozen" /\ pc' = "publish" /\ cursor' = 1 BY DEF StartPublishing, At, Goto
<1>3. c \in CounterType /\ Exact(c) /\ Cardinality(Failures) \in Nat /\ Cardinality(records) \in Nat
  BY <1>1, <1>2, MainFacts
<1>4. UNCHANGED <<inventory, records, given>> /\ Failures' = Failures
  BY FailuresStay DEF StartPublishing
<1>5. /\ c.durable = 0 /\ c.failures = Cardinality(Failures) /\ Whole(c) /\ c.phase = "plan" /\ c.current = 0
  <2>1. c.durable = 0 /\ c.failures = Cardinality(Failures) /\ Whole(c) /\ c.phase = "plan"
    BY <1>2, <1>3 DEF Exact
  <2>. QED BY <2>1 DEF Whole
<1>6. Whole(c)' BY <1>3, <1>4, <1>5 DEF Whole
<1>7. PICK d : d = After(c, Phase("publish", Cardinality(records))) OBVIOUS
<1>8. d = [phase |-> "publish", current |-> 0, total |-> Cardinality(records), durable |-> c.durable,
           failures |-> c.failures]
  BY <1>3, <1>7, AfterPhase DEF Phases
<1>9. Cardinality(Published') = 0
  <2>1. \A i \in DOMAIN inventory : ~(i < 1) BY SafeParts, LenProperties DEF MainTyped
  <2>2. Published' = {} BY <1>2, <1>4, <2>1 DEF Published
  <2>. QED BY <2>2, FS_EmptySet
<1>10. Exact(d)' BY <1>2, <1>3, <1>4, <1>5, <1>8, <1>9 DEF Exact, Whole, WalkPhase, FilePhase, Discovery
<1>11. Phase("publish", Cardinality(records)) \in CallType BY <1>3, CallTypes DEF Phases
<1>12. PICK x : x = Phase("publish", Cardinality(records)) OBVIOUS
<1>. QED BY <1>1, <1>2, <1>6, <1>7, <1>10, <1>11, <1>12, OneCall DEF StartPublishing, Report

\* It counts one record after the other.
LEMMA PublishRowCounted ==
    ASSUME Safe, InventoryOrdered, Counted, PublishRow PROVE Pending' /\ LockHeld'
<1>1. PICK c : c = counters OBVIOUS
<1>2. Ready /\ pc = "publish" /\ pc' = "publish" /\ cursor' = cursor + 1 /\ cursor <= Len(inventory)
  BY DEF PublishRow, AtRow, At
<1>3. /\ c \in CounterType /\ Exact(c) /\ cursor \in Nat /\ cursor >= 1 /\ Cardinality(Failures) \in Nat
      /\ Cardinality(records) \in Nat /\ IsFiniteSet(records) /\ Len(inventory) \in Nat
  BY <1>1, <1>2, MainFacts
<1>4. UNCHANGED <<inventory, records, given>> /\ Failures' = Failures
  BY FailuresStay DEF PublishRow
<1>5. /\ c.failures = Cardinality(Failures) /\ Whole(c) /\ c.phase = "publish"
      /\ c.total = Cardinality(records) /\ c.current = Cardinality(Published)
  BY <1>2, <1>3 DEF Exact
<1>6. c.durable <= c.current /\ c.current \in Nat /\ c.durable \in Nat /\ c.failures \in Nat
  BY <1>3, <1>5 DEF Whole, CounterType
<1>7. Whole(c)' BY <1>3, <1>4, <1>5 DEF Whole
<1>8. cursor \in DOMAIN inventory /\ \A i \in DOMAIN inventory : i \in Nat
  BY <1>2, <1>3, SafeParts, LenProperties DEF MainTyped
<1>9. Published' = Published \cup RecordsOf(cursor)
  BY <1>2, <1>3, <1>4, <1>8 DEF Published, RecordsOf
<1>10. CASE RecordsOf(cursor) = {}
  <2>1. Published' = Published /\ calls' = <<>> /\ calls = <<>> BY <1>2, <1>9, <1>10 DEF PublishRow, Report, Ready
  <2>2. Exact(c)' BY <1>2, <1>3, <1>4, <1>5, <1>7, <2>1 DEF Exact, WalkPhase, FilePhase, Discovery
  <2>. QED BY <1>1, <1>2, <2>1, <2>2, NoCall DEF PublishRow, Report
<1>11. CASE RecordsOf(cursor) # {}
  <2>1. PICK r : r \in RecordsOf(cursor) BY <1>11
  <2>2. r \in records /\ r.path = inventory[cursor].path BY <2>1 DEF RecordsOf
  <2>3. RecordsOf(cursor) = {r} BY <2>2 DEF RecordsOf, Counted, RecordsOnce
  <2>4. r \notin Published
    <3>1. \A i \in DOMAIN inventory : i < cursor => inventory[i].path # inventory[cursor].path
      BY <1>8, RowsDiffer
    <3>. QED BY <2>2, <3>1 DEF Published
  <2>5. IsFiniteSet(Published) /\ Published' \subseteq records /\ IsFiniteSet(Published')
    <3>1. Published \subseteq records BY DEF Published
    <3>2. Published' \subseteq records BY <1>9, <2>2, <2>3, <3>1
    <3>. QED BY <1>3, <3>1, <3>2, FS_Subset
  <2>6. Cardinality(Published') = Cardinality(Published) + 1 /\ Cardinality(Published') <= Cardinality(records)
    <3>1. Cardinality(Published \cup {r}) = Cardinality(Published) + 1 BY <2>4, <2>5, FS_AddElement
    <3>2. Cardinality(Published') <= Cardinality(records) BY <1>3, <2>5, FS_Subset
    <3>. QED BY <1>9, <2>3, <3>1, <3>2
  <2>7. PICK d : d = After(c, AdvanceCall) OBVIOUS
  <2>8. d = [phase |-> c.phase, current |-> c.current + 1, total |-> c.total,
             durable |-> c.durable, failures |-> c.failures]
    BY <1>3, <2>7, AfterCount
  <2>9. d.phase = "publish" /\ d.current = c.current + 1 /\ d.total = c.total /\ d.durable = c.durable
        /\ d.failures = c.failures /\ d \in CounterType
    BY <1>3, <1>5, <1>6, <2>8 DEF CounterType
  <2>10. Whole(d)' BY <1>3, <1>4, <1>5, <1>6, <2>6, <2>9 DEF Whole
  <2>11. Exact(d)' BY <1>2, <1>3, <1>4, <1>5, <2>6, <2>9, <2>10 DEF Exact, WalkPhase, FilePhase, Discovery
  <2>12. CASE Report(<<AdvanceCall>>)
    BY <1>1, <1>2, <1>7, <2>7, <2>11, <2>12, CallTypes, OneCall DEF Report
  <2>13. CASE Report(<<AdvanceCall, CommittedCall>>)
    <3>1. PICK e : e = After(d, CommittedCall) OBVIOUS
    <3>2. e = [phase |-> d.phase, current |-> d.current, total |-> d.total,
               durable |-> d.durable + 1, failures |-> d.failures]
      BY <2>9, <3>1, AfterCount
    <3>3. e.phase = "publish" /\ e.current = c.current + 1 /\ e.total = c.total /\ e.durable = c.durable + 1
          /\ e.failures = c.failures
      BY <2>9, <3>2
    <3>4. Whole(e)' BY <1>3, <1>4, <1>5, <1>6, <2>6, <3>3 DEF Whole
    <3>5. Exact(e)' BY <1>2, <1>3, <1>4, <1>5, <2>6, <3>3, <3>4 DEF Exact, WalkPhase, FilePhase, Discovery
    <3>. QED BY <1>1, <1>2, <1>7, <2>7, <2>10, <2>13, <3>1, <3>5, CallTypes, TwoCalls DEF Report
  <2>. QED BY <1>11, <2>12, <2>13 DEF PublishRow
<1>. QED BY <1>10, <1>11

\* The report and the end of the heartbeat.
LEMMA ReportingCounted ==
    ASSUME Safe, Counted, StartReport \/ StopHeartbeat \/ JoinHeartbeat PROVE Pending' /\ LockHeld'
<1>1. PICK c : c = counters OBVIOUS
<1>2. Ready /\ pc # "failed" /\ pc' \in {"reported", "join", "ended"}
  BY DEF StartReport, StopHeartbeat, JoinHeartbeat, At, Goto
<1>3. c \in CounterType /\ Exact(c) /\ Cardinality(Failures) \in Nat BY <1>1, <1>2, MainFacts
<1>4. UNCHANGED <<inventory, records, cursor, given>> /\ Failures' = Failures
  BY FailuresStay DEF StartReport, StopHeartbeat, JoinHeartbeat
<1>5. /\ c.failures = Cardinality(Failures) /\ Whole(c)
  BY <1>2, <1>3 DEF Exact
<1>6. Whole(c)' BY <1>4, <1>5 DEF Whole
<1>7. CASE StartReport
  <2>1. PICK d : d = After(c, Phase("report", 0)) OBVIOUS
  <2>2. d = [phase |-> "report", current |-> 0, total |-> 0, durable |-> c.durable, failures |-> c.failures]
    BY <1>3, <2>1, AfterPhase DEF Phases
  <2>3. Exact(d)' BY <1>2, <1>3, <1>4, <1>5, <2>2 DEF Exact, Whole, WalkPhase, FilePhase, Discovery
  <2>4. Phase("report", 0) \in CallType BY CallTypes DEF Phases
  <2>. QED BY <1>1, <1>2, <1>6, <1>7, <2>1, <2>3, <2>4, OneCall DEF StartReport, Report
<1>8. CASE StopHeartbeat
  <2>1. Exact(c)' BY <1>2, <1>3, <1>4, <1>5, <1>6 DEF Exact, WalkPhase, FilePhase, Discovery
  <2>. QED BY <1>1, <1>2, <1>8, <2>1, NoCall DEF StopHeartbeat, Stop
<1>9. CASE JoinHeartbeat
  <2>1. PICK d : d = After(c, CloseCall) OBVIOUS
  <2>2. d = [phase |-> "completion", current |-> c.durable, total |-> c.durable, durable |-> c.durable,
             failures |-> c.failures]
    BY <1>3, <2>1, AfterClose
  <2>3. Exact(d)' BY <1>2, <1>3, <1>4, <1>5, <2>2 DEF Exact, Whole, WalkPhase, FilePhase, Discovery
  <2>. QED BY <1>1, <1>2, <1>6, <1>9, <2>1, <2>3, CallTypes, OneCall DEF JoinHeartbeat, Join
<1>. QED BY <1>7, <1>8, <1>9

\* The counters start at zero.
LEMMA InitCounted == Init => Counted
<1>. SUFFICES ASSUME Init PROVE Counted OBVIOUS
<1>1. RecordsOnce BY DEF Init, RecordsOnce, WalkPhase, FilePhase, Discovery
<1>2. LockHeld BY DEF Init, ProgressInit, LockHeld
<1>3. PICK c : c = counters OBVIOUS
<1>4. c = [phase |-> "fingerprint", current |-> 0, total |-> 0, durable |-> 0, failures |-> 0]
      /\ c \in CounterType
  BY <1>3 DEF Init, ProgressInit, CounterType, Phases
<1>5. Settling(c) BY <1>3 DEF Init, ProgressInit, Settling
<1>6. Cardinality(Failures) = 0
  <2>1. Failures = {} BY DEF Init, Failures
  <2>. QED BY <2>1, FS_EmptySet
<1>7. Exact(c) BY <1>4, <1>6 DEF Init, Exact, Whole, WalkPhase, FilePhase, Discovery
<1>8. Onward(c) BY <1>7 DEF Init, ProgressInit, Onward
<1>. QED BY <1>1, <1>2, <1>4, <1>5, <1>8 DEF Counted, Pending

\* Whatever the heartbeat thread shows (Progress._emit under its lock) belongs to
\* one point of the run: the phase, its own counters, and the failures recorded
\* or one more.  The counters are changed field by field, and calls follow calls.
THEOREM HeartbeatShowsOnePoint ==
    ASSUME KeysTellNames
    PROVE  Spec => []SnapshotsWhole
<1>1. Safe /\ Recorded /\ Ordered /\ Counted /\ [Next]_vars => Counted'
  <2>. SUFFICES ASSUME Safe, Recorded, Ordered, Counted, [Next]_vars PROVE Counted' OBVIOUS
  <2>1. InventoryOrdered /\ RecordsOnce /\ RowsRecorded BY DEF Ordered, Counted, Recorded
  <2>2. CASE Walking BY <2>1, <2>2, WalkingCounted, MainOnce DEF Counted
  <2>3. CASE Discovering BY <2>1, <2>3, DiscoveringCounted, DiscoveringOnce DEF Counted
  <2>4. CASE OneFile BY <2>1, <2>4, OneFileCounted, MainOnce DEF Counted
  <2>5. CASE EndDiscovery \/ StartPublishing \/ PublishRow \/ StartReport \/ StopHeartbeat \/ JoinHeartbeat
    BY <2>1, <2>5, EndDiscoveryCounted, StartPublishingCounted, PublishRowCounted, ReportingCounted, MainOnce
       DEF Counted
  <2>6. CASE OpenStep \/ Counting \/ Beating \/ Disturbance \/ UNCHANGED vars
    BY <2>6, OthersCounted, CountingCounted
  <2>. QED BY <2>2, <2>3, <2>4, <2>5, <2>6 DEF Next, Main
<1>2. Counted => SnapshotsWhole
  <2>. SUFFICES ASSUME Counted, beat = "emitting" PROVE Whole(counters) BY DEF SnapshotsWhole
  <2>1. writes = <<>> BY DEF Counted, LockHeld
  <2>2. PICK c \in CounterType : Settling(c) /\ Onward(c) BY DEF Counted, Pending
  <2>3. c = counters BY <2>1, <2>2 DEF Settling
  <2>4. Whole(c) BY <2>2 DEF Onward, Exact
  <2>. QED BY <2>3, <2>4
<1>3. Safe /\ Recorded /\ [Next]_vars => Recorded'
  BY NextRecorded
<1>4. Safe /\ Ordered /\ [Next]_vars => Ordered'
  BY NextOrdered
<1>. QED BY IntakeSafe, InitRecorded, InitOrdered, InitCounted, <1>1, <1>2, <1>3, <1>4, PTL DEF Spec


-----------------------------------------------------------------------------
(***************************************************************************)
(* The inventory of a source that nobody disturbs: what the walk lists is  *)
(* what there is, each entry as it is.  While the walk is under way, every *)
(* entry has its row, is being hashed, or lies ahead; this holds as long   *)
(* as nothing was replaced.                                                *)
(***************************************************************************)

\* Directories are finitely many and not inside themselves, except through links: each
\* has a level, the length of a longest way to it.
SourceIsTree ==
    /\ IsFiniteSet(Dirs)
    /\ \A t \in Trees : \E level \in [Dirs -> 0 .. Cardinality(Dirs) - 1] :
           \A d \in Dirs, n \in Names :
               PlainDirectory(t[d][n]) => level[t[d][n].to] > level[d]

\* The entry at a path of tree t; a directory, and an entry of another kind, that is
\* reached through directories alone; the row that it must have.
Looks(t, p) ==
    LET dir == Reached(t, Front(p)) IN IF dir \in Dirs THEN t[dir][Last(p)] ELSE Vacant

Plainly(t, p) ==
    p \in Seq(Names) /\ \A i \in 1 .. Len(p) : PlainDirectory(Looks(t, SubSeq(p, 1, i)))

Leaf(t, p) ==
    /\ p \in Seq(Names) /\ p # <<>> /\ Plainly(t, Front(p))
    /\ Looks(t, p) # Vacant /\ ~PlainDirectory(Looks(t, p))

AsFound(t, p) ==
    Row(p, IF IsLinkOrSpecial(Looks(t, p)) THEN "unsafe_entry" ELSE Unread,
           IF PlainFile(Looks(t, p)) THEN Looks(t, p).to ELSE Nothing)

\* Walk w still gets to path p.
ToCome(w, p) ==
    \E k \in DOMAIN w :
        /\ IsStrictPrefix(w[k].path, p)
        /\ w[k].scanned => p[Len(w[k].path) + 1] \in w[k].names

\* A directory being visited, and a file being hashed.
Visiting(t, v) ==
    /\ Plainly(t, v.path)
    /\ v.scanned => \A n \in v.names : t[Reached(t, v.path)][n] # Vacant

InHand(t, o, os) ==
    /\ Leaf(t, o.path) /\ PlainFile(Looks(t, o.path))
    /\ os = "posix" => o.dir = Reached(t, SubSeq(o.path, 1, o.done))
    /\ o.before \in {Nothing, Looks(t, o.path).to}

Listed(inv, row) == \E i \in DOMAIN inv : inv[i] = row

\* Every row is right, and every entry has its row, is at hand, or is still to come.
Accounts(t, w, inv, busy, os) ==
    /\ \A i \in DOMAIN inv : \E p \in Seq(Names) : Leaf(t, p) /\ inv[i] = AsFound(t, p)
    /\ \A k \in DOMAIN w : Visiting(t, w[k])
    /\ \A o \in busy : InHand(t, o, os)
    /\ \A p \in Seq(Names) : Leaf(t, p) =>
           Listed(inv, AsFound(t, p)) \/ ToCome(w, p) \/ \E o \in busy : o.path = p

\* The inductive invariant.
Undisturbed ==
    swaps = MaxSwaps =>
        /\ fs \in Trees
        /\ given = <<>> =>
             /\ pc \in {"walk", "hash"} => Accounts(fs, walk, inventory, opening, platform)
             /\ pc \notin {"start", "walk", "hash"} => Accounts(fs, <<>>, inventory, {}, platform)

-----------------------------------------------------------------------------
\* What a path leads to.

\* at is the function that Reached evaluates, on 0 .. n.
Leads(at, t, p, n) ==
    at = [i \in 0 .. n |-> IF i = 0 THEN Root ELSE Enter(t, at[i - 1], p[i])]

\* Such a function exists.
LEMMA LeadsExists ==
    ASSUME NEW t, NEW p, NEW n \in Nat
    PROVE  \E at : Leads(at, t, p, n)
<1>. DEFINE T == {m \in Nat : ~\E at : Leads(at, t, p, m)}
<1>. SUFFICES ASSUME T # {} PROVE FALSE OBVIOUS
<1>1. PICK m \in T : \A k \in T : m <= k
  <2>1. T \subseteq Nat OBVIOUS
  <2>. HIDE DEF T
  <2>. QED BY <2>1, LeastNumber
<1>2. m \in Nat /\ ~\E at : Leads(at, t, p, m) OBVIOUS
<1>3. CASE m = 0
  <2>. DEFINE g == [i \in 0 .. m |-> Root]
  <2>1. \A i \in 0 .. m : i = 0 BY <1>3
  <2>2. g = [i \in 0 .. m |-> IF i = 0 THEN Root ELSE Enter(t, g[i - 1], p[i])] BY <2>1
  <2>. QED BY <2>2, <1>2 DEF Leads
<1>4. CASE m # 0
  <2>1. m - 1 \in Nat /\ m - 1 \notin T BY <1>1, <1>2, <1>4
  <2>2. PICK f : Leads(f, t, p, m - 1) BY <2>1
  <2>3. f = [i \in 0 .. m - 1 |-> IF i = 0 THEN Root ELSE Enter(t, f[i - 1], p[i])] BY <2>2 DEF Leads
  <2>4. \A i \in 0 .. m - 1 : f[i] = IF i = 0 THEN Root ELSE Enter(t, f[i - 1], p[i]) BY ONLY <2>3
  <2>. DEFINE h(i) == IF i < m THEN f[i] ELSE Enter(t, f[i - 1], p[i])
              g == [i \in 0 .. m |-> h(i)]
              r(i) == IF i = 0 THEN Root ELSE Enter(t, g[i - 1], p[i])
  <2>5. ASSUME NEW i \in 0 .. m PROVE h(i) = r(i)
    <3>1. CASE i = 0 BY <3>1, <2>4, <1>2, <1>4
    <3>2. CASE i # 0
      <4>1. i - 1 \in 0 .. m /\ i - 1 < m /\ i \in Nat BY <3>2, <1>2
      <4>2. g[i - 1] = f[i - 1] BY <4>1
      <4>. HIDE DEF g
      <4>3. CASE i < m
        <5>1. i \in 0 .. m - 1 BY <4>3, <1>2
        <5>2. f[i] = Enter(t, f[i - 1], p[i]) BY <5>1, <3>2, <2>4
        <5>. QED BY <5>2, <4>2, <4>3, <3>2
      <4>4. CASE ~(i < m) BY <4>2, <4>4, <3>2
      <4>. QED BY <4>3, <4>4
    <3>. QED BY <3>1, <3>2
  <2>6. g = [i \in 0 .. m |-> r(i)]
    <3>. HIDE DEF h, r
    <3>. QED BY <2>5
  <2>7. Leads(g, t, p, m) BY ONLY <2>6 DEF Leads
  <2>. QED BY <2>7, <1>2
<1>. QED BY <1>3, <1>4

\* A path leads step by step from the root.
LEMMA ReachedBySteps ==
    ASSUME NEW t, NEW p, Len(p) \in Nat
    PROVE  \E at : /\ at[0] = Root
                   /\ \A i \in 1 .. Len(p) : at[i] = Enter(t, at[i - 1], p[i])
                   /\ Reached(t, p) = at[Len(p)]
<1>. DEFINE at == CHOOSE f : Leads(f, t, p, Len(p))
<1>1. Reached(t, p) = at[Len(p)] BY DEF Reached, Leads
<1>2. Leads(at, t, p, Len(p))
  <2>1. \E f : Leads(f, t, p, Len(p)) BY LeadsExists
  <2>. QED BY <2>1
<1>. HIDE DEF at
<1>3. \A i \in 0 .. Len(p) : at[i] = IF i = 0 THEN Root ELSE Enter(t, at[i - 1], p[i])
  <2>1. at = [i \in 0 .. Len(p) |-> IF i = 0 THEN Root ELSE Enter(t, at[i - 1], p[i])] BY <1>2 DEF Leads
  <2>. QED BY ONLY <2>1
<1>4. at[0] = Root BY <1>3
<1>5. \A i \in 1 .. Len(p) : at[i] = Enter(t, at[i - 1], p[i]) BY <1>3
<1>. QED BY <1>1, <1>4, <1>5

\* One name further.
LEMMA ReachedAppend ==
    ASSUME NEW t, NEW p \in Seq(Names), NEW n \in Names
    PROVE  Reached(t, Append(p, n)) = Enter(t, Reached(t, p), n)
<1>1. Len(p) \in Nat BY LenProperties
<1>2. PICK q : q = Append(p, n) OBVIOUS
<1>3. /\ Len(q) = Len(p) + 1 /\ q[Len(p) + 1] = n
      /\ \A i \in 1 .. Len(p) : q[i] = p[i]
  BY <1>2, AppendProperties
<1>4. PICK f : f[0] = Root /\ (\A i \in 1 .. Len(p) : f[i] = Enter(t, f[i - 1], p[i])) /\ Reached(t, p) = f[Len(p)]
  BY <1>1, ReachedBySteps
<1>5. Len(q) \in Nat BY <1>1, <1>3
<1>6. PICK g : g[0] = Root /\ (\A i \in 1 .. Len(q) : g[i] = Enter(t, g[i - 1], q[i])) /\ Reached(t, q) = g[Len(q)]
  BY <1>5, ReachedBySteps
<1>7. \A i \in 1 .. Len(p) : g[i] = Enter(t, g[i - 1], q[i]) BY <1>1, <1>3, <1>6
<1>8. f[Len(p)] = g[Len(p)]
  <2>. DEFINE T == {m \in 0 .. Len(p) : f[m] # g[m]}
  <2>. SUFFICES ASSUME T # {} PROVE FALSE BY <1>1
  <2>1. PICK m \in T : \A k \in T : m <= k
    <3>1. T \subseteq Nat BY <1>1
    <3>. HIDE DEF T
    <3>. QED BY <3>1, LeastNumber
  <2>2. m \in 1 .. Len(p) /\ m - 1 \in 0 .. Len(p) /\ m - 1 \notin T BY <1>1, <1>4, <1>6, <2>1
  <2>3. f[m - 1] = g[m - 1] BY <2>2
  <2>. QED BY <1>3, <1>4, <1>7, <2>1, <2>2, <2>3
<1>9. g[Len(q)] = Enter(t, g[Len(q) - 1], q[Len(q)]) BY <1>1, <1>3, <1>6
<1>10. Len(q) - 1 = Len(p) /\ q[Len(q)] = n BY <1>1, <1>3
<1>. QED BY <1>2, <1>4, <1>6, <1>8, <1>9, <1>10

\* The empty path leads to the root.
LEMMA ReachedRoot == ASSUME NEW t PROVE Reached(t, <<>>) = Root
<1>1. Len(<<>>) = 0 /\ Len(<<>>) \in Nat OBVIOUS
<1>. QED BY <1>1, ReachedBySteps

\* What a path with one more name is.
LEMMA LongerPath ==
    ASSUME NEW p \in Seq(Names), NEW n \in Names
    PROVE  /\ Append(p, n) \in Seq(Names) /\ Append(p, n) # <<>>
           /\ Len(p) \in Nat /\ Len(Append(p, n)) = Len(p) + 1
           /\ Front(Append(p, n)) = p /\ Last(Append(p, n)) = n
           /\ \A i \in 1 .. Len(p) : SubSeq(Append(p, n), 1, i) = SubSeq(p, 1, i)
           /\ SubSeq(Append(p, n), 1, Len(p) + 1) = Append(p, n)
<1>1. Len(p) \in Nat BY LenProperties
<1>2. PICK q : q = Append(p, n) OBVIOUS
<1>3. /\ q \in Seq(Names) /\ Len(q) = Len(p) + 1 /\ q[Len(p) + 1] = n
      /\ \A i \in 1 .. Len(p) : q[i] = p[i]
  BY <1>2, AppendProperties
<1>4. q # <<>> BY <1>1, <1>3, EmptySeq
<1>5. Last(q) = n BY <1>3 DEF Last
<1>6. ASSUME NEW i \in 1 .. Len(p)
      PROVE  SubSeq(q, 1, i) = SubSeq(p, 1, i)
  <2>1. \A j \in 1 .. i : q[j] = p[j] /\ q[j] \in Names /\ p[j] \in Names /\ j \in 1 .. Len(q)
    BY <1>1, <1>3, ElementOfSeq
  <2>2. i \in Nat /\ i \in Int /\ 1 \in Int /\ i - 1 + 1 = i /\ 1 <= i BY <1>1
  <2>3. /\ SubSeq(q, 1, i) \in Seq(Names) /\ Len(SubSeq(q, 1, i)) = i
        /\ \A j \in 1 .. i : SubSeq(q, 1, i)[j] = q[j]
    BY <2>1, <2>2, SubSeqProperties
  <2>4. /\ SubSeq(p, 1, i) \in Seq(Names) /\ Len(SubSeq(p, 1, i)) = i
        /\ \A j \in 1 .. i : SubSeq(p, 1, i)[j] = p[j]
    BY <2>1, <2>2, SubSeqProperties
  <2>5. \A j \in 1 .. i : SubSeq(q, 1, i)[j] = SubSeq(p, 1, i)[j] BY <2>1, <2>3, <2>4
  <2>. QED BY <2>3, <2>4, <2>5, SeqEqual
<1>7. Front(q) = p
  <2>1. Front(q) \in Seq(Names) /\ Len(Front(q)) = Len(p) /\ \A i \in 1 .. Len(p) : Front(q)[i] = p[i]
    <3>1. /\ Front(q) \in Seq(Names) /\ Len(Front(q)) = Len(q) - 1
          /\ \A i \in 1 .. Len(q) - 1 : Front(q)[i] = q[i]
      BY <1>3, <1>4, FrontLast
    <3>2. Len(q) - 1 = Len(p) BY <1>1, <1>3
    <3>. QED BY <1>3, <3>1, <3>2
  <2>. QED BY <2>1, SeqEqual
<1>8. SubSeq(q, 1, Len(p) + 1) = q BY <1>3, SubSeqFull
<1>. QED BY <1>1, <1>2, <1>3, <1>4, <1>5, <1>6, <1>7, <1>8

\* The entry at a path with one more name.
LEMMA LooksAppend ==
    ASSUME NEW t, NEW p \in Seq(Names), NEW n \in Names
    PROVE  Looks(t, Append(p, n)) = IF Reached(t, p) \in Dirs THEN t[Reached(t, p)][n] ELSE Vacant
BY LongerPath DEF Looks

\* A directory inside a directory.
LEMMA PlainlyAppend ==
    ASSUME NEW t, NEW p \in Seq(Names), NEW n \in Names
    PROVE  Plainly(t, Append(p, n)) <=> Plainly(t, p) /\ PlainDirectory(Looks(t, Append(p, n)))
<1>1. PICK q : q = Append(p, n) OBVIOUS
<1>2. /\ q \in Seq(Names) /\ Len(p) \in Nat /\ Len(q) = Len(p) + 1
      /\ \A i \in 1 .. Len(p) : SubSeq(q, 1, i) = SubSeq(p, 1, i)
      /\ SubSeq(q, 1, Len(p) + 1) = q
  BY <1>1, LongerPath
<1>3. \A i \in 1 .. Len(q) : i \in 1 .. Len(p) \/ i = Len(p) + 1 BY <1>2
<1>4. Len(q) \in 1 .. Len(q) /\ SubSeq(q, 1, Len(q)) = q /\ \A i \in 1 .. Len(p) : i \in 1 .. Len(q) BY <1>2
<1>5. ASSUME Plainly(t, q) PROVE Plainly(t, p) /\ PlainDirectory(Looks(t, q))
  <2>1. \A i \in 1 .. Len(q) : PlainDirectory(Looks(t, SubSeq(q, 1, i))) BY <1>5 DEF Plainly
  <2>2. PlainDirectory(Looks(t, q))
    <3>1. PlainDirectory(Looks(t, SubSeq(q, 1, Len(q)))) BY <1>4, <2>1
    <3>. QED BY <1>4, <3>1
  <2>3. \A i \in 1 .. Len(p) : PlainDirectory(Looks(t, SubSeq(p, 1, i)))
    <3>. SUFFICES ASSUME NEW i \in 1 .. Len(p) PROVE PlainDirectory(Looks(t, SubSeq(p, 1, i))) OBVIOUS
    <3>1. PlainDirectory(Looks(t, SubSeq(q, 1, i))) BY <1>4, <2>1
    <3>2. SubSeq(q, 1, i) = SubSeq(p, 1, i) BY <1>2
    <3>. QED BY <3>1, <3>2
  <2>. QED BY <2>2, <2>3 DEF Plainly
<1>6. ASSUME Plainly(t, p), PlainDirectory(Looks(t, q)) PROVE Plainly(t, q)
  <2>1. ASSUME NEW i \in 1 .. Len(q) PROVE PlainDirectory(Looks(t, SubSeq(q, 1, i)))
    <3>1. CASE i \in 1 .. Len(p)
      <4>1. PlainDirectory(Looks(t, SubSeq(p, 1, i))) BY <1>6, <3>1 DEF Plainly
      <4>2. SubSeq(q, 1, i) = SubSeq(p, 1, i) BY <1>2, <3>1
      <4>. QED BY <4>1, <4>2
    <3>2. CASE i = Len(p) + 1
      <4>1. SubSeq(q, 1, i) = q BY <1>2, <3>2
      <4>. QED BY <4>1, <1>6
    <3>. QED BY <1>3, <3>1, <3>2
  <2>. QED BY <1>2, <2>1 DEF Plainly
<1>. QED BY <1>1, <1>5, <1>6

\* A path that is not empty has a directory and a name.
LEMMA PathSplits ==
    ASSUME NEW p \in Seq(Names), p # <<>>
    PROVE  \E q \in Seq(Names), n \in Names : q = Front(p) /\ n = Last(p) /\ p = Append(q, n)
<1>1. Len(p) \in Nat /\ Len(p) > 0 BY EmptySeq, LenProperties
<1>2. /\ Front(p) \in Seq(Names) /\ Last(p) \in Names /\ Len(Front(p)) = Len(p) - 1
      /\ \A i \in 1 .. Len(p) - 1 : Front(p)[i] = p[i]
  BY FrontLast
<1>3. PICK q \in Seq(Names), n \in Names : q = Front(p) /\ n = Last(p) BY <1>2
<1>4. /\ Append(q, n) \in Seq(Names) /\ Len(Append(q, n)) = Len(p)
      /\ \A i \in 1 .. Len(p) - 1 : Append(q, n)[i] = p[i]
      /\ Append(q, n)[Len(p)] = n
  <2>1. /\ Append(q, n) \in Seq(Names) /\ Len(Append(q, n)) = Len(q) + 1
        /\ \A i \in 1 .. Len(q) : Append(q, n)[i] = q[i]
        /\ Append(q, n)[Len(q) + 1] = n
    BY AppendProperties
  <2>2. Len(q) + 1 = Len(p) /\ Len(q) = Len(p) - 1 BY <1>1, <1>2, <1>3
  <2>. QED BY <1>2, <1>3, <2>1, <2>2
<1>5. n = p[Len(p)] BY <1>3 DEF Last
<1>6. \A i \in 1 .. Len(p) : i \in 1 .. Len(p) - 1 \/ i = Len(p) BY <1>1
<1>7. \A i \in 1 .. Len(p) : Append(q, n)[i] = p[i] BY <1>4, <1>5, <1>6
<1>8. p = Append(q, n) BY <1>4, <1>7, SeqEqual
<1>. QED BY <1>3, <1>8

\* A path of directories leads to a directory of the source.
LEMMA PlainlyLeads ==
    ASSUME NEW t \in Trees, NEW p \in Seq(Names), Plainly(t, p)
    PROVE  Reached(t, p) \in Dirs /\ Reached(t, p) \notin Outside
<1>. DEFINE Inside(q) == Reached(t, q) \in Dirs /\ Reached(t, q) \notin Outside
            T == {m \in Nat : \E q \in Seq(Names) : Len(q) = m /\ Plainly(t, q) /\ ~Inside(q)}
<1>1. Len(p) \in Nat BY LenProperties
<1>. SUFFICES ASSUME T # {} PROVE FALSE BY <1>1
<1>2. PICK m \in T : \A k \in T : m <= k
  <2>1. T \subseteq Nat OBVIOUS
  <2>. HIDE DEF T
  <2>. QED BY <2>1, LeastNumber
<1>3. PICK q \in Seq(Names) : Len(q) = m /\ Plainly(t, q) /\ ~Inside(q) BY <1>2
<1>4. q # <<>> BY <1>3, ReachedRoot, TreeAssumption
<1>5. PICK r \in Seq(Names), n \in Names : q = Append(r, n) BY <1>4, PathSplits
<1>6. Plainly(t, r) /\ PlainDirectory(Looks(t, q)) BY <1>3, <1>5, PlainlyAppend
<1>7. Len(r) \in Nat /\ Len(r) < m
  <2>1. Len(r) \in Nat /\ Len(q) = Len(r) + 1 BY <1>5, LongerPath
  <2>. QED BY <2>1, <1>3
<1>8. Inside(r)
  <2>1. Len(r) \notin T BY <1>2, <1>7
  <2>. QED BY <2>1, <1>6, <1>7
<1>9. PICK d \in Dirs : d = Reached(t, r) /\ d \notin Outside BY <1>8
<1>10. Looks(t, q) = t[d][n] BY <1>5, <1>9, LooksAppend
<1>11. Reached(t, q) = t[d][n].to BY <1>5, <1>9, ReachedAppend DEF Enter
<1>12. LeadsInside(d, t[d][n]) BY TreeAssumption
<1>. QED BY <1>3, <1>6, <1>9, <1>10, <1>11, <1>12 DEF PlainDirectory, LeadsInside

\* It is not longer than there are directories.
LEMMA PathsBounded ==
    ASSUME SourceIsTree, NEW t \in Trees, NEW p \in Seq(Names), Plainly(t, p)
    PROVE  Cardinality(Dirs) \in Nat /\ Len(p) + 1 <= Cardinality(Dirs)
<1>1. Cardinality(Dirs) \in Nat BY FS_CardinalityType DEF SourceIsTree
<1>2. PICK level \in [Dirs -> 0 .. Cardinality(Dirs) - 1] :
          \A d \in Dirs, n \in Names : PlainDirectory(t[d][n]) => level[t[d][n].to] > level[d]
  BY DEF SourceIsTree
<1>. DEFINE T == {m \in Nat : \E q \in Seq(Names) :
                     Len(q) = m /\ Plainly(t, q) /\ ~(level[Reached(t, q)] >= Len(q))}
<1>3. T = {}
  <2>. SUFFICES ASSUME T # {} PROVE FALSE OBVIOUS
  <2>1. PICK m \in T : \A k \in T : m <= k
    <3>1. T \subseteq Nat OBVIOUS
    <3>. HIDE DEF T
    <3>. QED BY <3>1, LeastNumber
  <2>2. PICK q \in Seq(Names) : Len(q) = m /\ Plainly(t, q) /\ ~(level[Reached(t, q)] >= Len(q)) BY <2>1
  <2>3. PICK e \in Dirs : e = Reached(t, q) BY <2>2, PlainlyLeads
  <2>4. level[e] \in Nat /\ ~(level[e] >= m) BY <1>1, <1>2, <2>2, <2>3
  <2>5. q # <<>>
    <3>1. m # 0 BY <2>1, <2>4
    <3>2. Len(<<>>) = 0 OBVIOUS
    <3>. QED BY <2>2, <3>1, <3>2
  <2>6. PICK r \in Seq(Names), n \in Names : q = Append(r, n) BY <2>5, PathSplits
  <2>7. Plainly(t, r) /\ PlainDirectory(Looks(t, q)) BY <2>2, <2>6, PlainlyAppend
  <2>8. Len(r) \in Nat /\ m = Len(r) + 1
    <3>1. Len(r) \in Nat /\ Len(q) = Len(r) + 1 BY <2>6, LongerPath
    <3>. QED BY <3>1, <2>2
  <2>9. PICK d \in Dirs : d = Reached(t, r) BY <2>7, PlainlyLeads
  <2>10. level[d] >= Len(r)
    <3>1. Len(r) < m BY <2>8
    <3>2. Len(r) \notin T
      <4>. HIDE DEF T
      <4>. QED BY <2>1, <2>8, <3>1
    <3>. QED BY <3>2, <2>7, <2>8, <2>9
  <2>11. Looks(t, q) = t[d][n] BY <2>6, <2>9, LooksAppend
  <2>12. e = t[d][n].to BY <2>3, <2>6, <2>9, ReachedAppend DEF Enter
  <2>13. level[e] > level[d] BY <1>2, <2>7, <2>11, <2>12
  <2>14. level[d] \in Nat BY <1>1, <1>2
  <2>. HIDE DEF T
  <2>. QED BY <2>4, <2>8, <2>10, <2>13, <2>14
<1>4. Len(p) \in Nat BY LenProperties
<1>5. PICK e \in Dirs : e = Reached(t, p) BY PlainlyLeads
<1>6. level[e] >= Len(p)
  <2>1. Len(p) \notin T BY <1>3
  <2>. QED BY <2>1, <1>4, <1>5
<1>7. level[e] \in 0 .. Cardinality(Dirs) - 1 BY <1>2
<1>. HIDE DEF T
<1>. QED BY <1>1, <1>4, <1>6, <1>7

\* An entry below a directory is in it, or below one that is in it.
LEMMA NextBelow ==
    ASSUME NEW t, NEW v \in Seq(Names), NEW p, Leaf(t, p), IsStrictPrefix(v, p)
    PROVE  \E n \in Names :
             /\ n = p[Len(v) + 1]
             /\ \/ p = Append(v, n)
                \/ IsStrictPrefix(Append(v, n), p) /\ PlainDirectory(Looks(t, Append(v, n)))
<1>1. p \in Seq(Names) /\ p # <<>> /\ Plainly(t, Front(p)) BY DEF Leaf
<1>2. Len(v) < Len(p) /\ \A i \in 1 .. Len(v) : v[i] = p[i] BY <1>1, StrictPrefixGives
<1>3. Len(v) \in Nat /\ Len(p) \in Nat BY <1>1, LenProperties
<1>4. Len(v) + 1 \in 1 .. Len(p) BY <1>2, <1>3
<1>5. PICK n \in Names : n = p[Len(v) + 1] BY <1>1, <1>4, ElementOfSeq
<1>6. PICK q : q = Append(v, n) OBVIOUS
<1>7. /\ q \in Seq(Names) /\ Len(q) = Len(v) + 1 /\ q[Len(v) + 1] = n
      /\ \A i \in 1 .. Len(v) : q[i] = v[i]
  BY <1>6, AppendProperties
<1>8. \A i \in 1 .. Len(q) : q[i] = p[i]
  <2>1. \A i \in 1 .. Len(q) : i \in 1 .. Len(v) \/ i = Len(v) + 1 BY <1>3, <1>7
  <2>. QED BY <1>2, <1>5, <1>7, <2>1
<1>9. CASE Len(p) = Len(v) + 1
  <2>1. p = q BY <1>1, <1>7, <1>8, <1>9, SeqEqual
  <2>. QED BY <1>5, <1>6, <2>1
<1>10. CASE Len(p) # Len(v) + 1
  <2>1. Len(q) < Len(p) BY <1>2, <1>3, <1>7, <1>10
  <2>2. IsStrictPrefix(q, p) BY <1>1, <1>7, <1>8, <2>1, StrictPrefixFrom
  <2>3. /\ Front(p) \in Seq(Names) /\ Len(Front(p)) = Len(p) - 1
        /\ \A i \in 1 .. Len(p) - 1 : Front(p)[i] = p[i]
    BY <1>1, FrontLast
  <2>4. PICK m \in Nat : m = Len(q) BY <1>3, <1>7
  <2>5. m \in 1 .. Len(Front(p)) /\ 1 <= m /\ m - 1 + 1 = m BY <1>3, <1>7, <2>1, <2>3, <2>4
  <2>6. \A i \in 1 .. m : Front(p)[i] = q[i] /\ Front(p)[i] \in Names
    <3>1. \A i \in 1 .. m : i \in 1 .. Len(Front(p)) /\ i \in 1 .. Len(p) - 1 BY <1>3, <2>3, <2>5
    <3>. QED BY <1>8, <2>3, <2>4, <3>1, ElementOfSeq
  <2>7. /\ SubSeq(Front(p), 1, m) \in Seq(Names) /\ Len(SubSeq(Front(p), 1, m)) = m
        /\ \A i \in 1 .. m : SubSeq(Front(p), 1, m)[i] = Front(p)[i]
    <3>. PICK f : f = Front(p) OBVIOUS
    <3>1. m \in Int /\ 1 \in Int /\ \A i \in 1 .. m : f[i] \in Names BY <2>6
    <3>2. /\ SubSeq(f, 1, m) \in Seq(Names)
          /\ Len(SubSeq(f, 1, m)) = IF 1 <= m THEN m - 1 + 1 ELSE 0
          /\ \A i \in 1 .. m - 1 + 1 : SubSeq(f, 1, m)[i] = f[1 + i - 1]
      BY ONLY <3>1, SubSeqProperties
    <3>. QED BY <2>5, <3>2
  <2>8. SubSeq(Front(p), 1, m) = q BY <1>7, <2>4, <2>6, <2>7, SeqEqual
  <2>9. PlainDirectory(Looks(t, q))
    <3>1. PlainDirectory(Looks(t, SubSeq(Front(p), 1, m))) BY <1>1, <2>5 DEF Plainly
    <3>. QED BY <2>8, <3>1
  <2>. QED BY <1>5, <1>6, <2>2, <2>9
<1>. QED BY <1>9, <1>10

\* A row that is added is the last one.
LEMMA RowAdded ==
    ASSUME NEW S, NEW inv \in Seq(S), NEW row
    PROVE  /\ \A i \in DOMAIN Append(inv, row) :
                 Append(inv, row)[i] = row \/ (i \in DOMAIN inv /\ Append(inv, row)[i] = inv[i])
           /\ \A x : Listed(inv, x) => Listed(Append(inv, row), x)
           /\ Listed(Append(inv, row), row)
<1>. DEFINE U == S \cup {row}
<1>1. inv \in Seq(U) /\ row \in U /\ Len(inv) \in Nat BY LenProperties, SeqDef
<1>2. PICK more : more = Append(inv, row) OBVIOUS
<1>3. /\ more \in Seq(U) /\ Len(more) = Len(inv) + 1
      /\ \A i \in 1 .. Len(inv) : more[i] = inv[i]
      /\ more[Len(inv) + 1] = row
  BY <1>1, <1>2, AppendProperties
<1>4. DOMAIN inv = 1 .. Len(inv) /\ DOMAIN more = 1 .. Len(inv) + 1 BY <1>1, <1>3, LenProperties
<1>5. \A i \in DOMAIN more : more[i] = row \/ (i \in DOMAIN inv /\ more[i] = inv[i])
  <2>1. \A i \in DOMAIN more : i \in 1 .. Len(inv) \/ i = Len(inv) + 1 BY <1>1, <1>4
  <2>. QED BY <1>3, <1>4, <2>1
<1>6. \A i \in DOMAIN inv : i \in DOMAIN more /\ more[i] = inv[i] BY <1>1, <1>3, <1>4
<1>7. Len(inv) + 1 \in DOMAIN more BY <1>1, <1>4
<1>. QED BY <1>2, <1>3, <1>5, <1>6, <1>7 DEF Listed

\* Neither a directory nor a file is vacant.
LEMMA VacantFacts ==
    ASSUME NEW e, PlainDirectory(e) \/ PlainFile(e)
    PROVE  e # Vacant /\ ~IsLinkOrSpecial(e)
BY TreeAssumption DEF PlainDirectory, PlainFile, Vacant, IsLinkOrSpecial

\* A directory that is listed has the entries that are below it.
LEMMA ScanAccounts ==
    ASSUME NEW t \in Trees, NEW w \in Seq(WalkType), NEW inv, NEW os, Accounts(t, w, inv, {}, os),
           NEW N \in DOMAIN w, ~w[N].scanned,
           NEW u, u.path = w[N].path, u.scanned,
           u.names = {n \in Names : t[Reached(t, w[N].path)][n] # Vacant},
           NEW w2, DOMAIN w2 = DOMAIN w, w2[N] = u, \A k \in DOMAIN w : k # N => w2[k] = w[k]
    PROVE  Accounts(t, w2, inv, {}, os)
<1>1. PICK v : v = w[N].path /\ v \in Seq(Names) /\ Plainly(t, v)
  BY DEF Accounts, Visiting, Plainly
<1>2. Reached(t, v) \in Dirs BY <1>1, PlainlyLeads
<1>3. \A k \in DOMAIN w2 : Visiting(t, w2[k])
  <2>1. Visiting(t, u) BY <1>1 DEF Visiting
  <2>. QED BY <2>1 DEF Accounts
<1>4. ASSUME NEW p \in Seq(Names), Leaf(t, p), ToCome(w, p) PROVE ToCome(w2, p)
  <2>1. PICK k \in DOMAIN w : /\ IsStrictPrefix(w[k].path, p)
                              /\ w[k].scanned => p[Len(w[k].path) + 1] \in w[k].names
    BY <1>4 DEF ToCome
  <2>2. CASE k # N BY <2>1, <2>2 DEF ToCome
  <2>3. CASE k = N
    <3>1. IsStrictPrefix(v, p) BY <1>1, <2>1, <2>3
    <3>2. PICK n \in Names : /\ n = p[Len(v) + 1]
                             /\ \/ p = Append(v, n)
                                \/ IsStrictPrefix(Append(v, n), p) /\ PlainDirectory(Looks(t, Append(v, n)))
      BY <1>1, <1>4, <3>1, NextBelow
    <3>3. Looks(t, Append(v, n)) # Vacant BY <1>4, <3>2, VacantFacts DEF Leaf
    <3>4. t[Reached(t, v)][n] # Vacant BY <1>1, <1>2, <3>3, LooksAppend
    <3>5. n \in u.names BY <1>1, <3>4
    <3>. QED BY <1>1, <2>3, <3>1, <3>2, <3>5 DEF ToCome
  <2>. QED BY <2>2, <2>3
<1>. QED BY <1>3, <1>4 DEF Accounts

\* An entry that is visited is passed: what is below its directory is still to come, if
\* it is not below this entry.
LEMMA EntryPassed ==
    ASSUME NEW t, NEW w \in Seq(WalkType), NEW N \in DOMAIN w, w[N].scanned,
           NEW v \in Seq(Names), v = w[N].path, NEW n \in Names,
           NEW u, u.path = v, u.scanned, u.names = w[N].names \ {n},
           NEW w2, DOMAIN w2 = DOMAIN w, w2[N] = u, \A k \in DOMAIN w : k # N => w2[k] = w[k],
           NEW p, Leaf(t, p), ToCome(w, p)
    PROVE  \/ ToCome(w2, p)
           \/ p = Append(v, n)
           \/ IsStrictPrefix(Append(v, n), p) /\ PlainDirectory(Looks(t, Append(v, n)))
<1>1. PICK k \in DOMAIN w : /\ IsStrictPrefix(w[k].path, p)
                            /\ w[k].scanned => p[Len(w[k].path) + 1] \in w[k].names
  BY DEF ToCome
<1>2. CASE k # N BY <1>1, <1>2 DEF ToCome
<1>3. CASE k = N
  <2>1. IsStrictPrefix(v, p) /\ p[Len(v) + 1] \in w[N].names BY <1>1, <1>3
  <2>2. PICK m \in Names : /\ m = p[Len(v) + 1]
                           /\ \/ p = Append(v, m)
                              \/ IsStrictPrefix(Append(v, m), p) /\ PlainDirectory(Looks(t, Append(v, m)))
    BY <2>1, NextBelow
  <2>3. CASE m = n BY <2>2, <2>3
  <2>4. CASE m # n
    <3>1. m \in u.names BY <2>1, <2>2, <2>4
    <3>. QED BY <2>1, <2>2, <3>1 DEF ToCome
  <2>. QED BY <2>3, <2>4
<1>. QED BY <1>2, <1>3

\* What is to come without a file is to come with a row for it.
LEMMA RowAccounts ==
    ASSUME NEW t, NEW S, NEW inv \in Seq(S), NEW w, NEW os, NEW path, Leaf(t, path),
           \A i \in DOMAIN inv : \E p \in Seq(Names) : Leaf(t, p) /\ inv[i] = AsFound(t, p),
           \A k \in DOMAIN w : Visiting(t, w[k]),
           \A p \in Seq(Names) : Leaf(t, p) => Listed(inv, AsFound(t, p)) \/ ToCome(w, p) \/ p = path
    PROVE  Accounts(t, w, Append(inv, AsFound(t, path)), {}, os)
<1>1. PICK row : row = AsFound(t, path) OBVIOUS
<1>2. PICK more : more = Append(inv, row) OBVIOUS
<1>3. /\ \A i \in DOMAIN more : more[i] = row \/ (i \in DOMAIN inv /\ more[i] = inv[i])
      /\ \A x : Listed(inv, x) => Listed(more, x)
      /\ Listed(more, row)
  BY <1>2, RowAdded
<1>4. \A i \in DOMAIN more : \E p \in Seq(Names) : Leaf(t, p) /\ more[i] = AsFound(t, p)
  <2>. SUFFICES ASSUME NEW i \in DOMAIN more PROVE \E p \in Seq(Names) : Leaf(t, p) /\ more[i] = AsFound(t, p)
    OBVIOUS
  <2>1. CASE more[i] = row
    <3>1. path \in Seq(Names) BY DEF Leaf
    <3>. QED BY <1>1, <2>1, <3>1
  <2>2. CASE i \in DOMAIN inv /\ more[i] = inv[i] BY <2>2
  <2>. QED BY <1>3, <2>1, <2>2
<1>5. \A p \in Seq(Names) : Leaf(t, p) => Listed(more, AsFound(t, p)) \/ ToCome(w, p)
  <2>. SUFFICES ASSUME NEW p \in Seq(Names), Leaf(t, p) PROVE Listed(more, AsFound(t, p)) \/ ToCome(w, p)
    OBVIOUS
  <2>1. CASE p = path BY <1>1, <1>3, <2>1
  <2>2. CASE p # path
    <3>1. PICK x : x = AsFound(t, p) OBVIOUS
    <3>2. Listed(inv, x) \/ ToCome(w, p) BY <2>2, <3>1
    <3>3. Listed(inv, x) => Listed(more, x) BY <1>3
    <3>. QED BY <3>1, <3>2, <3>3
  <2>. QED BY <2>1, <2>2
<1>. QED BY <1>1, <1>2, <1>4, <1>5 DEF Accounts

-----------------------------------------------------------------------------
\* The steps of the walk.

\* While the walk is between two entries no file is open.
LEMMA WalkAccounts ==
    ASSUME Safe, Undisturbed, swaps = MaxSwaps, given = <<>>, pc = "walk"
    PROVE  /\ fs \in Trees /\ opening = {} /\ walk \in Seq(WalkType) /\ inventory \in Seq(RowType)
           /\ Accounts(fs, walk, inventory, {}, platform)
<1>1. opening = {} BY SafeParts DEF MainTyped, Opening
<1>. QED BY <1>1, SafeParts DEF MainTyped, Undisturbed

\* What is still to be shown of a step that leaves the source alone.
LEMMA StepAccounts ==
    ASSUME Undisturbed, UNCHANGED <<platform, fs, swaps, given>>, pc' \in {"walk", "hash"},
           swaps = MaxSwaps /\ given = <<>> => Accounts(fs, walk', inventory', opening', platform)
    PROVE  Undisturbed'
BY DEF Undisturbed

\* The walk begins with everything ahead.
LEMMA StartWalkUndisturbed ==
    ASSUME Safe, Ordered, Undisturbed, StartWalk PROVE Undisturbed'
<1>1. /\ UNCHANGED <<platform, fs, swaps, given>> /\ pc' = "walk" /\ opening' = opening
      /\ walk' = <<Visit(<<>>)>> /\ inventory' = <<>> /\ opening = {}
  BY SafeParts DEF StartWalk, treeVars, At, Goto, Ordered, MainTyped, Opening
<1>2. PICK v : v = Visit(<<>>) OBVIOUS
<1>3. v.path = <<>> /\ ~v.scanned BY <1>2 DEF Visit
<1>4. Plainly(fs, <<>>)
  <2>1. <<>> \in Seq(Names) /\ Len(<<>>) = 0 OBVIOUS
  <2>2. 1 .. 0 = {} OBVIOUS
  <2>. QED BY <2>1, <2>2 DEF Plainly
<1>5. ASSUME NEW p \in Seq(Names), Leaf(fs, p) PROVE ToCome(<<v>>, p)
  <2>1. Len(p) \in Nat /\ Len(p) > 0 BY <1>5, EmptySeq, LenProperties DEF Leaf
  <2>2. <<>> \in Seq(Names) /\ Len(<<>>) = 0 OBVIOUS
  <2>3. Len(<<>>) < Len(p) /\ \A i \in 1 .. Len(<<>>) : <<>>[i] = p[i]
    <3>1. \A i \in 1 .. 0 : <<>>[i] = p[i] OBVIOUS
    <3>. QED BY <2>1, <2>2, <3>1
  <2>4. IsStrictPrefix(<<>>, p) BY <2>2, <2>3, StrictPrefixFrom
  <2>5. 1 \in DOMAIN <<v>> /\ <<v>>[1] = v OBVIOUS
  <2>. QED BY <1>3, <2>4, <2>5 DEF ToCome
<1>6. \A k \in DOMAIN <<v>> : Visiting(fs, <<v>>[k])
  <2>1. Visiting(fs, v) BY <1>3, <1>4 DEF Visiting
  <2>. QED BY <2>1
<1>7. Accounts(fs, <<v>>, <<>>, {}, platform) BY <1>5, <1>6 DEF Accounts
<1>. QED BY <1>1, <1>2, <1>7, StepAccounts

\* A directory that is there is listed.
LEMMA ScanDirectoryUndisturbed ==
    ASSUME Safe, Undisturbed, ScanDirectory PROVE Undisturbed'
<1>1. /\ UNCHANGED <<platform, fs, swaps, given>> /\ pc = "walk" /\ pc' = "walk" /\ opening' = opening
      /\ walk # <<>> /\ ~Here.scanned
  BY DEF ScanDirectory, AtDirectory, At, treeVars
<1>2. ASSUME swaps = MaxSwaps, given = <<>>
      PROVE  Accounts(fs, walk', inventory', opening', platform)
  <2>1. /\ fs \in Trees /\ opening = {} /\ walk \in Seq(WalkType)
        /\ Accounts(fs, walk, inventory, {}, platform)
    BY <1>1, <1>2, WalkAccounts
  <2>2. PICK N \in DOMAIN walk : Here = walk[N] /\ N = Len(walk) BY <1>1, HereFacts
  <2>3. PICK v : v = Here.path /\ v \in Seq(Names) /\ Plainly(fs, v)
    BY <2>1, <2>2 DEF Accounts, Visiting, Plainly
  <2>4. Follow(Here.path) = Reached(fs, v) /\ Reached(fs, v) \in Dirs
    BY <2>1, <2>3, PlainlyLeads DEF Follow
  <2>5. PICK u : u = [Here EXCEPT !.scanned = TRUE, !.names = {n \in Names : fs[Reached(fs, v)][n] # Vacant}]
    OBVIOUS
  <2>6. walk' = Append(Front(walk), u) /\ inventory' = inventory
    BY <2>4, <2>5 DEF ScanDirectory
  <2>7. Here \in WalkType BY <1>1, HereFacts
  <2>8. u \in WalkType /\ u.scanned /\ u.path = v /\ u.names = {n \in Names : fs[Reached(fs, v)][n] # Vacant}
    BY <2>3, <2>5, <2>7 DEF WalkType
  <2>9. /\ DOMAIN walk' = DOMAIN walk /\ walk'[N] = u
        /\ \A k \in DOMAIN walk : k # N => walk'[k] = walk[k]
    BY <1>1, <2>2, <2>6, <2>8, ReplacedFacts
  <2>10. PICK w2 : w2 = walk' OBVIOUS
  <2>11. /\ DOMAIN w2 = DOMAIN walk /\ w2[N] = u /\ \A k \in DOMAIN walk : k # N => w2[k] = walk[k]
         /\ ~walk[N].scanned /\ u.path = walk[N].path
         /\ u.names = {n \in Names : fs[Reached(fs, walk[N].path)][n] # Vacant}
    BY <1>1, <2>2, <2>3, <2>8, <2>9, <2>10
  <2>12. Accounts(fs, w2, inventory, {}, platform) BY <2>1, <2>8, <2>11, ScanAccounts
  <2>. QED BY <1>1, <2>1, <2>6, <2>10, <2>12
<1>. QED BY <1>1, <1>2, StepAccounts

\* A directory that is left has nothing to come.
LEMMA LeaveDirectoryUndisturbed ==
    ASSUME Safe, Undisturbed, LeaveDirectory PROVE Undisturbed'
<1>1. /\ UNCHANGED <<platform, fs, swaps, given, inventory>> /\ pc = "walk" /\ pc' = "walk"
      /\ opening' = opening /\ walk # <<>> /\ Here.scanned /\ Here.names = {} /\ walk' = Front(walk)
  BY DEF LeaveDirectory, AtDirectory, At, treeVars
<1>2. ASSUME swaps = MaxSwaps, given = <<>>
      PROVE  Accounts(fs, walk', inventory', opening', platform)
  <2>1. opening = {} /\ Accounts(fs, walk, inventory, {}, platform)
    BY <1>1, <1>2, WalkAccounts
  <2>2. PICK N \in DOMAIN walk : Here = walk[N] /\ N = Len(walk) BY <1>1, HereFacts
  <2>3. /\ \A k : k \in DOMAIN walk' <=> k \in DOMAIN walk /\ k # N
        /\ \A k \in DOMAIN walk : k # N => walk'[k] = walk[k]
    BY <1>1, <2>2, FrontFacts
  <2>4. PICK w2 : w2 = walk' OBVIOUS
  <2>5. \A k \in DOMAIN w2 : Visiting(fs, w2[k]) BY <2>1, <2>3, <2>4 DEF Accounts
  <2>6. \A p : ToCome(walk, p) => ToCome(w2, p) BY <1>1, <2>2, <2>3, <2>4 DEF ToCome
  <2>7. Accounts(fs, w2, inventory, {}, platform) BY <2>1, <2>5, <2>6 DEF Accounts
  <2>. QED BY <1>1, <2>1, <2>4, <2>7
<1>. QED BY <1>1, <1>2, StepAccounts

\* The beginnings of a path.
LEMMA PathBegins ==
    ASSUME NEW p \in Seq(Names), NEW i \in 0 .. Len(p)
    PROVE  /\ SubSeq(p, 1, i) \in Seq(Names) /\ Len(SubSeq(p, 1, i)) = i
           /\ \A j \in 1 .. i : SubSeq(p, 1, i)[j] = p[j]
<1>1. Len(p) \in Nat BY LenProperties
<1>2. i \in Int /\ 1 \in Int /\ i \in Nat /\ i - 1 + 1 = i BY <1>1
<1>3. \A j \in 1 .. i : p[j] \in Names BY <1>1, ElementOfSeq
<1>4. /\ SubSeq(p, 1, i) \in Seq(Names)
      /\ Len(SubSeq(p, 1, i)) = IF 1 <= i THEN i - 1 + 1 ELSE 0
      /\ \A j \in 1 .. i - 1 + 1 : SubSeq(p, 1, i)[j] = p[1 + j - 1]
  BY ONLY <1>2, <1>3, SubSeqProperties
<1>. QED BY <1>2, <1>4

\* The same, one name longer.
LEMMA PathBeginsNext ==
    ASSUME NEW p \in Seq(Names), NEW i \in Nat, i < Len(p)
    PROVE  /\ SubSeq(p, 1, i) \in Seq(Names) /\ p[i + 1] \in Names
           /\ SubSeq(p, 1, i + 1) = Append(SubSeq(p, 1, i), p[i + 1])
<1>1. Len(p) \in Nat BY LenProperties
<1>2. i \in 0 .. Len(p) /\ i + 1 \in 0 .. Len(p) /\ i + 1 \in 1 .. Len(p) BY <1>1
<1>3. PICK q \in Seq(Names), n \in Names : q = SubSeq(p, 1, i) /\ n = p[i + 1]
  BY <1>2, PathBegins, ElementOfSeq
<1>4. Len(q) = i /\ \A j \in 1 .. i : q[j] = p[j] BY <1>2, <1>3, PathBegins
<1>5. PICK r \in Seq(Names) : r = SubSeq(p, 1, i + 1) BY <1>2, PathBegins
<1>6. Len(r) = i + 1 /\ \A j \in 1 .. i + 1 : r[j] = p[j] BY <1>2, <1>5, PathBegins
<1>7. /\ Append(q, n) \in Seq(Names) /\ Len(Append(q, n)) = i + 1
      /\ \A j \in 1 .. i : Append(q, n)[j] = q[j]
      /\ Append(q, n)[i + 1] = n
  BY <1>4, AppendProperties
<1>8. \A j \in 1 .. i + 1 : j \in 1 .. i \/ j = i + 1 OBVIOUS
<1>9. \A j \in 1 .. i + 1 : r[j] = Append(q, n)[j] BY <1>3, <1>4, <1>6, <1>7, <1>8
<1>10. r = Append(q, n) BY <1>6, <1>7, <1>9, SeqEqual
<1>. QED BY <1>3, <1>5, <1>10

\* An entry is in a directory of the source, and its ancestors are directories.
LEMMA LeafFacts ==
    ASSUME NEW t \in Trees, NEW p, Leaf(t, p)
    PROVE  /\ p \in Seq(Names) /\ Len(p) \in Nat /\ Len(p) > 0
           /\ \A i \in 1 .. Len(p) - 1 : PlainDirectory(Looks(t, SubSeq(p, 1, i)))
           /\ \E d \in Dirs, n \in Names :
                /\ d = Reached(t, SubSeq(p, 1, Len(p) - 1)) /\ n = p[Len(p)] /\ d \notin Outside
                /\ Looks(t, p) = t[d][n] /\ Reached(t, p) = t[d][n].to
<1>1. p \in Seq(Names) /\ p # <<>> /\ Plainly(t, Front(p)) BY DEF Leaf
<1>2. Len(p) \in Nat /\ Len(p) > 0 BY <1>1, EmptySeq, LenProperties
<1>3. PICK q \in Seq(Names), n \in Names : q = Front(p) /\ n = Last(p) /\ p = Append(q, n)
  BY <1>1, PathSplits
<1>4. PICK d \in Dirs : d = Reached(t, q) /\ d \notin Outside BY <1>1, <1>3, PlainlyLeads
<1>5. Looks(t, p) = t[d][n] BY <1>3, <1>4, LooksAppend
<1>6. Reached(t, p) = t[d][n].to BY <1>3, <1>4, ReachedAppend DEF Enter
<1>7. q = SubSeq(p, 1, Len(p) - 1) /\ n = p[Len(p)] BY <1>3 DEF Front, Last
<1>8. \A i \in 1 .. Len(p) - 1 : PlainDirectory(Looks(t, SubSeq(p, 1, i)))
  <2>. SUFFICES ASSUME NEW i \in 1 .. Len(p) - 1 PROVE PlainDirectory(Looks(t, SubSeq(p, 1, i))) OBVIOUS
  <2>1. Len(p) = Len(q) + 1 /\ Len(q) \in Nat
    <3>1. Len(Append(q, n)) = Len(q) + 1 /\ Len(q) \in Nat BY LongerPath
    <3>. QED BY <1>3, <3>1
  <2>2. i \in 1 .. Len(q) BY <2>1
  <2>3. SubSeq(Append(q, n), 1, i) = SubSeq(q, 1, i) BY <2>2, LongerPath
  <2>4. PlainDirectory(Looks(t, SubSeq(q, 1, i))) BY <1>1, <1>3, <2>2 DEF Plainly
  <2>. QED BY <1>3, <2>3, <2>4
<1>. QED BY <1>1, <1>2, <1>4, <1>5, <1>6, <1>7, <1>8

\* lstat sees what the tree has.
LEMMA LstatLooks == ASSUME NEW p PROVE Lstat(p) = Looks(fs, p)
BY DEF Lstat, Looks, Follow

\* An entry is passed, or is a directory below which the rest lies, or a file that is
\* opened.
LEMMA VisitEntryUndisturbed ==
    ASSUME Safe, Undisturbed, NEW n \in Names, VisitEntry(n) PROVE Undisturbed'
<1>. DEFINE path == Append(Here.path, n)
            u == [Here EXCEPT !.names = @ \ {n}]
<1>1. /\ UNCHANGED <<platform, fs, swaps, given>> /\ pc = "walk" /\ pc' \in {"walk", "hash"}
      /\ walk # <<>> /\ Here.scanned /\ n \in Here.names
  BY DEF VisitEntry, AtDirectory, At, Goto
<1>2. ASSUME swaps = MaxSwaps, given = <<>>
      PROVE  Accounts(fs, walk', inventory', opening', platform)
  <2>1. /\ fs \in Trees /\ opening = {} /\ walk \in Seq(WalkType) /\ inventory \in Seq(RowType)
        /\ Accounts(fs, walk, inventory, {}, platform)
    BY <1>1, <1>2, WalkAccounts
  <2>2. PICK N \in DOMAIN walk : Here = walk[N] /\ N = Len(walk) BY <1>1, HereFacts
  <2>3. PICK v : v = Here.path /\ v \in Seq(Names) /\ Plainly(fs, v)
    BY <2>1, <2>2 DEF Accounts, Visiting, Plainly
  <2>4. PICK p : p = Append(v, n) OBVIOUS
  <2>5. p \in Seq(Names) /\ p # <<>> /\ Front(p) = v BY <2>3, <2>4, LongerPath
  <2>6. PICK d \in Dirs : d = Reached(fs, v) BY <2>1, <2>3, PlainlyLeads
  <2>7. PICK e : e = Looks(fs, p) /\ e = fs[d][n] BY <2>3, <2>4, <2>6, LooksAppend
  <2>8. e # Vacant
    <3>1. fs[Reached(fs, walk[N].path)][n] # Vacant BY <1>1, <2>1, <2>2 DEF Accounts, Visiting
    <3>. QED BY <2>2, <2>3, <2>6, <2>7, <3>1
  <2>9. Lstat(path) = e /\ path = p BY <2>3, <2>4, <2>7, LstatLooks
  <2>10. Here \in WalkType BY <1>1, HereFacts
  <2>11. u \in WalkType /\ u.scanned /\ u.path = v /\ u.names = Here.names \ {n}
    BY <1>1, <2>3, <2>10 DEF WalkType
  <2>. HIDE DEF u, path
  <2>12. PICK rest : rest = Append(Front(walk), u) OBVIOUS
  <2>13. /\ rest \in Seq(WalkType) /\ DOMAIN rest = DOMAIN walk /\ rest[N] = u
         /\ \A k \in DOMAIN walk : k # N => rest[k] = walk[k]
    BY <1>1, <2>2, <2>11, <2>12, ReplacedFacts
  <2>14. \A k \in DOMAIN rest : Visiting(fs, rest[k])
    <3>1. Visiting(fs, walk[N]) BY <2>1 DEF Accounts
    <3>2. Visiting(fs, u) BY <1>1, <2>2, <2>3, <2>11, <3>1 DEF Visiting
    <3>. QED BY <2>1, <2>13, <3>2 DEF Accounts
  <2>15. ASSUME NEW q \in Seq(Names), Leaf(fs, q)
         PROVE  \/ Listed(inventory, AsFound(fs, q)) \/ ToCome(rest, q) \/ q = p
                \/ IsStrictPrefix(p, q) /\ PlainDirectory(e)
    <3>1. CASE Listed(inventory, AsFound(fs, q)) BY <3>1
    <3>2. CASE ToCome(walk, q)
      <4>1. walk[N].scanned /\ v = walk[N].path /\ u.names = walk[N].names \ {n}
        BY <1>1, <2>2, <2>3, <2>11
      <4>2. \/ ToCome(rest, q) \/ q = Append(v, n)
            \/ IsStrictPrefix(Append(v, n), q) /\ PlainDirectory(Looks(fs, Append(v, n)))
        BY <2>1, <2>3, <2>11, <2>13, <2>15, <3>2, <4>1, EntryPassed
      <4>. QED BY <2>4, <2>7, <4>2
    <3>. QED BY <2>1, <2>15, <3>1, <3>2 DEF Accounts
  <2>16. ~PlainDirectory(e) => Leaf(fs, p) BY <2>3, <2>5, <2>7, <2>8 DEF Leaf
  <2>17. CASE e # Vacant /\ IsLinkOrSpecial(e) /\ List(Row(p, "unsafe_entry", Nothing)) /\ walk' = rest /\ UNCHANGED opening
    <3>1. ~PlainDirectory(e) /\ ~PlainFile(e) BY <2>17, VacantFacts
    <3>2. AsFound(fs, p) = Row(p, "unsafe_entry", Nothing) BY <2>7, <2>17, <3>1 DEF AsFound
    <3>3. inventory' = Append(inventory, AsFound(fs, p)) BY <2>17, <3>2 DEF List
    <3>4. \A q \in Seq(Names) : Leaf(fs, q) => Listed(inventory, AsFound(fs, q)) \/ ToCome(rest, q) \/ q = p
      BY <2>15, <3>1
    <3>5. \A i \in DOMAIN inventory : \E q \in Seq(Names) : Leaf(fs, q) /\ inventory[i] = AsFound(fs, q)
      BY <2>1 DEF Accounts
    <3>6. Accounts(fs, rest, Append(inventory, AsFound(fs, p)), {}, platform)
      BY <2>1, <2>14, <2>16, <3>1, <3>4, <3>5, RowAccounts
    <3>. QED BY <2>1, <2>17, <3>3, <3>6
  <2>18. CASE PlainDirectory(e) /\ walk' = Append(rest, Visit(p)) /\ UNCHANGED <<opening, inventory>>
    <3>1. PICK x : x = Visit(p) OBVIOUS
    <3>2. x.path = p /\ ~x.scanned /\ x \in WalkType
      BY <2>5, <3>1 DEF Visit, WalkType
    <3>3. PICK w2 : w2 = Append(rest, x) OBVIOUS
    <3>4. /\ \A k \in DOMAIN rest : k \in DOMAIN w2 /\ w2[k] = rest[k]
          /\ \A k \in DOMAIN w2 : k \in DOMAIN rest \/ w2[k] = x
          /\ \E k \in DOMAIN w2 : w2[k] = x
      <4>1. /\ w2 \in Seq(WalkType) /\ Len(w2) = Len(rest) + 1 /\ Len(rest) \in Nat
            /\ \A k \in 1 .. Len(rest) : w2[k] = rest[k]
            /\ w2[Len(rest) + 1] = x
        BY <2>13, <3>2, <3>3, AppendProperties, LenProperties
      <4>2. DOMAIN rest = 1 .. Len(rest) /\ DOMAIN w2 = 1 .. Len(rest) + 1 BY <2>13, <4>1, LenProperties
      <4>3. \A k \in DOMAIN w2 : k \in DOMAIN rest \/ k = Len(rest) + 1 BY <4>1, <4>2
      <4>4. Len(rest) + 1 \in DOMAIN w2 BY <4>1, <4>2
      <4>5. \A k \in DOMAIN rest : k \in DOMAIN w2 /\ w2[k] = rest[k] BY <4>1, <4>2
      <4>. QED BY <4>1, <4>3, <4>4, <4>5
    <3>5. Visiting(fs, x)
      <4>1. PlainDirectory(Looks(fs, Append(v, n))) BY <2>4, <2>7, <2>18
      <4>2. Plainly(fs, Append(v, n)) BY <2>3, <4>1, PlainlyAppend
      <4>. QED BY <2>4, <3>2, <4>2 DEF Visiting
    <3>6. \A k \in DOMAIN w2 : Visiting(fs, w2[k]) BY <2>14, <3>4, <3>5
    <3>7. ASSUME NEW q \in Seq(Names), Leaf(fs, q)
          PROVE  Listed(inventory, AsFound(fs, q)) \/ ToCome(w2, q)
      <4>1. ToCome(rest, q) => ToCome(w2, q) BY <3>4 DEF ToCome
      <4>2. q # p BY <2>7, <2>18, <3>7 DEF Leaf
      <4>3. IsStrictPrefix(p, q) => ToCome(w2, q) BY <3>2, <3>4 DEF ToCome
      <4>. QED BY <2>15, <3>7, <4>1, <4>2, <4>3
    <3>8. Accounts(fs, w2, inventory, {}, platform) BY <2>1, <3>6, <3>7 DEF Accounts
    <3>. QED BY <2>1, <2>18, <3>1, <3>3, <3>8
  <2>19. CASE PlainFile(e) /\ StartOpen(p) /\ walk' = rest /\ UNCHANGED inventory
    <3>1. ~PlainDirectory(e) BY <2>19, TreeAssumption DEF PlainFile, PlainDirectory
    <3>2. PICK o : opening' = {o} /\ o.path = p /\ o.done = 0 /\ o.dir = Root /\ o.before = Nothing
      <4>1. PICK o : o = [path |-> p, done |-> 0, dir |-> Root, before |-> Nothing] OBVIOUS
      <4>2. opening' = {o} BY <2>19, <4>1 DEF StartOpen
      <4>3. o.path = p /\ o.done = 0 /\ o.dir = Root /\ o.before = Nothing BY <4>1
      <4>. QED BY <4>2, <4>3
    <3>3. SubSeq(p, 1, 0) = <<>>
      <4>1. 0 \in 0 .. Len(p) BY <2>5, LenProperties
      <4>2. SubSeq(p, 1, 0) \in Seq(Names) /\ Len(SubSeq(p, 1, 0)) = 0 BY <2>5, <4>1, PathBegins
      <4>. QED BY <4>2, EmptySeq
    <3>4. InHand(fs, o, platform)
      BY <2>7, <2>16, <2>19, <3>1, <3>2, <3>3, ReachedRoot DEF InHand
    <3>5. \A q \in Seq(Names) : Leaf(fs, q) =>
              Listed(inventory, AsFound(fs, q)) \/ ToCome(rest, q) \/ \E b \in {o} : b.path = q
      BY <2>15, <3>1, <3>2
    <3>6. Accounts(fs, rest, inventory, {o}, platform) BY <2>1, <2>14, <3>4, <3>5 DEF Accounts
    <3>. QED BY <2>19, <3>2, <3>6
  <2>. QED BY <2>8, <2>9, <2>12, <2>17, <2>18, <2>19 DEF VisitEntry, path, u
<1>. QED BY <1>1, <1>2, StepAccounts

\* open_source follows the path of directories that the walk went.
LEMMA StepInHand ==
    ASSUME TreeTypeOK, fs \in Trees, NEW o \in opening, InHand(fs, o, platform),
           OpenGoesOn(o), NEW u \in opening'
    PROVE  u.path = o.path /\ InHand(fs, u, platform)
<1>1. o \in OpenType BY DEF TreeTypeOK, OpenType
<1>2. /\ o.path \in Seq(Names) /\ o.done \in Nat /\ o.done < Len(o.path) /\ o.dir \in Dirs
      /\ Len(o.path) \in Nat
  BY AncestorFacts
<1>3. /\ Leaf(fs, o.path) /\ PlainFile(Looks(fs, o.path)) /\ o.before \in {Nothing, Looks(fs, o.path).to}
      /\ platform = "posix" => o.dir = Reached(fs, SubSeq(o.path, 1, o.done))
  BY DEF InHand
<1>4. CASE platform = "posix"
  <2>1. u = [Passed(o) EXCEPT !.dir = fs[o.dir][Component(o)].to] BY <1>4 DEF OpenGoesOn
  <2>2. /\ u.path = o.path /\ u.done = o.done + 1 /\ u.before = o.before
        /\ u.dir = fs[o.dir][Component(o)].to
    BY <1>1, <2>1 DEF Passed, OpenType
  <2>3. PICK q \in Seq(Names), n \in Names : q = SubSeq(o.path, 1, o.done) /\ n = o.path[o.done + 1]
    BY <1>2, PathBeginsNext
  <2>4. SubSeq(o.path, 1, o.done + 1) = Append(q, n) BY <1>2, <2>3, PathBeginsNext
  <2>5. Reached(fs, Append(q, n)) = Enter(fs, Reached(fs, q), n) BY ReachedAppend
  <2>6. Reached(fs, q) = o.dir BY <1>3, <1>4, <2>3
  <2>7. Component(o) = n BY <2>3 DEF Component
  <2>8. u.dir = Reached(fs, SubSeq(u.path, 1, u.done)) BY <1>2, <2>2, <2>4, <2>5, <2>6, <2>7 DEF Enter
  <2>. QED BY <1>3, <2>2, <2>8 DEF InHand
<1>5. CASE platform = "nt"
  <2>1. u = Passed(o) \/ u = [o EXCEPT !.before = Lstat(o.path).to] BY <1>5 DEF OpenGoesOn
  <2>2. u.path = o.path /\ (u.before = o.before \/ u.before = Looks(fs, o.path).to)
    BY <1>1, <2>1, LstatLooks DEF Passed, OpenType
  <2>. QED BY <1>3, <1>5, <2>2 DEF InHand
<1>. QED BY <1>4, <1>5 DEF OpenGoesOn

\* It comes to the file that the walk saw ...
LEMMA OpensFound ==
    ASSUME TreeTypeOK, fs \in Trees, NEW o \in opening, InHand(fs, o, platform),
           NEW object, Opens(o, object)
    PROVE  Row(o.path, Unread, object) = AsFound(fs, o.path)
<1>1. Leaf(fs, o.path) /\ PlainFile(Looks(fs, o.path)) BY DEF InHand
<1>2. PICK d \in Dirs, n \in Names :
          d = Reached(fs, SubSeq(o.path, 1, Len(o.path) - 1)) /\ n = o.path[Len(o.path)]
          /\ Looks(fs, o.path) = fs[d][n]
  BY <1>1, LeafFacts
<1>3. o.done \in Nat /\ Len(o.path) \in Nat /\ o.done + 1 = Len(o.path)
  BY AncestorFacts DEF Opens, AtLeaf
<1>4. object = Looks(fs, o.path).to
  <2>1. CASE platform = "posix"
    <3>1. o.dir = Reached(fs, SubSeq(o.path, 1, o.done)) /\ o.done = Len(o.path) - 1
      BY <1>3, <2>1 DEF InHand
    <3>2. o.dir = d /\ Component(o) = n BY <1>2, <1>3, <3>1 DEF Component
    <3>3. object = fs[o.dir][Component(o)].to BY <2>1 DEF Opens
    <3>. QED BY <1>2, <3>2, <3>3
  <2>2. CASE platform = "nt"
    <3>1. object = o.before /\ o.before # Nothing BY <2>2 DEF Opens, Proven
    <3>. QED BY <3>1 DEF InHand
  <2>. QED BY <2>1, <2>2 DEF Opens
<1>. QED BY <1>1, <1>4, VacantFacts DEF AsFound

\* ... and is not refused.
LEMMA NotRefused ==
    ASSUME TreeTypeOK, fs \in Trees, NEW o \in opening, InHand(fs, o, platform),
           NEW why, Refuses(o, why)
    PROVE  FALSE
<1>1. Leaf(fs, o.path) /\ PlainFile(Looks(fs, o.path)) /\ o.before \in {Nothing, Looks(fs, o.path).to}
  BY DEF InHand
<1>2. PICK d \in Dirs, n \in Names :
          /\ d = Reached(fs, SubSeq(o.path, 1, Len(o.path) - 1)) /\ n = o.path[Len(o.path)]
          /\ Looks(fs, o.path) = fs[d][n] /\ Reached(fs, o.path) = fs[d][n].to /\ d \notin Outside
  BY <1>1, LeafFacts
<1>3. o.done \in Nat /\ Len(o.path) \in Nat /\ o.done < Len(o.path) /\ o.path \in Seq(Names) /\ o.dir \in Dirs
  BY AncestorFacts
<1>4. ASSUME ~AtLeaf(o)
      PROVE  PlainDirectory(Looks(fs, Ancestor(o))) /\ Looks(fs, Ancestor(o)) # Vacant
  <2>1. o.done + 1 \in 1 .. Len(o.path) - 1 BY <1>3, <1>4 DEF AtLeaf
  <2>2. PlainDirectory(Looks(fs, SubSeq(o.path, 1, o.done + 1))) BY <1>1, <2>1, LeafFacts
  <2>. QED BY <2>2, VacantFacts DEF Ancestor
<1>5. CASE platform = "posix"
  <2>1. o.dir = Reached(fs, SubSeq(o.path, 1, o.done)) BY <1>5 DEF InHand
  <2>2. CASE AtLeaf(o)
    <3>1. o.done = Len(o.path) - 1 /\ o.done + 1 = Len(o.path) BY <1>3, <2>2 DEF AtLeaf
    <3>2. o.dir = d /\ Component(o) = n BY <1>2, <2>1, <3>1 DEF Component
    <3>3. ~PlainFile(fs[o.dir][Component(o)]) BY <1>5, <2>2 DEF Refuses
    <3>. QED BY <1>1, <1>2, <3>2, <3>3
  <2>3. CASE ~AtLeaf(o)
    <3>1. PICK q \in Seq(Names), m \in Names : q = SubSeq(o.path, 1, o.done) /\ m = o.path[o.done + 1]
      BY <1>3, PathBeginsNext
    <3>2. Ancestor(o) = Append(q, m) /\ Component(o) = m
      BY <1>3, <3>1, PathBeginsNext DEF Ancestor, Component
    <3>3. Reached(fs, q) = o.dir BY <2>1, <3>1
    <3>4. Looks(fs, Append(q, m)) = fs[o.dir][m] BY <1>3, <3>3, LooksAppend
    <3>5. ~PlainDirectory(fs[o.dir][Component(o)]) BY <1>5, <2>3 DEF Refuses
    <3>. QED BY <1>4, <2>3, <3>2, <3>4, <3>5
  <2>. QED BY <2>2, <2>3
<1>6. CASE platform = "nt"
  <2>1. CASE ~AtLeaf(o)
    <3>1. Lstat(Ancestor(o)) = Vacant \/ Lstat(Ancestor(o)).link BY <1>6, <2>1 DEF Refuses
    <3>. QED BY <1>4, <2>1, <3>1, LstatLooks DEF PlainDirectory
  <2>2. CASE AtLeaf(o) /\ o.before = Nothing
    <3>1. Lstat(o.path) = Vacant \/ ~PlainFile(Lstat(o.path)) BY <1>6, <2>2 DEF Refuses
    <3>. QED BY <1>1, <3>1, LstatLooks, VacantFacts
  <2>3. CASE AtLeaf(o) /\ o.before # Nothing
    <3>1. PICK e : e = fs[d][n] OBVIOUS
    <3>2. Follow(o.path) = e.to /\ o.before = e.to /\ e.to \in Files /\ ~e.link
      BY <1>1, <1>2, <2>3, <3>1 DEF Follow, PlainFile
    <3>3. e.to \notin Outside
      <4>1. LeadsInside(d, fs[d][n]) BY TreeAssumption
      <4>. QED BY <1>2, <3>1, <3>2, <4>1 DEF LeadsInside
    <3>4. Follow(o.path) \notin Files \/ ~Proven(o, Follow(o.path)) BY <1>6, <2>3 DEF Refuses
    <3>. QED BY <3>2, <3>3, <3>4 DEF Proven
  <2>. QED BY <2>1, <2>2, <2>3
<1>. QED BY <1>5, <1>6 DEF Refuses

\* A step inside open_source during the walk.
LEMMA OpenStepUndisturbed ==
    ASSUME Safe, Undisturbed, OpenStep PROVE Undisturbed'
<1>1. UNCHANGED <<platform, fs, swaps, given, pc, walk, inventory>> BY DEF OpenStep, intakeVars
<1>2. PICK o \in opening : OpenGoesOn(o) BY DEF OpenStep
<1>3. pc \in Opening BY <1>2, SafeParts DEF MainTyped
<1>4. CASE pc = "hash"
  <2>1. ASSUME swaps = MaxSwaps, given = <<>>
        PROVE  Accounts(fs, walk, inventory, opening', platform)
    <3>1. fs \in Trees /\ Accounts(fs, walk, inventory, opening, platform) BY <1>4, <2>1 DEF Undisturbed
    <3>2. TreeTypeOK /\ \A x, y \in opening : x = y BY SafeParts DEF TreeTypeOK
    <3>3. InHand(fs, o, platform) BY <3>1 DEF Accounts
    <3>4. \A u \in opening' : u.path = o.path /\ InHand(fs, u, platform)
      BY <1>2, <3>1, <3>2, <3>3, StepInHand
    <3>5. opening' # {} BY <1>1, <1>2, <3>2, OpenStepType
    <3>6. PICK busy : busy = opening' OBVIOUS
    <3>7. \A p : (\E x \in opening : x.path = p) => \E x \in busy : x.path = p
      BY <3>2, <3>4, <3>5, <3>6
    <3>8. Accounts(fs, walk, inventory, busy, platform) BY <3>1, <3>4, <3>6, <3>7 DEF Accounts
    <3>. QED BY <3>6, <3>8
  <2>. QED BY <1>1, <1>4, <2>1, StepAccounts
<1>5. CASE pc # "hash"
  BY <1>1, <1>3, <1>5 DEF Undisturbed, Opening
<1>. QED BY <1>4, <1>5

\* A file is hashed as it was seen; in an undisturbed walk none is refused.
LEMMA HashingUndisturbed ==
    ASSUME Safe, Undisturbed, (\E object \in Files : Hashed(object)) \/ (\E why : NotHashed(why))
    PROVE  Undisturbed'
<1>1. /\ UNCHANGED <<platform, fs, swaps, given, walk>> /\ pc = "hash" /\ pc' = "walk"
  BY DEF Hashed, NotHashed, At, Goto
<1>2. ASSUME swaps = MaxSwaps, given = <<>>
      PROVE  Accounts(fs, walk', inventory', opening', platform)
  <2>1. fs \in Trees /\ Accounts(fs, walk, inventory, opening, platform) BY <1>1, <1>2 DEF Undisturbed
  <2>2. TreeTypeOK /\ inventory \in Seq(RowType) /\ \A x, y \in opening : x = y
    BY SafeParts DEF TreeTypeOK, MainTyped
  <2>3. \A o \in opening : InHand(fs, o, platform) BY <2>1 DEF Accounts
  <2>4. ASSUME NEW why, NotHashed(why) PROVE FALSE
    <3>1. PICK o \in opening : Refuses(o, why) BY <2>4 DEF NotHashed
    <3>. QED BY <2>1, <2>2, <2>3, <3>1, NotRefused
  <2>5. PICK object \in Files : Hashed(object) BY <2>4
  <2>6. PICK o \in opening : Opens(o, object) /\ List(Row(o.path, Unread, object)) BY <2>5 DEF Hashed
  <2>7. opening' = {} BY <2>6 DEF Opens
  <2>8. inventory' = Append(inventory, AsFound(fs, o.path))
    <3>1. Row(o.path, Unread, object) = AsFound(fs, o.path) BY <2>1, <2>2, <2>3, <2>6, OpensFound
    <3>. QED BY <2>6, <3>1 DEF List
  <2>9. Leaf(fs, o.path) BY <2>3 DEF InHand
  <2>10. \A p : (\E x \in opening : x.path = p) => p = o.path BY <2>2
  <2>11. /\ \A i \in DOMAIN inventory : \E p \in Seq(Names) : Leaf(fs, p) /\ inventory[i] = AsFound(fs, p)
         /\ \A k \in DOMAIN walk : Visiting(fs, walk[k])
         /\ \A p \in Seq(Names) : Leaf(fs, p) =>
                Listed(inventory, AsFound(fs, p)) \/ ToCome(walk, p) \/ p = o.path
    BY <2>1, <2>10 DEF Accounts
  <2>12. Accounts(fs, walk, Append(inventory, AsFound(fs, o.path)), {}, platform)
    BY <2>2, <2>9, <2>11, RowAccounts
  <2>. QED BY <1>1, <2>7, <2>8, <2>12
<1>. QED BY <1>1, <1>2, StepAccounts

\* The walk ends when nothing is to come.
LEMMA EndWalkUndisturbed ==
    ASSUME Safe, Undisturbed, EndWalk PROVE Undisturbed'
<1>1. /\ UNCHANGED <<platform, fs, swaps, given, inventory>> /\ pc = "walk" /\ pc' \in {"entry", "source"}
      /\ walk = <<>>
  BY DEF EndWalk, At, Goto, treeVars
<1>2. opening = {} BY <1>1, SafeParts DEF MainTyped, Opening
<1>. QED BY <1>1, <1>2 DEF Undisturbed

\* From discovery on the inventory is only read.
LEMMA LaterUndisturbed ==
    ASSUME Undisturbed,
           \/ Discovering
           \/ EndDiscovery \/ StartPublishing \/ PublishRow \/ StartReport \/ StopHeartbeat \/ JoinHeartbeat
    PROVE  Undisturbed'
<1>1. /\ UNCHANGED <<platform, fs, swaps, given, inventory>>
      /\ pc \notin {"start", "walk", "hash"} /\ pc' \notin {"start", "walk", "hash"}
  <2>1. CASE Discovering
    BY <2>1 DEF Discovering, TakeRow, ExamineRow, RecordFailure, Peek, PeekBlocks, Confirm, Ingest,
                IterateMailbox, Identified, Ingested, NotOpened, NextRow, Goto, AtRow, At, treeVars
  <2>2. CASE EndDiscovery \/ StartPublishing \/ PublishRow \/ StartReport \/ StopHeartbeat \/ JoinHeartbeat
    BY <2>2 DEF EndDiscovery, StartPublishing, PublishRow, StartReport, StopHeartbeat, JoinHeartbeat,
                AtRow, At, Goto, treeVars
  <2>. QED BY <2>1, <2>2
<1>. QED BY <1>1 DEF Undisturbed

\* A source that is one file has no inventory to complete.
LEMMA OneFileUndisturbed ==
    ASSUME Safe, Undisturbed, OneFile PROVE Undisturbed'
<1>1. UNCHANGED <<fs, swaps, given>> /\ given # <<>>
  <2>1. UNCHANGED <<fs, swaps, given>>
    BY DEF OneFile, StartFile, FingerprintFile, TakeFile, IterateFile, HashedFile, FileIdentified,
           FileRefused, treeVars
  <2>2. given # <<>>
    BY SafeParts DEF OneFile, StartFile, FingerprintFile, TakeFile, IterateFile, HashedFile,
           FileIdentified, FileRefused, At, MainTyped
  <2>. QED BY <2>1, <2>2
<1>. QED BY <1>1 DEF Undisturbed

\* Counting and beating leave all this alone; a replacement uses up the first chance.
LEMMA OthersUndisturbed ==
    ASSUME Safe, Undisturbed, Counting \/ Beating \/ Disturbance \/ UNCHANGED vars
    PROVE  Undisturbed'
<1>1. CASE Counting \/ Beating \/ UNCHANGED vars
  <2>1. UNCHANGED <<platform, fs, swaps, opening, given, pc, walk, inventory>>
    BY <1>1 DEF Counting, Beating, vars, treeVars, intakeVars
  <2>. QED BY <2>1 DEF Undisturbed
<1>2. CASE Disturbance
  <2>1. swaps' = swaps - 1 BY <1>2 DEF Disturbance, Swap
  <2>2. swaps \in 0 .. MaxSwaps /\ MaxSwaps \in Nat BY SafeParts, TreeAssumption DEF TreeTypeOK
  <2>3. swaps' # MaxSwaps BY <2>1, <2>2
  <2>. QED BY <2>3 DEF Undisturbed
<1>. QED BY <1>1, <1>2

\* At first nothing was replaced, ...
LEMMA InitUndisturbed == Init => Undisturbed
BY DEF Init, TreeInit, Undisturbed

\* ... and every step keeps the account.
LEMMA NextUndisturbed == Safe /\ Ordered /\ Undisturbed /\ [Next]_vars => Undisturbed'
BY StartWalkUndisturbed, ScanDirectoryUndisturbed, VisitEntryUndisturbed, LeaveDirectoryUndisturbed,
   EndWalkUndisturbed, HashingUndisturbed, OpenStepUndisturbed, LaterUndisturbed, OneFileUndisturbed,
   OthersUndisturbed DEF Next, Main, Walking

-----------------------------------------------------------------------------
\* The account of a walk that is over.

\* The front of a path begins as the path does.
LEMMA FrontBegins ==
    ASSUME NEW p \in Seq(Names), p # <<>>
    PROVE  /\ Len(p) \in Nat /\ Len(p) > 0 /\ Front(p) \in Seq(Names) /\ Len(Front(p)) = Len(p) - 1
           /\ \A i \in 1 .. Len(p) - 1 : SubSeq(Front(p), 1, i) = SubSeq(p, 1, i)
<1>1. PICK q \in Seq(Names), n \in Names : q = Front(p) /\ p = Append(q, n) BY PathSplits
<1>2. /\ Len(q) \in Nat /\ Len(p) = Len(q) + 1
      /\ \A i \in 1 .. Len(q) : SubSeq(p, 1, i) = SubSeq(q, 1, i)
  BY <1>1, LongerPath
<1>3. Len(q) = Len(p) - 1 /\ Len(p) > 0 /\ Len(p) \in Nat BY <1>2
<1>. QED BY <1>1, <1>2, <1>3

\* The entries that must be found are those at the paths of Expected.
LEMMA ExpectedPaths ==
    ASSUME SourceIsTree, fs \in Trees, NEW p
    PROVE  Leaf(fs, p) <=>
             /\ p \in Paths
             /\ Lstat(p) # Vacant /\ ~PlainDirectory(Lstat(p))
             /\ \A i \in 1 .. Len(p) - 1 : PlainDirectory(Lstat(SubSeq(p, 1, i)))
<1>1. ASSUME Leaf(fs, p)
      PROVE  p \in Paths
  <2>1. p \in Seq(Names) /\ p # <<>> /\ Plainly(fs, Front(p)) BY <1>1 DEF Leaf
  <2>2. Len(p) \in Nat /\ Len(p) > 0 /\ Front(p) \in Seq(Names) /\ Len(Front(p)) = Len(p) - 1
    BY <2>1, FrontBegins
  <2>3. Cardinality(Dirs) \in Nat /\ Len(Front(p)) + 1 <= Cardinality(Dirs)
    BY <2>1, <2>2, PathsBounded
  <2>4. Len(p) \in 1 .. Cardinality(Dirs) BY <2>2, <2>3
  <2>5. p \in [1 .. Len(p) -> Names] BY <2>1, LenProperties
  <2>. QED BY <2>4, <2>5 DEF Paths
<1>2. ASSUME p \in Paths
      PROVE  p \in Seq(Names) /\ p # <<>>
  <2>1. Cardinality(Dirs) \in Nat BY FS_CardinalityType DEF SourceIsTree
  <2>2. PICK n \in 1 .. Cardinality(Dirs) : p \in [1 .. n -> Names] BY <1>2 DEF Paths
  <2>3. n \in Nat /\ n > 0 BY <2>1
  <2>4. p \in Seq(Names) /\ Len(p) = n BY <2>2, <2>3, FunctionSeq
  <2>. QED BY <2>3, <2>4, EmptySeq
<1>3. ASSUME p \in Seq(Names), p # <<>>
      PROVE  Plainly(fs, Front(p)) <=> \A i \in 1 .. Len(p) - 1 : PlainDirectory(Looks(fs, SubSeq(p, 1, i)))
  <2>1. /\ Front(p) \in Seq(Names) /\ Len(Front(p)) = Len(p) - 1
        /\ \A i \in 1 .. Len(p) - 1 : SubSeq(Front(p), 1, i) = SubSeq(p, 1, i)
    BY <1>3, FrontBegins
  <2>. QED BY <2>1 DEF Plainly
<1>4. \A q : Lstat(q) = Looks(fs, q) BY LstatLooks
<1>. QED BY <1>1, <1>2, <1>3, <1>4 DEF Leaf

\* When discovery begins, the rows are the entries.
LEMMA AccountClosed ==
    ASSUME SourceIsTree, Undisturbed, pc = "entry", swaps = MaxSwaps, given = <<>>
    PROVE  {inventory[i] : i \in DOMAIN inventory} = Expected
<1>1. fs \in Trees /\ Accounts(fs, <<>>, inventory, {}, platform) BY DEF Undisturbed
<1>2. Expected = {AsFound(fs, p) : p \in {p \in Paths : Leaf(fs, p)}}
  <2>1. \A p \in Paths : Leaf(fs, p) <=>
             /\ Lstat(p) # Vacant /\ ~PlainDirectory(Lstat(p))
             /\ \A i \in 1 .. Len(p) - 1 : PlainDirectory(Lstat(SubSeq(p, 1, i)))
    BY <1>1, ExpectedPaths
  <2>2. \A p : AsFound(fs, p) = Row(p, IF IsLinkOrSpecial(Lstat(p)) THEN "unsafe_entry" ELSE Unread,
                                       IF PlainFile(Lstat(p)) THEN Lstat(p).to ELSE Nothing)
    BY LstatLooks DEF AsFound
  <2>. QED BY <2>1, <2>2 DEF Expected
<1>3. \A p \in Seq(Names) : Leaf(fs, p) => Listed(inventory, AsFound(fs, p))
  <2>1. \A p : ~ToCome(<<>>, p) BY DEF ToCome
  <2>. QED BY <1>1, <2>1 DEF Accounts
<1>4. \A p : Leaf(fs, p) => p \in Paths /\ p \in Seq(Names) BY <1>1, ExpectedPaths DEF Leaf
<1>5. ASSUME NEW x \in Expected PROVE x \in {inventory[i] : i \in DOMAIN inventory}
  <2>1. PICK p \in Paths : Leaf(fs, p) /\ x = AsFound(fs, p) BY <1>2
  <2>2. Listed(inventory, AsFound(fs, p)) BY <1>3, <1>4, <2>1
  <2>. QED BY <2>1, <2>2 DEF Listed
<1>6. ASSUME NEW i \in DOMAIN inventory PROVE inventory[i] \in Expected
  <2>1. PICK p \in Seq(Names) : Leaf(fs, p) /\ inventory[i] = AsFound(fs, p) BY <1>1 DEF Accounts
  <2>. QED BY <1>2, <1>4, <2>1
<1>. QED BY <1>5, <1>6

\* As long as nothing is replaced, every entry has its row, is being hashed or is ahead
\* of the walk, whatever the heartbeat does.
THEOREM WalkAccountsForAll == Spec => []Undisturbed
BY IntakeSafe, InitUndisturbed, NextUndisturbed, InitOrdered, NextOrdered, PTL DEF Spec

\* The inventory (_walk_directory, _SourceInventory) is in its one order whatever
\* happens to the source, and if nothing does, it has exactly the entries that are
\* reached through directories alone, each as it is: nothing is listed twice or
\* passed over, and no file is refused.
THEOREM InventoryIsComplete ==
    ASSUME SourceIsTree
    PROVE  Spec => []InventoryInOrder
<1>1. Undisturbed /\ InventoryOrdered => InventoryInOrder
  BY AccountClosed DEF InventoryInOrder
<1>. QED BY <1>1, WalkAccountsForAll, InventoryIsOrdered, PTL
=============================================================================
