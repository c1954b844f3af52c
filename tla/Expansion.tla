----------------------------- MODULE Expansion ------------------------------
(***************************************************************************)
(* The expansion of containers during discovery (engine.Processor): a      *)
(* depth-first walk over archives and mail, with the limits of the policy  *)
(* charged on the way down and a failure unwinding to the container it     *)
(* belongs to, whose tentative records are dropped.                        *)
(*                                                                         *)
(* The call stack of _process_blob is the variable stack.  A content is a  *)
(* model value; Shape and Parts say what detection and the adapters find   *)
(* in it.  A position is the path of indices from the source to an item    *)
(* and stands for the sort key, which determines occurrence and container  *)
(* ids.                                                                    *)
(*                                                                         *)
(* ZIP and TAR members are read as streams.  A 7z archive is extracted by  *)
(* py7zr into writers of the adapter, private files that check the limits  *)
(* with every chunk; py7zr, which is not part of this code, gives each     *)
(* folder (solid block) of an archive a thread.  A TAR in a zstandard      *)
(* stream is unpacked into a private file first.                           *)
(***************************************************************************)
EXTENDS Naturals, FiniteSets, SequencesExt

CONSTANTS
    Content,    \* contents of files and members
    NoBody,     \* what a mail part has when it could not be decoded
    Size,       \* Size[content] in bytes
    Shape,      \* Shape[content]: what detection says, see Shapes
    Parts,      \* Parts[content]: members of an archive, leaves of mail
    Unsafe,     \* archives whose listing is refused (encrypted, links, ...)
    Broken,     \* archives found corrupt after their members were read
    Unrolled,   \* Unrolled[content]: the bytes a zstandard stream unpacks to
    Policies,   \* the limits a run may be given
    Sources,    \* the directories it may be given, each a sequence of contents
    Mishaps     \* how often a read may fail or the process die

None == <<>>    \* the limit has no owner; also no position

ArchiveShapes == {"zip", "tar", "7z", "zst"}
Shapes == ArchiveShapes \cup {"plain", "mbox", "message"}

\* hops: message nodes between a mail container and the leaf; whole: an attached
\* message, kept as it is; most: what the expansion ratio lets a member grow to;
\* folder: the block of a 7z archive the member is in.
PartType == [body : Content \cup {NoBody}, declared : Nat, most : Nat, folder : Nat,
             hops : Nat \ {0}, whole : BOOLEAN]

ASSUME ExpansionAssumption ==
    /\ NoBody \notin Content
    /\ Size \in [Content -> Nat]
    /\ Shape \in [Content -> Shapes] /\ Unrolled \in [Content -> Nat]
    /\ \A c \in Content : Parts[c] \in Seq(PartType)
    /\ \A c \in Content : \A i \in DOMAIN Parts[c] :
         /\ Shape[c] \in ArchiveShapes => Parts[c][i].body \in Content
         /\ Shape[c] \in {"tar", "zst"} => Parts[c][i].declared = Size[Parts[c][i].body]
    /\ Sources \subseteq Seq(Content) /\ Mishaps \in Nat

LimitNames == {"depth", "partsPerContainer", "partsPerRun", "memberBytes", "containerBytes", "runBytes"}

\* Policy.validate.
ValidPolicy(q) ==
    /\ q \in [LimitNames -> Nat \ {0}]
    /\ q.partsPerContainer <= q.partsPerRun
    /\ q.memberBytes <= q.containerBytes /\ q.containerBytes <= q.runBytes

ASSUME PolicyAssumption == \A q \in Policies : ValidPolicy(q)

VARIABLES
    source,     \* the content of each source file, in order
    policy,
    todo,       \* the next source file
    stack,      \* containers being expanded, outermost first
    item,       \* {} or {the staged blob that is to be classified}
    failing,    \* {} or {the container failure that is unwinding}
    private,    \* {} or {the private files of the archive being staged}
    used,       \* Accounting: members and bytes of the run
    outgoing,   \* records on their way into the journal
    journal,    \* the occurrence and container records
    mishaps     \* those that may still happen

vars == <<source, policy, todo, stack, item, failing, private, used, outgoing, journal, mishaps>>

Mishap == mishaps > 0 /\ mishaps' = mishaps - 1

Top == Last(stack)
Below == Front(stack)

\* A mailbox among the source files is walked without a container of its own:
\* no budget, no buffer, no ancestor digest.
IsContainer(f) == f.kind # "source"
Containers == {i \in DOMAIN stack : IsContainer(stack[i])}
Ancestors == {stack[i].body : i \in Containers}

\* Mutant: the budgets of the containers around the innermost are not consulted.
InnermostBudget == Containers \cap {Len(stack)}

Budgets == Containers

\* What the numbers of a sequence add up to.
Sum(s) ==
    LET partial[n \in 0 .. Len(s)] == IF n = 0 THEN 0 ELSE partial[n - 1] + s[n] IN
    partial[Len(s)]

Unused == [members |-> 0, bytes |-> 0]

Init ==
    /\ source \in Sources
    /\ policy \in Policies
    /\ todo = 1
    /\ stack = <<>>
    /\ item = {}
    /\ failing = {}
    /\ private = {}
    /\ used = Unused
    /\ outgoing = {}
    /\ journal = {}
    /\ mishaps = Mishaps

-----------------------------------------------------------------------------
\* Records and where they go (_RecordSink, _RecordBuffer, Journal upserts).

ContainerRec(pos, body, status) == [kind |-> "container", at |-> pos, body |-> body, status |-> status]
BlobRec(pos, body, status) == [kind |-> "blob", at |-> pos, body |-> body, status |-> status]
FailureRec(pos, reason) == [kind |-> "failure", at |-> pos, body |-> NoBody, status |-> reason]

\* The id of a failure has its reason hashed in, that of a container its digest.
SameId(r, s) ==
    /\ r.kind = s.kind /\ r.at = s.at
    /\ r.kind = "failure" => r.status = s.status
    /\ r.kind = "container" => r.body = s.body

Upsert(r) == journal' = {s \in journal : ~SameId(r, s)} \cup {r}

\* What _container_failure records.
Rejection(pos, body) == {ContainerRec(pos, body, "unprocessed"), BlobRec(pos, body, "unprocessed")}

\* The stack becomes st and its top frame, or the journal, receives recs.
Deposit(st, recs) ==
    IF st # <<>> /\ IsContainer(Last(st))
      THEN /\ stack' = Append(Front(st), [Last(st) EXCEPT !.buffer = @ \cup recs])
           /\ UNCHANGED outgoing
      ELSE /\ stack' = st
           /\ outgoing' = recs

\* _RecordBuffer.flush: one transaction for each record, containers first.
\* Mutant: records are written in the order in which they were made.
NextToWrite(r) == r \in outgoing

ContainersFirst(r) == r \in outgoing /\ (r.kind = "container" \/ \A s \in outgoing : s.kind # "container")

WriteRecord(r) ==
    /\ ContainersFirst(r)
    /\ Upsert(r)
    /\ outgoing' = outgoing \ {r}
    /\ UNCHANGED <<source, policy, private, todo, stack, item, failing, used, mishaps>>

-----------------------------------------------------------------------------
\* Limits.  A check finds nothing or one failure, with its reason and its owner;
\* the first check that finds one ends a sequence of them.

Failure(reason, owner) == [reason |-> reason, owner |-> owner]
Exceeds(over, reason) == IF over THEN {Failure(reason, None)} ELSE {}
first ?? second == IF first # {} THEN first ELSE second

\* ContainerAccounting.preflight, outermost first.
Overrun(bytes) == {i \in Budgets : stack[i].spent + bytes > policy.containerBytes}
ContainerLimits(bytes) ==
    {Failure("container size", stack[i].at) : i \in {j \in Overrun(bytes) : \A k \in Overrun(bytes) : j <= k}}

\* Accounting.preflight, then that of the containers.
Preflight(members, bytes) ==
    Exceeds(used.members + members > policy.partsPerRun, "run count")
    ?? Exceeds(used.bytes + bytes > policy.runBytes, "run size")
    ?? ContainerLimits(bytes)

\* Processor._preflight_payload.
PayloadLimits(bytes) ==
    Exceeds(bytes > policy.memberBytes, "member size") ?? Preflight(1, bytes)

\* containers._stream_bound: the first of the tightest bounds; only ZIP and 7z
\* know a compressed size to take a ratio of.
Bound(rank, room, reason, owner) == [rank |-> rank, room |-> room, reason |-> reason, owner |-> owner]
MemberBound == Bound(0, policy.memberBytes, "member size", None)

Bounds(part) ==
    {MemberBound, Bound(1, policy.runBytes - used.bytes, "run size", None)}
    \cup {Bound(1 + i, policy.containerBytes - stack[i].spent, "container size", stack[i].at) : i \in Budgets}
    \cup (IF Shape[Top.body] \in {"zip", "7z"}
            THEN {Bound(2 + Len(stack), part.most, "ratio", None)} ELSE {})

Tightest(bounds) ==
    {b \in bounds : \A c \in bounds : b.room < c.room \/ (b.room = c.room /\ b.rank <= c.rank)}

\* _charge_payload, _charge_observed: the run and every active container.
\* Mutant: only the innermost container is charged.
ChargedInnermost(bytes) ==
    [stack EXCEPT ![Len(stack)].spent = @ + bytes]

ChargedStack(bytes) ==
    [i \in DOMAIN stack |-> [stack[i] EXCEPT !.spent = IF IsContainer(stack[i]) THEN @ + bytes ELSE @]]

ChargedRun(bytes) == [members |-> used.members + 1, bytes |-> used.bytes + bytes]

-----------------------------------------------------------------------------
\* Source files (_discover, _ingest_path).

Idle == outgoing = {} /\ item = {} /\ failing = {}
Pick(pos, body, depth, whole) == {[at |-> pos, body |-> body, depth |-> depth, whole |-> whole]}
Frame(kind, pos, body, depth, phase) ==
    [kind |-> kind, at |-> pos, body |-> body, depth |-> depth, phase |-> phase,
     next |-> 1, spent |-> 0, buffer |-> {}]

AtSource == Idle /\ stack = <<>> /\ todo \in DOMAIN source

OpenMailbox ==
    /\ AtSource /\ Shape[source[todo]] = "mbox"
    /\ stack' = <<Frame("source", <<todo>>, source[todo], 0, "parts")>>
    /\ todo' = todo + 1
    /\ UNCHANGED <<source, policy, private, item, failing, used, outgoing, journal, mishaps>>

ReadSource ==
    LET body == source[todo]
        exceeded == PayloadLimits(Size[body]) IN
    /\ AtSource /\ Shape[body] # "mbox"
    /\ todo' = todo + 1
    /\ \/ /\ \E x \in exceeded : Deposit(<<>>, {FailureRec(<<todo>>, x.reason)})
          /\ UNCHANGED <<item, used, mishaps>>
       \/ /\ exceeded = {}
          /\ used' = ChargedRun(Size[body])
          /\ item' = Pick(<<todo>>, body, 0, FALSE)
          /\ UNCHANGED <<stack, outgoing, mishaps>>
       \/ /\ Mishap
          /\ Deposit(<<>>, {FailureRec(<<todo>>, "unreadable")})
          /\ UNCHANGED <<item, used>>
    /\ UNCHANGED <<source, policy, private, failing, journal>>

-----------------------------------------------------------------------------
\* One staged blob (_process_blob, _process_mail_container).

Classify(x) == item = {x} /\ outgoing = {} /\ failing = {} /\ item' = {}
IsAtomic(x) == x.whole \/ Shape[x.body] = "plain"

\* Mutant: the depth limit is compared with > instead of >=.
OneTooDeep(x) == x.depth > policy.depth

TooDeep(x) == x.depth >= policy.depth

Cyclic(x) == x.body \in Ancestors

KeepBlob(x) ==
    /\ Classify(x) /\ IsAtomic(x)
    /\ Deposit(stack, {BlobRec(x.at, x.body, "kept")})
    /\ UNCHANGED <<source, policy, private, todo, failing, used, journal, mishaps>>

RefuseContainer(x) ==
    /\ Classify(x) /\ ~IsAtomic(x)
    /\ TooDeep(x) \/ Cyclic(x)
    /\ Deposit(stack, Rejection(x.at, x.body))
    /\ UNCHANGED <<source, policy, private, todo, failing, used, journal, mishaps>>

EnterContainer(x) ==
    /\ Classify(x) /\ ~IsAtomic(x)
    /\ ~TooDeep(x) /\ ~Cyclic(x)
    /\ LET shape == Shape[x.body]
           kind == IF shape \in ArchiveShapes THEN "archive" ELSE "mail"
           phase == IF shape = "zst" THEN "unpacking" ELSE "listing" IN
       stack' = Append(stack, Frame(kind, x.at, x.body, x.depth,
                                    IF kind = "archive" THEN phase ELSE "parts"))
    /\ UNCHANGED <<source, policy, private, todo, failing, used, outgoing, journal, mishaps>>

-----------------------------------------------------------------------------
\* Archives: members() lists and stages, then each member is processed.

InFrame(kinds, phase) ==
    Idle /\ stack # <<>> /\ Top.kind \in kinds /\ Top.phase = phase

Inside == Parts[Top.body]
Advance(phase) == [stack EXCEPT ![Len(stack)].phase = phase, ![Len(stack)].next = 1]
Stepped(st) == [st EXCEPT ![Len(st)].next = @ + 1]

\* Mutant: the position of a part forgets what it is a part of.
LostAncestry == <<Top.next>>

PartAt == Append(Top.at, Top.next)

\* A failure without an owner belongs to the container at hand.
\* Mutant: it is left without one.
OwnerAsGiven(x) == x.owner

OwnerOf(x) == IF x.owner = None THEN Top.at ELSE x.owner

Fail(x) == failing' = {[owner |-> OwnerOf(x), reason |-> x.reason]}

Declared == Sum([i \in DOMAIN Inside |-> Inside[i].declared])

ListingLimits ==
    Exceeds(Len(Inside) > policy.partsPerContainer, "member count")
    ?? Exceeds(Top.body \in Unsafe, "unsafe")
    ?? Exceeds(Shape[Top.body] \in {"zip", "7z"} /\ \E part \in Range(Inside) :
                 part.declared > policy.memberBytes \/ part.declared > part.most, "declared")
    ?? Preflight(Len(Inside), Declared)

\* members() removes its private files on every way out.
\* Mutant: not on failure.
LeavePrivate == UNCHANGED private

RemovePrivate == private' = {}

FailMembers(x) == Fail(x) /\ RemovePrivate

NoFiles == [at |-> Top.at, stream |-> 0, written |-> <<>>, observed |-> 0,
            pending |-> {}, stopped |-> {}, fault |-> {}]

\* _open_tar.
UnpackStream ==
    /\ InFrame({"archive"}, "unpacking")
    /\ LET bytes == Unrolled[Top.body] IN
       \/ /\ bytes > policy.containerBytes
          /\ FailMembers(Failure("container size", None))
          /\ UNCHANGED stack
       \/ /\ bytes <= policy.containerBytes
          /\ stack' = Advance("listing")
          /\ private' = {[NoFiles EXCEPT !.stream = bytes]}
          /\ UNCHANGED failing
    /\ UNCHANGED <<source, policy, todo, item, used, outgoing, journal, mishaps>>

ListArchive ==
    /\ InFrame({"archive"}, "listing")
    /\ \/ /\ \E x \in ListingLimits : FailMembers(x)
          /\ UNCHANGED stack
       \/ /\ ListingLimits = {} /\ Shape[Top.body] # "7z"
          /\ stack' = Advance("staging")
          /\ UNCHANGED <<failing, private>>
       \/ /\ ListingLimits = {} /\ Shape[Top.body] = "7z"
          /\ stack' = Advance("extracting")
          /\ private' = {[NoFiles EXCEPT !.written = [i \in DOMAIN Inside |-> 0]]}
          /\ UNCHANGED failing
    /\ UNCHANGED <<source, policy, todo, item, used, outgoing, journal, mishaps>>

\* _ObservedLimits: what was left before the extraction, run first.  Nothing is
\* charged meanwhile, so that is what a preflight without members sees.
\* Mutant: the containers are forgotten.
ObservedRun(bytes) == Exceeds(used.bytes + bytes > policy.runBytes, "run size")

ObservedLimits(bytes) == Preflight(0, bytes)

Whole(p, i) == p.written[i] = Size[Inside[i].body]
Folders == {part.folder : part \in Range(Inside)}

\* The thread of a folder writes its members one after the other and ends with
\* the first exception.
MayWrite(p, i) ==
    /\ ~Whole(p, i)
    /\ Inside[i].folder \notin p.stopped
    /\ \A c \in p.pending : Inside[c.part].folder # Inside[i].folder
    /\ \A j \in 1 .. i - 1 : Inside[j].folder = Inside[i].folder => Whole(p, j)

StopFolder(p, i, x) ==
    private' = {[p EXCEPT !.stopped = @ \cup {Inside[i].folder},
                          !.fault = IF @ = {} THEN {x} ELSE @]}

\* _BoundedWriter.write up to the point where the new total is computed.  The
\* threads share that total and no lock: it may be stale when it is stored.
CheckChunk(p, i) ==
    /\ InFrame({"archive"}, "extracting") /\ p \in private
    /\ MayWrite(p, i)
    /\ \/ \E n \in 1 .. Size[Inside[i].body] - p.written[i], bound \in Tightest(Bounds(Inside[i])) :
             LET exceeded == ObservedLimits(p.observed + n) IN
             /\ \/ /\ p.written[i] + n > bound.room
                   /\ StopFolder(p, i, Failure(bound.reason, bound.owner))
                \/ /\ p.written[i] + n <= bound.room
                   /\ \E x \in exceeded : StopFolder(p, i, x)
                \/ /\ p.written[i] + n <= bound.room /\ exceeded = {}
                   /\ private' = {[p EXCEPT !.pending =
                                     @ \cup {[part |-> i, bytes |-> n, total |-> p.observed + n]}]}
             /\ UNCHANGED mishaps
       \/ Mishap /\ StopFolder(p, i, Failure("corrupt", None))
    /\ UNCHANGED <<source, policy, todo, stack, item, failing, used, outgoing, journal>>

WriteChunk(p, c) ==
    /\ p \in private /\ c \in p.pending
    /\ private' = {[p EXCEPT !.pending = @ \ {c}, !.observed = c.total,
                             !.written[c.part] = @ + c.bytes]}
    /\ UNCHANGED <<source, policy, todo, stack, item, failing, used, outgoing, journal, mishaps>>

\* All threads have ended; the first exception is raised.
EndExtraction(p) ==
    /\ InFrame({"archive"}, "extracting") /\ p \in private
    /\ p.pending = {} /\ \A i \in DOMAIN Inside : ~MayWrite(p, i)
    /\ \/ /\ p.fault # {}
          /\ \E x \in p.fault : FailMembers(x)
          /\ UNCHANGED stack
       \/ /\ p.fault = {} /\ Top.body \in Broken
          /\ FailMembers(Failure("corrupt", None))
          /\ UNCHANGED stack
       \/ /\ p.fault = {} /\ Top.body \notin Broken
          /\ stack' = Advance("staging")
          /\ UNCHANGED <<failing, private>>
    /\ UNCHANGED <<source, policy, todo, item, used, outgoing, journal, mishaps>>

\* The bound of a stream; a private file of a 7z archive is complete already.
StagingBound(part) ==
    IF Shape[Top.body] = "7z" THEN {MemberBound} ELSE Tightest(Bounds(part))

\* _charge_observed: the run, then the containers outermost first, up to the one
\* that has no room.
ChargedOutside(owner, bytes) ==
    [i \in DOMAIN stack |->
        [stack[i] EXCEPT !.spent = IF IsContainer(stack[i]) /\ IsStrictPrefix(stack[i].at, owner)
                                    THEN @ + bytes ELSE @]]

StageMember ==
    /\ InFrame({"archive"}, "staging") /\ Top.next <= Len(Inside)
    /\ \E bound \in StagingBound(Inside[Top.next]) :
         LET bytes == Size[Inside[Top.next].body]
             exceeded == Preflight(1, bytes) IN
         \/ /\ bytes > bound.room
            /\ FailMembers(bound)
            /\ UNCHANGED <<stack, used>>
         \/ /\ bytes <= bound.room
            /\ \E x \in exceeded :
                 /\ FailMembers(x)
                 /\ used' = IF x.owner = None THEN used ELSE ChargedRun(bytes)
                 /\ stack' = ChargedOutside(x.owner, bytes)
         \/ /\ bytes <= bound.room /\ exceeded = {}
            /\ used' = ChargedRun(bytes)
            /\ stack' = Stepped(ChargedStack(bytes))
            /\ UNCHANGED <<failing, private>>
    /\ UNCHANGED <<source, policy, todo, item, outgoing, journal, mishaps>>

\* The end of members(): testzip, or the tail of a TAR, may tell a broken archive.
CheckArchive ==
    /\ InFrame({"archive"}, "staging") /\ Top.next > Len(Inside)
    /\ \/ Top.body \in Broken /\ Fail(Failure("corrupt", None)) /\ UNCHANGED stack
       \/ Top.body \notin Broken /\ stack' = Advance("parts") /\ UNCHANGED failing
    /\ private' = {}
    /\ UNCHANGED <<source, policy, todo, item, used, outgoing, journal, mishaps>>

\* An OSError, EOFError, BadZipFile, TarError or ZstdError while members() works, or any
\* error of py7zr, is taken for a corrupt archive.  zlib.error and LZMAError are not
\* caught and end the run: see Restart.
FailArchive ==
    /\ \E phase \in {"unpacking", "listing", "staging"} : InFrame({"archive"}, phase)
    /\ Mishap
    /\ FailMembers(Failure("corrupt", None))
    /\ UNCHANGED <<source, policy, todo, stack, item, used, outgoing, journal>>

NextMember ==
    /\ InFrame({"archive"}, "parts") /\ Top.next <= Len(Inside)
    /\ item' = Pick(PartAt, Inside[Top.next].body, Top.depth + 1, FALSE)
    /\ stack' = Stepped(stack)
    /\ UNCHANGED <<source, policy, private, todo, failing, used, outgoing, journal, mishaps>>

-----------------------------------------------------------------------------
\* Mail: leaves are decoded, staged and processed one by one
\* (_process_mail_leaf, _ingest_bytes).

AtLeaf == InFrame({"mail", "source"}, "parts") /\ Top.next <= Len(Inside)
Leaf == Inside[Top.next]
Overfull == Top.kind = "mail" /\ Top.next > policy.partsPerContainer
LeafTooDeep == Top.depth + Leaf.hops > policy.depth

TooManyLeaves ==
    /\ AtLeaf /\ Overfull
    /\ Fail(Failure("member count", None))
    /\ UNCHANGED <<source, policy, private, todo, stack, item, used, outgoing, journal, mishaps>>

\* A leaf that is too deep or was not decoded is recorded and passed.
\* Mutant: it is passed without a record.
PassSilently(pos) == {}

LeafFailure(pos) == {FailureRec(pos, IF LeafTooDeep THEN "depth" ELSE "undecoded")}

PassLeaf ==
    /\ AtLeaf /\ ~Overfull
    /\ LeafTooDeep \/ Leaf.body = NoBody
    /\ Deposit(Stepped(stack), LeafFailure(PartAt))
    /\ UNCHANGED <<source, policy, private, todo, item, failing, used, journal, mishaps>>

\* Without a container a limit costs the leaf; inside one it is the container's.
StageLeaf ==
    /\ AtLeaf /\ ~Overfull /\ ~LeafTooDeep /\ Leaf.body # NoBody
    /\ LET exceeded == PayloadLimits(Size[Leaf.body]) IN
       \/ /\ Containers = {}
          /\ \E x \in exceeded : Deposit(Stepped(stack), {FailureRec(PartAt, x.reason)})
          /\ UNCHANGED <<item, failing, used>>
       \/ /\ Containers # {}
          /\ \E x \in exceeded : Fail(x)
          /\ UNCHANGED <<stack, item, used, outgoing>>
       \/ /\ exceeded = {}
          /\ used' = ChargedRun(Size[Leaf.body])
          /\ stack' = Stepped(ChargedStack(Size[Leaf.body]))
          /\ item' = Pick(PartAt, Leaf.body, Top.depth + Leaf.hops, Leaf.whole)
          /\ UNCHANGED <<failing, outgoing>>
    /\ UNCHANGED <<source, policy, private, todo, journal, mishaps>>

\* An OSError while a leaf is staged, or a staged blob examined, ends the whole
\* source file: nothing on the way out but _discover catches it.
GiveUpSource ==
    /\ AtLeaf \/ (item # {} /\ outgoing = {})
    /\ Mishap
    /\ Deposit(<<>>, {FailureRec(<<todo - 1>>, "unreadable")})
    /\ item' = {}
    /\ UNCHANGED <<source, policy, private, todo, failing, used, journal>>

-----------------------------------------------------------------------------
\* Leaving a container.

AtEnd == InFrame({"archive", "mail", "source"}, "parts") /\ Top.next > Len(Inside)

CloseContainer ==
    /\ AtEnd /\ IsContainer(Top)
    /\ Deposit(Below, Top.buffer \cup {ContainerRec(Top.at, Top.body, "expanded")})
    /\ UNCHANGED <<source, policy, private, todo, item, failing, used, journal, mishaps>>

CloseMailbox ==
    /\ AtEnd /\ ~IsContainer(Top)
    /\ stack' = Below
    /\ UNCHANGED <<source, policy, private, todo, item, failing, used, outgoing, journal, mishaps>>

\* Mutant: the tentative records of a failed container are handed on.
KeptRecords(f) == f.buffer \cup Rejection(f.at, f.body)

OnlyRejection(f) == Rejection(f.at, f.body)

Unwind ==
    /\ failing # {} /\ stack # <<>> /\ IsContainer(Top)
    /\ \/ /\ \E x \in failing : x.owner # Top.at
          /\ stack' = Below
          /\ UNCHANGED <<failing, outgoing>>
       \/ /\ \E x \in failing : x.owner = Top.at
          /\ Deposit(Below, OnlyRejection(Top))
          /\ failing' = {}
    /\ UNCHANGED <<source, policy, private, todo, item, used, journal, mishaps>>

-----------------------------------------------------------------------------

Finished == Idle /\ stack = <<>> /\ todo > Len(source)

\* The process dies before the plan is frozen, or an exception that nothing catches ends
\* it (a damaged compressed stream); the next run discovers again.  Either way the
\* journal is all that is left.
Restart ==
    /\ Mishap
    /\ ~Finished
    /\ todo' = 1 /\ stack' = <<>> /\ item' = {} /\ failing' = {} /\ private' = {}
    /\ used' = Unused /\ outgoing' = {}
    /\ UNCHANGED <<source, policy, journal>>

Next ==
    \/ \E r \in outgoing : WriteRecord(r)
    \/ OpenMailbox \/ ReadSource
    \/ \E x \in item : KeepBlob(x) \/ RefuseContainer(x) \/ EnterContainer(x)
    \/ UnpackStream \/ ListArchive
    \/ \E p \in private :
         \/ \E i \in DOMAIN p.written : CheckChunk(p, i)
         \/ \E c \in p.pending : WriteChunk(p, c)
         \/ EndExtraction(p)
    \/ StageMember \/ CheckArchive \/ FailArchive \/ NextMember
    \/ TooManyLeaves \/ PassLeaf \/ StageLeaf \/ GiveUpSource
    \/ CloseContainer \/ CloseMailbox \/ Unwind
    \/ Restart
    \/ Finished /\ UNCHANGED vars

Spec == Init /\ [][Next]_vars

-----------------------------------------------------------------------------
(***************************************************************************)
(* Properties.                                                             *)
(***************************************************************************)

Positions == Seq(Nat)
Statuses == {"kept", "expanded", "unprocessed", "unreadable", "depth", "undecoded",
             "run count", "run size", "container size", "member size"}
RecordType ==
    [kind : {"container", "blob", "failure"}, at : Positions,
     body : Content \cup {NoBody}, status : Statuses]
FrameType ==
    [kind : {"source", "archive", "mail"}, at : Positions, body : Content, depth : Nat,
     phase : {"unpacking", "listing", "extracting", "staging", "parts"}, next : Nat \ {0}, spent : Nat,
     buffer : SUBSET RecordType]

\* The types; each open container lies inside the one below it on the stack.
TypeOK ==
    /\ source \in Sources /\ policy \in Policies
    /\ todo \in 1 .. Len(source) + 1
    /\ \A i \in DOMAIN stack :
         /\ stack[i] \in FrameType
         /\ i > 1 => IsContainer(stack[i]) /\ IsStrictPrefix(stack[i - 1].at, stack[i].at)
    /\ Cardinality(item) <= 1 /\ Cardinality(failing) <= 1 /\ Cardinality(private) <= 1
    /\ \A p \in private :
         /\ p.at \in Positions /\ p.written \in Seq(Nat)
         /\ p.stream \in Nat /\ p.observed \in Nat
         /\ p.pending \subseteq [part : DOMAIN p.written, bytes : Nat, total : Nat]
    /\ used \in [members : Nat, bytes : Nat]
    /\ outgoing \subseteq RecordType /\ journal \subseteq RecordType

\* A container failure that unwinds finds its owner: it never reaches _discover,
\* which would not catch it, and never passes over live frames for nothing.
FailureHasOwner ==
    \A x \in failing : \E i \in Containers : stack[i].at = x.owner

\* No limit of the run or of a container is ever exceeded by what was charged,
\* wherever a charge stops half-way through the budgets and although the threads
\* of an extraction may together write more than is left.
ChargesFit ==
    /\ used.members <= policy.partsPerRun /\ used.bytes <= policy.runBytes
    /\ \A i \in Containers : stack[i].spent <= policy.containerBytes

\* What is charged to a container is charged to every container around it and
\* to the run, duplicates and later discarded members included.
BudgetsNested ==
    \A i \in Containers :
        /\ stack[i].spent <= used.bytes
        /\ \A j \in Containers : i < j => stack[j].spent <= stack[i].spent

\* The accounts of charged members: none is overdrawn and none is left out.
ChargesAccounted == ChargesFit /\ BudgetsNested

Staging == stack # <<>> /\ Top.kind = "archive" /\ Top.phase # "parts"

\* Private files exist only while members() of their archive is running, so never
\* those of two nested archives; every failure, of whatever owner, removes them.
PrivateReleased ==
    \A p \in private : Staging /\ p.at = Top.at /\ failing = {} /\ item = {}

Written(p) == Sum(p.written)

\* An extraction never writes more than the run and every container around it have
\* left, although no size was known in advance and nothing is charged before the
\* end; only threads of several folders may.  An unpacked stream fits a container.
PrivateBounded ==
    \A p \in private :
        /\ p.stream <= policy.containerBytes
        /\ Top.phase = "extracting" /\ Cardinality(Folders) = 1 =>
             /\ used.bytes + Written(p) <= policy.runBytes
             /\ \A i \in Containers : stack[i].spent + Written(p) <= policy.containerBytes

\* No content is expanded inside itself and no more containers are open at once
\* than the depth limit says, whatever the contents contain.
RecursionBounded ==
    /\ Cardinality(Containers) <= policy.depth
    /\ Cardinality(Ancestors) = Cardinality(Containers)

\* An occurrence reaches the journal only after the records of all the containers
\* around it, which say that they were expanded: whoever reads the journal, even
\* after a crash in the middle of a flush, finds where each occurrence came from.
InsideExpanded ==
    \A r \in journal : r.kind # "container" => \A n \in 1 .. Len(r.at) - 1 :
        LET pos == SubSeq(r.at, 1, n) IN
        \/ n = 1 /\ Shape[source[r.at[1]]] = "mbox"
        \/ \E c \in journal : c.kind = "container" /\ c.at = pos /\ c.status = "expanded"

\* A container that is recorded as unprocessed is kept as one blob and nothing
\* of what it contains is in the journal.
AllOrNothing ==
    Finished => \A c \in journal : c.kind = "container" /\ c.status = "unprocessed" =>
        /\ BlobRec(c.at, c.body, "unprocessed") \in journal
        /\ \A r \in journal : ~IsStrictPrefix(c.at, r.at)

Recorded(pos) == \E r \in journal : r.at = pos

\* Every member of an expanded archive and every leaf of expanded mail has a record
\* when discovery ends.
NothingLost ==
    Finished => \A c \in journal : c.kind = "container" /\ c.status = "expanded" =>
        \A i \in DOMAIN Parts[c.body] : Recorded(Append(c.at, i))

\* Each source file has a record when discovery ends, or each message of a mailbox,
\* whatever failed on the way and however often discovery was begun again.
SourcesRecorded ==
    Finished => \A n \in DOMAIN source : Recorded(<<n>>)
        \/ (Shape[source[n]] = "mbox" /\ \A i \in DOMAIN Parts[source[n]] : Recorded(<<n, i>>))

\* Where a path of indices leads from the source.
BodyAt(src, pos) ==
    LET at[i \in 1 .. Len(pos)] ==
            IF i = 1 THEN src[pos[1]] ELSE Parts[at[i - 1]][pos[i]].body IN
    at[Len(pos)]

\* The record of a blob or a container names the content that its place in the source
\* leads to, and there is one of each kind for a place: a second attempt, which may end
\* differently, replaces what the first one wrote and adds nothing beside it.
RecordsTrue ==
    \A r \in journal : r.kind # "failure" =>
        /\ r.body = BodyAt(source, r.at)
        /\ \A s \in journal : s.kind = r.kind /\ s.at = r.at => s = r

\* Although a second attempt may refuse what the first one expanded, each occurrence
\* in the journal, at any moment, has a record of every container around it.
Surrounded ==
    \A r \in journal : r.kind # "container" => \A n \in 1 .. Len(r.at) - 1 :
        \/ n = 1 /\ Shape[source[r.at[1]]] = "mbox"
        \/ \E c \in journal : c.kind = "container" /\ c.at = SubSeq(r.at, 1, n)

\* What the journal promises however often discovery is begun again and however its
\* attempts end: it is true, and whole from each record outwards and from the source
\* down to its files.
JournalHolds == RecordsTrue /\ Surrounded /\ SourcesRecorded

\* Nothing that was written is written over, although every record is upserted: no
\* two things that are found share an id, and an attempt that meets with no other
\* circumstances than the one before finds the same again.
RecordsStay == [][journal \subseteq journal']_vars
=============================================================================
