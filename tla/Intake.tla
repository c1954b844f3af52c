------------------------------- MODULE Intake --------------------------------
(***************************************************************************)
(* How a run takes in its source: the walk that lists and hashes a         *)
(* directory (_walk_directory, _SourceInventory), the discovery that reads *)
(* every listed file again (_discover), also by path when it may be a      *)
(* mailbox (mail.py), or the same for a source that is one mbox file; and  *)
(* the counters that are shown meanwhile.  Others replace entries of the   *)
(* source at any time, and the heartbeat thread runs.                      *)
(*                                                                         *)
(* What becomes of a file that was read is the subject of Expansion and    *)
(* Run; here it has one record, and a container shows one member.          *)
(***************************************************************************)
EXTENDS SourceTree, Progress

CONSTANTS
    Folded, Composed, Original, \* portable_text_key of a name and its bytes, as ordinals
    Mailboxes,                  \* files confirmed as mbox
    Containers,                 \* files that are expanded
    Givens                      \* sources: <<>> is the directory, <<n>> a file in it

ASSUME IntakeAssumption ==
    /\ Folded \in [Names -> Nat] /\ Composed \in [Names -> Nat] /\ Original \in [Names -> Nat]
    /\ \A n, m \in Names : Original[n] = Original[m] => n = m
    /\ Mailboxes \subseteq Files /\ Containers \subseteq Files
    /\ Givens \subseteq {<<>>} \cup {<<n>> : n \in Names}
    /\ \A s \in Swaps : s.dir = Root /\ <<s.name>> \in Givens => s.entry.to \notin Dirs

VARIABLES
    given,      \* the source
    pc,         \* where the main thread is
    walk,       \* directories being visited, outermost first
    inventory,  \* what the walk has yielded, the rows of the inventory
    cursor,     \* the row at hand
    identity,   \* of the file that may be a mailbox
    reason,     \* why the row at hand failed
    records,    \* occurrences in the journal
    read        \* history: files whose bytes were used

intakeVars == <<given, pc, walk, inventory, cursor, identity, reason, records, read>>
vars == <<treeVars, progressVars, intakeVars>>

Unread == "none"

\* A file was found to be an mbox when the command line was read.
Init ==
    /\ TreeInit
    /\ ProgressInit
    /\ given \in Givens
    /\ given # <<>> => PlainFile(Lstat(given)) /\ Follow(given) \in Mailboxes
    /\ pc = "start"
    /\ walk = <<>>
    /\ inventory = <<>>
    /\ cursor = 1
    /\ identity = Nothing
    /\ reason = Unread
    /\ records = {}
    /\ read = {}

At(label) == pc = label /\ Ready
Goto(label) == pc' = label
Report(seq) == calls' = seq /\ UNCHANGED <<counters, writes, lock, beat, stopping>>
Quiet == UNCHANGED progressVars

-----------------------------------------------------------------------------
\* The walk.  A directory is scanned into an index, then its names are taken
\* in the order of the index: folded, normalised, original.

\* Mutant: names that differ in case or composition only come in any order.
FoldedOnly(n, m) == Folded[n] < Folded[m]

Precedes(n, m) ==
    \/ Folded[n] < Folded[m]
    \/ Folded[n] = Folded[m] /\ Composed[n] < Composed[m]
    \/ Folded[n] = Folded[m] /\ Composed[n] = Composed[m] /\ Original[n] < Original[m]

Visit(path) == [path |-> path, scanned |-> FALSE, names |-> {}]
Here == Last(walk)
Row(path, why, seen) == [path |-> path, reason |-> why, seen |-> seen]
List(row) == inventory' = Append(inventory, row)

\* Processor.__init__.
StartWalk ==
    /\ At("start") /\ given = <<>>
    /\ Report(<<Phase("fingerprint", 0)>>)
    /\ walk' = <<Visit(<<>>)>>
    /\ Goto("walk")
    /\ UNCHANGED <<treeVars, given, inventory, cursor, identity, reason, records, read>>

AtDirectory(scanned) == At("walk") /\ walk # <<>> /\ Here.scanned = scanned

\* os.scandir follows links; a directory that is gone is listed as unreadable.
ScanDirectory ==
    /\ AtDirectory(FALSE)
    /\ LET dir == Follow(Here.path) IN
       \/ /\ dir \in Dirs
          /\ walk' = Append(Front(walk),
                 [Here EXCEPT !.scanned = TRUE, !.names = {n \in Names : fs[dir][n] # Vacant}])
          /\ UNCHANGED inventory
       \/ /\ dir \notin Dirs
          /\ walk' = Front(walk)
          /\ List(Row(Here.path, "unreadable", Nothing))
    /\ Quiet
    /\ UNCHANGED <<treeVars, given, pc, cursor, identity, reason, records, read>>

\* The next name: listed, descended into or hashed, by what lstat says now.
VisitEntry(n) ==
    /\ AtDirectory(TRUE)
    /\ n \in Here.names /\ ~\E m \in Here.names : Precedes(m, n)
    /\ LET path == Append(Here.path, n)
           entry == Lstat(path)
           rest == Append(Front(walk), [Here EXCEPT !.names = @ \ {n}]) IN
       \/ /\ entry = Vacant
          /\ List(Row(path, "unreadable", Nothing))
          /\ walk' = rest
          /\ UNCHANGED <<pc, opening>>
       \/ /\ entry # Vacant /\ IsLinkOrSpecial(entry)
          /\ List(Row(path, "unsafe_entry", Nothing))
          /\ walk' = rest
          /\ UNCHANGED <<pc, opening>>
       \/ /\ PlainDirectory(entry)
          /\ walk' = Append(rest, Visit(path))
          /\ UNCHANGED <<pc, opening, inventory>>
       \/ /\ PlainFile(entry)
          /\ StartOpen(path) /\ Goto("hash")
          /\ walk' = rest
          /\ UNCHANGED inventory
    /\ Quiet
    /\ UNCHANGED <<platform, fs, swaps, given, cursor, identity, reason, records, read>>

LeaveDirectory ==
    /\ AtDirectory(TRUE) /\ Here.names = {}
    /\ walk' = Front(walk)
    /\ Quiet
    /\ UNCHANGED <<treeVars, given, pc, inventory, cursor, identity, reason, records, read>>

\* A step inside open_source, whoever called it.
OpenStep ==
    /\ Ready /\ \E o \in opening : OpenGoesOn(o)
    /\ Quiet
    /\ UNCHANGED <<platform, fs, swaps, intakeVars>>

\* _update_file_digest.  A file that cannot be read stays in the inventory.
Hashed(object) ==
    /\ At("hash")
    /\ \E o \in opening : Opens(o, object) /\ List(Row(o.path, Unread, object))
    /\ read' = read \cup {object}
    /\ Report(<<AdvanceCall>>)
    /\ Goto("walk")
    /\ UNCHANGED <<platform, fs, swaps, given, walk, cursor, identity, reason, records>>

NotHashed(why) ==
    /\ At("hash")
    /\ \E o \in opening : Refuses(o, why) /\ List(Row(o.path, Unread, Nothing))
    /\ Quiet
    /\ Goto("walk")
    /\ UNCHANGED <<platform, fs, swaps, given, walk, cursor, identity, reason, records, read>>

EndWalk ==
    /\ At("walk") /\ walk = <<>>
    /\ Report(<<Phase("discovery", 0)>>)
    /\ Goto(IF given = <<>> THEN "entry" ELSE "source")
    /\ UNCHANGED <<treeVars, given, walk, inventory, cursor, identity, reason, records, read>>

-----------------------------------------------------------------------------
\* Discovery: one row after the other.

AtRow(label) == At(label) /\ cursor <= Len(inventory)
ThisRow == inventory[cursor]
NextRow == cursor' = cursor + 1 /\ Goto("entry")

\* The id of an occurrence: _sort_key of its path, for failures with the reason.
Key(path) == [i \in DOMAIN path |-> <<Folded[path[i]], Composed[path[i]]>>]
SameId(r, s) ==
    /\ Key(r.path) = Key(s.path)
    /\ r.reason = s.reason

\* Mutant: an entry that was refused in the walk is passed over.
OnlyRead(r) == IF r.reason = "unsafe_entry" THEN records ELSE records \cup {r}

Upserted(r) == {s \in records : ~SameId(r, s)} \cup {r}

Record(why, object) ==
    records' = Upserted([path |-> ThisRow.path, reason |-> why, object |-> object])

TakeRow ==
    /\ AtRow("entry")
    /\ Report(<<AdvanceCall>>)
    /\ Goto("row")
    /\ UNCHANGED <<treeVars, given, walk, inventory, cursor, identity, reason, records, read>>

\* A row the walk refused fails; of any other the identity is taken.
ExamineRow ==
    /\ AtRow("row")
    /\ \/ /\ ThisRow.reason # Unread
          /\ reason' = ThisRow.reason
          /\ Report(<<FailedCall>>) /\ Goto("failed")
          /\ UNCHANGED opening
       \/ /\ ThisRow.reason = Unread
          /\ StartOpen(ThisRow.path) /\ Goto("identify")
          /\ Quiet /\ UNCHANGED reason
    /\ UNCHANGED <<platform, fs, swaps, given, walk, inventory, cursor, identity, records, read>>

\* _record_failure: the counter first, then the record.
RecordFailure ==
    /\ AtRow("failed")
    /\ Record(reason, Nothing)
    /\ reason' = Unread /\ NextRow
    /\ Quiet
    /\ UNCHANGED <<treeVars, given, walk, inventory, identity, read>>

\* _source_identity.
Identified(object) ==
    /\ AtRow("identify")
    /\ \E o \in opening : Opens(o, object)
    /\ identity' = object
    /\ Goto("peek")
    /\ Quiet
    /\ UNCHANGED <<platform, fs, swaps, given, walk, inventory, cursor, reason, records, read>>

\* _source_identity or _ingest_path raises: UnsafeSourceError is unsafe_entry.
NotOpened(why) ==
    /\ AtRow("identify") \/ AtRow("ingest")
    /\ \E o \in opening : Refuses(o, why)
    /\ reason' = why
    /\ Report(<<FailedCall>>) /\ Goto("failed")
    /\ UNCHANGED <<platform, fs, swaps, given, walk, inventory, cursor, identity, records, read>>

\* is_confirmed_mbox opens the path twice, first with path.open, then with
\* mailbox.mbox; a handle that is not the identified file, or none, means no.
Reopened == Follow(ThisRow.path)

\* Mutant: it is opened by path, without open_source.
IngestByPath == Goto("ingest") /\ UNCHANGED opening

Ingest == StartOpen(ThisRow.path) /\ Goto("ingest")

\* path.open waits until somebody writes to a FIFO, which nobody does.
Waits == platform = "posix" /\ Reopened \in Specials

Peek ==
    /\ AtRow("peek") /\ ~Waits
    /\ read' = IF Reopened = identity THEN read \cup {Reopened} ELSE read
    /\ \/ /\ Reopened = identity /\ identity \in Mailboxes
          /\ Goto("confirm") /\ UNCHANGED opening
       \/ /\ Reopened # identity \/ identity \notin Mailboxes
          /\ Ingest
    /\ Quiet
    /\ UNCHANGED <<platform, fs, swaps, given, walk, inventory, cursor, identity, reason, records>>

PeekBlocks ==
    /\ AtRow("peek") /\ Waits
    /\ Goto("blocked")
    /\ Quiet
    /\ UNCHANGED <<treeVars, given, walk, inventory, cursor, identity, reason, records, read>>

Confirm ==
    /\ AtRow("confirm")
    /\ \/ Reopened = identity /\ Goto("mail") /\ UNCHANGED opening
       \/ Reopened # identity /\ Ingest
    /\ Quiet
    /\ UNCHANGED <<platform, fs, swaps>>
    /\ UNCHANGED <<given, walk, inventory, cursor, identity, reason, records, read>>

\* iter_mbox opens the path once more.  Another file is an OSError, a missing
\* one mailbox.NoSuchMailboxError, which _discover does not catch.
IterateMailbox ==
    /\ AtRow("mail")
    /\ \/ /\ Reopened = identity
          /\ read' = read \cup {Reopened}
          /\ Record(Unread, Reopened) /\ NextRow
          /\ Quiet /\ UNCHANGED reason
       \/ /\ Reopened # identity /\ ~NoEntry(ThisRow.path)
          /\ reason' = "unreadable"
          /\ Report(<<FailedCall>>) /\ Goto("failed")
          /\ UNCHANGED <<cursor, records, read>>
       \/ /\ NoEntry(ThisRow.path)
          /\ Goto("abort")
          /\ Quiet /\ UNCHANGED <<cursor, reason, records, read>>
    /\ UNCHANGED <<treeVars, given, walk, inventory, identity>>

\* A container has a phase of its own; the one of discovery then begins again.
ExpansionCalls == <<Phase("expand", 1), AdvanceCall, Phase("discovery", 0)>>

\* _ingest_path, and the record of what was staged.
Ingested(object) ==
    /\ AtRow("ingest")
    /\ \E o \in opening : Opens(o, object)
    /\ read' = read \cup {object}
    /\ Record(Unread, object) /\ NextRow
    /\ Report(IF object \in Containers THEN ExpansionCalls ELSE <<>>)
    /\ UNCHANGED <<platform, fs, swaps, given, walk, inventory, identity, reason>>

-----------------------------------------------------------------------------
\* A source that is one mbox file.  It has an inventory without a table, and
\* whatever goes wrong with it ends the run.

IsFile == Follow(given) \in Files

\* If it is no file any more, it is walked as a directory, which yields one row.
StartFile ==
    /\ At("start") /\ given # <<>>
    /\ Report(<<Phase("fingerprint", 0)>>)
    /\ \/ IsFile /\ Goto("file") /\ UNCHANGED walk
       \/ ~IsFile /\ Goto("walk") /\ walk' = <<Visit(given)>>
    /\ UNCHANGED <<treeVars, given, inventory, cursor, identity, reason, records, read>>

\* fingerprint_source asks again; its row is not for _discover.
FingerprintFile ==
    /\ At("file")
    /\ \/ /\ IsFile
          /\ StartOpen(given) /\ Goto("hash_file")
          /\ UNCHANGED inventory
       \/ /\ ~IsFile
          /\ List(Row(given, "unreadable", Nothing)) /\ Goto("walk")
          /\ UNCHANGED opening
    /\ cursor' = 2
    /\ Quiet
    /\ UNCHANGED <<platform, fs, swaps, given, walk, identity, reason, records, read>>

HashedFile(object) ==
    /\ At("hash_file")
    /\ \E o \in opening : Opens(o, object)
    /\ List(Row(given, Unread, object))
    /\ read' = read \cup {object}
    /\ Report(<<AdvanceCall>>)
    /\ Goto("walk")
    /\ UNCHANGED <<platform, fs, swaps, given, walk, cursor, identity, reason, records>>

\* Discovery asks once more.
TakeFile ==
    /\ At("source")
    /\ \/ IsFile /\ StartOpen(given) /\ Goto("identify_file")
       \/ ~IsFile /\ Goto("entry") /\ UNCHANGED opening
    /\ Quiet
    /\ UNCHANGED <<platform, fs, swaps>>
    /\ UNCHANGED <<given, walk, inventory, cursor, identity, reason, records, read>>

FileIdentified(object) ==
    /\ At("identify_file")
    /\ \E o \in opening : Opens(o, object)
    /\ identity' = object
    /\ Goto("file_mail")
    /\ Quiet
    /\ UNCHANGED <<platform, fs, swaps, given, walk, inventory, cursor, reason, records, read>>

FileRefused(why) ==
    /\ At("hash_file") \/ At("identify_file")
    /\ \E o \in opening : Refuses(o, why)
    /\ Goto("abort")
    /\ Quiet
    /\ UNCHANGED <<platform, fs, swaps>>
    /\ UNCHANGED <<given, walk, inventory, cursor, identity, reason, records, read>>

IterateFile ==
    /\ At("file_mail")
    /\ \/ /\ Follow(given) = identity
          /\ read' = read \cup {identity}
          /\ records' = {[path |-> given, reason |-> Unread, object |-> identity]}
          /\ cursor' = Len(inventory) + 1 /\ Goto("entry")
       \/ /\ Follow(given) # identity
          /\ Goto("abort")
          /\ UNCHANGED <<cursor, records, read>>
    /\ Quiet
    /\ UNCHANGED <<treeVars, given, walk, inventory, identity, reason>>

-----------------------------------------------------------------------------
\* What follows, as far as the counters tell: one advance for each planned
\* record, one commit for each that is canonical.

EndDiscovery ==
    /\ At("entry") /\ cursor > Len(inventory)
    /\ Report(<<Phase("plan", 0)>>)
    /\ Goto("frozen")
    /\ UNCHANGED <<treeVars, given, walk, inventory, cursor, identity, reason, records, read>>

StartPublishing ==
    /\ At("frozen")
    /\ Report(<<Phase("publish", Cardinality(records))>>)
    /\ cursor' = 1 /\ Goto("publish")
    /\ UNCHANGED <<treeVars, given, walk, inventory, identity, reason, records, read>>

RecordsOf(i) == {r \in records : r.path = inventory[i].path}

Canonical(r) ==
    /\ r.reason = Unread
    /\ \A i \in 1 .. cursor - 1 : \A s \in RecordsOf(i) : s.object # r.object

PublishRow ==
    /\ AtRow("publish")
    /\ Report(IF RecordsOf(cursor) = {} THEN <<>>
              ELSE IF \E r \in RecordsOf(cursor) : Canonical(r) THEN <<AdvanceCall, CommittedCall>>
              ELSE <<AdvanceCall>>)
    /\ cursor' = cursor + 1
    /\ UNCHANGED <<treeVars, given, pc, walk, inventory, identity, reason, records, read>>

StartReport ==
    /\ At("publish") /\ cursor > Len(inventory)
    /\ Report(<<Phase("report", 0)>>)
    /\ Goto("reported")
    /\ UNCHANGED <<treeVars, given, walk, inventory, cursor, identity, reason, records, read>>

\* Progress.__exit__, after a run that ended or was ended by an exception.
StopHeartbeat ==
    /\ At("reported") \/ At("abort")
    /\ Stop
    /\ Goto("join")
    /\ UNCHANGED <<treeVars, given, walk, inventory, cursor, identity, reason, records, read>>

JoinHeartbeat ==
    /\ At("join")
    /\ Join
    /\ Goto("ended")
    /\ UNCHANGED <<treeVars, given, walk, inventory, cursor, identity, reason, records, read>>

-----------------------------------------------------------------------------

Walking ==
    \/ StartWalk \/ ScanDirectory \/ LeaveDirectory \/ EndWalk
    \/ \E n \in Names : VisitEntry(n)
    \/ \E object \in Files : Hashed(object)
    \/ \E why \in {"unsafe_entry", "unreadable"} : NotHashed(why)

Discovering ==
    \/ TakeRow \/ ExamineRow \/ RecordFailure
    \/ Peek \/ PeekBlocks \/ Confirm \/ IterateMailbox
    \/ \E object \in Files : Identified(object) \/ Ingested(object)
    \/ \E why \in {"unsafe_entry", "unreadable"} : NotOpened(why)

OneFile ==
    \/ StartFile \/ FingerprintFile \/ TakeFile \/ IterateFile
    \/ \E object \in Files : HashedFile(object) \/ FileIdentified(object)
    \/ \E why \in {"unsafe_entry", "unreadable"} : FileRefused(why)

\* The calls of Progress are steps of the main thread.
Counting == (BeginCall \/ Assign \/ EndCall) /\ UNCHANGED <<treeVars, intakeVars>>

Main ==
    \/ Walking \/ OpenStep \/ Discovering \/ OneFile
    \/ EndDiscovery \/ StartPublishing \/ PublishRow \/ StartReport \/ StopHeartbeat \/ JoinHeartbeat
    \/ Counting

Beating == Heartbeat /\ UNCHANGED <<treeVars, intakeVars>>
Disturbance == Swap /\ UNCHANGED <<progressVars, intakeVars>>

Ended == At("ended")

Next == Main \/ Beating \/ Disturbance \/ (Ended /\ UNCHANGED vars)

Spec == Init /\ [][Next]_vars

\* Both threads run; nobody has to disturb them.
FairSpec == Spec /\ WF_vars(Main) /\ SF_vars(BeginCall /\ UNCHANGED <<treeVars, intakeVars>>)
                 /\ WF_vars(Beating)

-----------------------------------------------------------------------------
(***************************************************************************)
(* Properties.                                                             *)
(***************************************************************************)

Labels == {"start", "walk", "hash", "entry", "row", "identify", "peek", "confirm", "mail",
           "ingest", "file", "hash_file", "source", "identify_file", "file_mail",
           "failed", "blocked", "abort", "frozen", "publish", "reported", "join", "ended"}
Reasons == {Unread, "unsafe_entry", "unreadable"}

\* The types; open_source is called by the walk and by discovery, never twice.
TypeOK ==
    /\ TreeTypeOK /\ ProgressTypeOK
    /\ given \in Givens /\ pc \in Labels
    /\ walk \in Seq([path : Seq(Names), scanned : BOOLEAN, names : SUBSET Names])
    /\ inventory \in Seq([path : Seq(Names), reason : Reasons, seen : Files \cup {Nothing}])
    /\ cursor \in Nat \ {0}
    /\ identity \in Files \cup {Nothing}
    /\ reason \in Reasons
    /\ records \subseteq [path : Seq(Names), reason : Reasons, object : Files \cup {Nothing}]
    /\ read \subseteq Files
    /\ (opening # {}) = (pc \in {"hash", "identify", "ingest", "hash_file", "identify_file"})

\* Whatever is replaced and whenever, no byte of a file outside of the source
\* directory is hashed, staged or parsed: neither through a link put in the
\* place of a file or of an ancestor, nor by opening the path of a mailbox again.
ReadConfined == read \cap Outside = {}

\* A path is before another if it is at their first difference.
PathBefore(p, q) ==
    \E i \in DOMAIN p \cap DOMAIN q :
        /\ Precedes(p[i], q[i])
        /\ \A j \in 1 .. i - 1 : p[j] = q[j]

Paths == UNION {[1 .. n -> Names] : n \in 1 .. Cardinality(Dirs)}

\* What an undisturbed walk must find: every entry that is not a directory and
\* is reached through directories alone.
Expected ==
    { Row(p, IF IsLinkOrSpecial(Lstat(p)) THEN "unsafe_entry" ELSE Unread,
             IF PlainFile(Lstat(p)) THEN Lstat(p).to ELSE Nothing) :
        p \in { p \in Paths :
            /\ Lstat(p) # Vacant /\ ~PlainDirectory(Lstat(p))
            /\ \A i \in 1 .. Len(p) - 1 : PlainDirectory(Lstat(SubSeq(p, 1, i))) } }

InventoryOrdered ==
    \A i, j \in DOMAIN inventory : i < j => PathBefore(inventory[i].path, inventory[j].path)

\* The inventory is in one order, whatever order the operating system lists names
\* in and whatever changes meanwhile, so that a fingerprint can be compared with
\* an earlier one; and if nothing changed it has everything, as it is.
InventoryInOrder ==
    /\ InventoryOrdered
    /\ pc = "entry" /\ swaps = MaxSwaps /\ given = <<>> =>
           {inventory[i] : i \in DOMAIN inventory} = Expected

\* When discovery has ended, every entry of the inventory has a record of its
\* own: read, refused or failed.  A source that is one file has its record too,
\* unless it disappeared.
EveryEntryRecorded ==
    pc = "frozen" /\ (given = <<>> \/ swaps = MaxSwaps) =>
        \A i \in DOMAIN inventory : \E r \in records : r.path = inventory[i].path

Failures == {r \in records : r.reason # Unread}

\* Counters of the phase that the main thread is in.
Whole(c) ==
    /\ c.failures \in {Cardinality(Failures), Cardinality(Failures) + 1}
    /\ CASE c.phase = "fingerprint" -> c.current <= Len(inventory)
         [] c.phase = "discovery" ->
              /\ c.current <= cursor
              /\ given = <<>> /\ c.current < cursor - 1 =>
                     \E r \in records : r.object \in Containers
         [] c.phase = "expand" -> c.current <= c.total
         [] c.phase = "plan" -> c.current = 0
         [] c.phase = "publish" ->
              /\ c.current <= c.total
              /\ c.durable <= c.current
         [] c.phase = "report" -> c.current = 0
         [] c.phase = "completion" -> c.current = c.durable /\ c.total = c.durable

\* What the heartbeat shows is a state between two calls, never one in which a
\* phase has begun and the counters of the one before are still there: it counts
\* the entries taken (since the last container, if there was one) and the failures
\* recorded, or one more, the one at hand.
SnapshotsWhole == beat = "emitting" => Whole(counters)

\* The run ends and the counters are closed, whatever the heartbeat does, unless
\* a FIFO took the place of a file just when it was to be opened by path.
IntakeEnds == <>(Ended \/ pc = "blocked")
=============================================================================
