# A formal model of unpacksort

unpacksort takes a directory (or one mbox file), opens every archive and every
mail it finds in it, and sorts what comes out by type below a destination
directory: each distinct content once, under a name that is stable from run to
run, with a manifest of everything it met.  It is made to be killed and started
again.  These modules say what that has to mean, and check and prove that the
code does it; where it does not, a run shows the counterexample.

All line numbers are those of `src/src/unpacksort/`.

## 1. The system

### Components and their state

| Component | Code | State | Operations |
| --- | --- | --- | --- |
| Processor | `engine.py` | phase of the run, the inventory of the source, run-wide counters | fingerprint, discover, expand, freeze, publish, report |
| Journal | `journal.py` | one SQLite file per destination: identity, phase, counters, blobs, occurrences, containers, the frozen plan, publication states | one transaction per operation |
| BlobStore | `storage.py` | `.unpacksort/blobs` (content addressed), `.unpacksort/tmp`, public stages | ingest, cleanup, publish, link without replacing |
| Outputs | `reporting.py` | `manifest.jsonl`, `report.txt` and one temporary name for each | write, rename |
| Planner | `planner.py` | scratch tables: canonical digests, occupied names, suffix cursors, directory assignments | one record at a time |
| Container expansion | `engine.py` | the recursion: budgets, ancestors, tentative records | list, stage, recurse, close, fail |
| Archive adapters | `containers.py` | private files while an archive is staged | list, unpack, extract, stage, release |
| Mail parsing | `mail.py` | none | confirm, open by identity, walk MIME |
| Limits | `policy.py` | run counters and one budget for each open container | preflight, charge |
| Source walk, fingerprint | `engine.py` | a scratch inventory | walk, hash, list |
| Names | `safety.py` | none | make portable, fold, suffix, bound |
| Safe opening | `source_io.py` | none | open below a root without following links |
| Detection | `detection.py` | none | bytes and name to type |
| Command line | `cli.py` | none | validate, run, exit code |
| Progress | `progress.py` | counters under a lock, a heartbeat thread | begin a phase, count, show, close |
| Logging | `logging_config.py` | a rotating file | messages |

### How they interact

The command line starts the heartbeat and makes a Processor, which walks the
source, lists its entries in a scratch inventory and hashes each file through
`open_source`, before it touches the destination.  Discovery takes the rows of
that inventory and opens every file anew, a possible mailbox also by its path.
`run` opens the journal and hands it the identity of the run; a destination that
belongs to another source or policy refuses.  While the phase is `discovery`,
every leaf goes: temporary file, blob, blob row, occurrence row.  Containers call
back into the same processing for each of their members; their records stay in a
buffer that is handed outwards when the container closes and reaches the journal
when the outermost one does.  When the source is exhausted the counters are saved,
the planner reads the occurrences back in provenance order and the journal freezes
what it says.  Publication walks the frozen plan: copy the blob beside its public
path, hash the copy, link it into place, mark it.  The two outputs are written
last, and the phase becomes `complete`.  A run that finds the phase past
`discovery` starts at publication.

All the while the main thread counts what it does, and the heartbeat thread shows
the counters every five seconds; py7zr extracts an archive with threads of its
own, which call back into the writers of the adapter.  Nothing else is shared
between two runs than the files below the destination: there is no lock.  The
processes of one destination interact through SQLite transactions, through files
in the private directory and through public names.

### What is hard

* Every pair of neighbouring steps can be separated by the death of the process.
* What one step checked (a fingerprint, a free path, a remaining budget) can be
  stale when a later step relies on it.
* A failure inside nested containers must undo exactly the container whose limit
  it broke, although charges and blobs stay.
* The second discovery of a leaf can end differently from the first, and meets
  its records.
* Names collide by letter case, by normalisation and by the very suffixes that
  are added to make them distinct.
* Two processes may be started on one destination.
* Others rename, link and remove entries of the source between any two system
  calls; a path that was proven harmless leads elsewhere when it is used.
* Threads: the heartbeat, and the extraction of a 7z archive.

`PROJECT.json` lists these hazards one by one with their lines and the
properties that watch them.

## 2. The modules

```
  Plan ------+---------------+------------+
   |         |               |            |
 Journal   Store          Outputs       Planner       Expansion   Mail
   |         |               |        (DecidesAsPlan)      |       |
   +---------+------+--------+            |                +---+---+
                   Run  ==implements==> Recovery           MailRecords
                    |                     |                    |
                  MCRun                MCPlanner          MCExpansion

  SourceTree   Progress         theorems
       |          |             RunProofs (Plan, Run, Recovery)
       +----+-----+             SequenceLemmas -> ExpansionProofs -> LedgerProofs -> RestartProofs (Expansion)
          Intake                               -> MailProofs (Mail, MailRecords)
            |                                  -> IntakeProofs (Intake)
         MCIntake                              -> PlannerProofs (Planner)
```

**Plan** is the decision of the planner as a function from occurrence records
to plan records: which are published, which are duplicates of which.  A path is
abstracted to the leaf it came from.  `Planner` justifies this: its paths are
distinct, and its stream of decisions is the one of `Plan`.

**Journal** has one operator for each transaction of `journal.py`; **Store** has
the steps of `storage.py` that other processes or a crash can see; **Outputs**
the temporary and final names of `reporting.py`.

**Run** composes the three with a program counter for each process.  Its actions
are the stretches of code between two effects on shared state; its label names
where a process stands.  The leaves are the plain files of a source directory.
The surroundings can kill a process (its files stay), interrupt it (its handlers
run), edit the source and put a foreign file at a planned path, each a bounded
number of times (`Budget`); reads, fingerprint reads and copies can fail or come
out damaged.  The outcome is decided while the lines of the manifest are made
(`OutcomeDecided`) and kept in `result`, which the report, the journal and the exit
code use afterwards, whatever others did in between.

**Recovery** is the abstract specification: a destination is bound to one
identity, then to one plan, then planned files appear one by one at free paths,
and it is finished no earlier than the last.  There is no process, journal,
stage or retry in it.  `Run` implements it under the mapping `Promised`.

**Planner** is `iter_freeze_plan` with its scratch tables, one directory
component and one file name at a time.  A name is a text and the suffixes it
carries, so that a source name with a number in it can meet an added number.  The
policy (layout, `pdf_only`) is chosen at the start and never changes.

**Expansion** is the recursion over containers with an explicit stack: listing
and staging an archive, walking mail, the three kinds of limits in the order the
code tests them, failures that unwind to their owner, the buffer of tentative
records and its flush, one transaction per record.  What a content contains is
data (`Shape`, `Parts`), including contents that contain themselves, declare
less than they hold, are corrupt at the end or are refused by name.  A position,
the path of indices from the source file, stands for the sort key.  The adapters
are part of it: ZIP and TAR members are streams with a bound; the members of a 7z
archive are written by the threads of py7zr, one per folder, chunk by chunk, into
private files that look at the limits (`CheckChunk`, `WriteChunk`; the total
is read and stored in two steps, since nothing locks it); a zstandard stream is
unpacked into a private file.  `private` is what of this is on the disk.

**Mail** is the walk over the MIME structure of a message and over the messages
of a mailbox.  A message is a function from its positions, paths of child indices,
to types and bodies; the recursion of `_walk_message` along one path is
`CallAt`, the arguments of the call for that position, and the walk visits the
positions in their order.  **MailRecords** joins it to `Expansion`: the leaves
become the parts of a container, and their nodes and fates what their record ids
are made of.  `MCExpansion` derives the parts of its mail contents from message
trees with it.

**SourceTree** is `open_source` in both forms, one system call per step: the walk
with a descriptor per component (POSIX), and inspect, open, inspect the handle
(Windows).  Between two steps `Swap` may put another entry in place: a link, a
FIFO, another file, nothing.  **Progress** is the counters, assigned field by
field inside the lock, and the heartbeat.  **Intake** composes them with the main
thread: the walk and the hashing, discovery row by row with the three openings by
path of a mailbox, failures and their records, a source that is one mbox file,
whose errors end the run, and the calls that change the counters up to the final
record.  What the content of a file leads to is left to
`Run` and `Expansion`.

The theorems are in modules of their own.  **RunProofs**: what a plan is, the
invariants of `Run` with any number of processes, the refinement of `Recovery`, and
what holds of `Run` with one process at a time.  **IntakeProofs**,
**ExpansionProofs** and **PlannerProofs**: the invariants of those components.
**LedgerProofs**: what one attempt of an expansion leaves in the journal.
**RestartProofs**: what the journal promises after any number of attempts.
**MailProofs**: the identity of leaves of mail.  **SequenceLemmas**: facts about
sequences, prefixes, sums and least numbers that all but the first use.

Operators whose comment begins with *Mutant* are plausible mistakes (a dropped
check, a forgotten reset).  They are used by no specification; putting one in
the place of the operator below it makes the run named in `PROJECT.json` fail,
which shows that the property sees that mistake.

## 3. What is checked

Runs that pass (distinct states in brackets):

| Run | Instance | Shows |
| --- | --- | --- |
| `RunSafety` (456 thousand) | 1 process, 3 leaves, 2 contents, room for 2 members; a crash, a read fault, a damaged copy, a foreign file, an edit at any time | public files are only ever whole planned files; marks and completion tell the truth; nothing is overwritten; `Recovery`, completion included, is implemented |
| `RunResume` (168 thousand) | 1 process, 2 leaves, 2 policies, room for 1; two crashes, two edits between runs, an unreadable fingerprint, a damaged copy | plan, outputs and private directory end as after an undisturbed run |
| `RunPair` (566 thousand, symmetric) | 2 processes, 2 leaves, an edit at any time | identities do not mix, no record outruns its blob, the plan is written once, exit codes, decided while the manifest is written and used after it, tell the truth |
| `RunProgress` (31 thousand) | 1 process, 2 leaves; two crashes, a read fault, a damaged copy; fairness | every run ends; repeating the command completes the destination |
| `PlannerNames` (70 thousand, symmetric) | 3 records, 3 digests, 2 policies; files and directories equal up to case, a number or an unsafe character, two levels of directories, the same bytes accepted and refused, records without bytes | scratch keys unique, paths distinct, suffixes dense, directories renamed one for one, duplicates right, decisions as in `Plan` |
| `ExpansionNested` (734 thousand) | each of 17 contents alone and three pairs of them, 42 policies; a read fault or a crash anywhere, also in the middle of a flush or of an extraction | limits hold, failures find their owner, failed containers leave nothing inside, private files are bounded and released, records reach the journal containers first, nothing is lost, what the journal says holds across a restart and no record is written over; leaves of a mailbox have distinct identifiers |
| `Intake` (273 thousand) | 3 source directories, or one mbox file in them, POSIX and Windows, 2 replacements out of 8 between any two system calls, the heartbeat; fairness | nothing outside the source is read, the inventory is ordered and complete, every entry has a record, what the heartbeat shows is consistent, the run ends |

Why the bounds are enough.  Three leaves are the least for a canonical record, a
duplicate and a refused or failed one together, and two contents the least for
distinct bytes.  `RunSafety` needs one disturbance of each kind in any
combination: the properties speak of one boundary between two steps at a time, and
a second crash repeats the first from a state that is already reachable;
`RunResume` has two to be sure.  `RunSafety` has one process and `RunPair` has no
crashes; with both the instance has over six million states.  That two processes implement
`Recovery`, and that a crash between blob and row harms nothing (`BlobsCoverJournal`),
TLC therefore does not show; these rest on the theorems `RunImplementsRecovery`
and `JournalIsBacked`, which bound neither processes nor crashes.  In `PlannerNames` three records are the least for
a suffixed name to meet a source name that has the number already, and for two
directories that collide to be visited again; `MaxSuffix` is the number of
records, since `M` names occupy at most `M` suffixes.  The contents of `Expansion`
nest up to four containers (a ZIP with a mailbox with a letter with a ZIP; a
zstandard TAR with a 7z with a ZIP), and the depth limits of 1, 2 and 4 refuse at
each level of it; two folders are the least for a lost addition, and members of
one to three bytes the least for a chunk that does not end one; and the policies
make each limit the first to be met somewhere.  One mishap (`Mishaps`) is not only a
bound but a limit of what is claimed: `AllOrNothing`, `InsideExpanded`, `RecordsStay`
and the half of `NothingLost` that looks at the journal hold with one and can break
with two, a crash and then a second attempt that ends differently (`ExpansionRetry`,
section 5).  The others do not depend on it; `JournalHolds` is proved for any number.  `MailLeavesDistinct` looks at MIME trees of three levels with up to two
children, alone and as pairs in one mailbox, some inside themselves; a path that is
wrong at one level is wrong in one of those.  In
`Intake`, two replacements are the least to lead somewhere and back again between
two looks; the directories have an ancestor to replace, two names that fold alike,
a mailbox and a link, a FIFO and a dangling link from the start.  The theorems of
section 5 need no bound at all.

Deadlock is checked in every run: a process that is off can always be started,
and `Planner`, `Expansion` and `Intake` have an explicit stuttering step when they
are done (a run of `Intake` whose main thread waits at a FIFO still has its
heartbeat).

### Fairness

`FairSpec` assumes that a process that is alive takes its next step (weak
fairness of `Step(p)`: the code is sequential and nothing in it waits) and that
the operator repeats the command while the destination is not complete, which
is what `docs/manual.md` asks for.  Neither crashes nor faults are fair.  There
is one process and no foreign file in that run: a foreign file at a planned path
stops every later run, by design.

In `Intake` both threads are weakly fair, and the main thread gets the lock if it
is free again and again (strong fairness of `BeginCall`): the heartbeat holds it
for one message and then sleeps for five seconds.  Replacements are not fair.

## 4. Where code and documents disagree

Five runs state what a document or a comment says and end in a counterexample.

| Run | What happens |
| --- | --- |
| `RunStaleFailure` | The id of a failure has its reason hashed in.  A leaf that failed before a crash and is read after it has two records, and the complete run is reported as partial. |
| `PlannerNesting` | Names of files and names of directories are kept in separate tables; a file is planned where another file needs a directory, and publication stops with an error. |
| `PlannerOutcome` | Bytes that are accepted under one name and refused under another: the refused occurrence becomes a duplicate, and the run reports a complete result. |
| `ExpansionRetry` | A container is expanded, the process dies, and the second attempt refuses it (its blob cannot be read): the descendants recorded first stay beside the refused container. |
| `IntakeTwins` | Two names of one directory that are equal after NFC but not byte for byte give one record id: the record of the second file replaces that of the first, which is neither published nor reported. |

The code has more behaviours that a reader of the documents would not expect.  No
property promises their absence; those with a label or an action in brackets, and
the first four, are in the models:

* A process killed between `mkstemp` and `unlink` (`storage.py:150`) leaves its
  stage beside the public path (`orphans`); only the private directory is ever
  cleaned.  `docs/manual.md:252` expects no partial public file.
* The source is hashed before discovery (`engine.py:255`) and read again during
  it; an edit in between is published under the old identity.
  `docs/manual.md:185` promises not to mix states.
* Opening the store (`storage.py:41`) removes the staging file of a live
  process, whose leaf is then recorded as unreadable.
* Two processes use one temporary name for an output (`reporting.py:131`), and
  one can rename the half-written file of the other into place.
* A possible mailbox is opened by its path (`mail.py:52`) without the O_NONBLOCK
  of `open_source`: a FIFO put there just then makes the run wait (`PeekBlocks`).
* A mailbox that is removed between its confirmation and its walk ends the run:
  `mailbox.NoSuchMailboxError` is not among what `engine.py:352` catches (the
  label `abort`).
* `zlib.error` and `lzma.LZMAError`, which a damaged stream of a ZIP or a compressed
  TAR raises, are in none of the lists of exceptions (`containers.py:151`,
  `containers.py:223`, `engine.py:352`): instead of being refused as corrupt, the archive
  ends the run with a fatal error (`cli.py:147`), and every later run of the same
  command too, so that such a destination is never completed.  `docs/manual.md:137`
  promises that a corrupt container is retained.  What the journal holds after such
  an end is what it holds after `Restart`; the properties that look at the end of
  discovery say nothing of a run that never gets there.
* A mailbox that is replaced by a link at that moment is not read, but recorded as
  `unreadable` and not, as `docs/manual.md:27` says, as `unsafe_entry`
  (`IterateMailbox`).
* The total that the 7z writers share is updated without a lock
  (`containers.py:427`): threads of several folders may write more than is left
  (`WriteChunk`).  `PrivateBounded` therefore speaks of archives with one folder;
  what is charged in the end fits all the same (`ChargesFit`).
* The end of a container shows the phase `discovery` with a count of zero
  (`engine.py:627`), also if another container around it is still open
  (`ExpansionCalls`, for a single one).
* A process killed while it stages a 7z archive or a zstandard stream leaves
  `seven-*` or `tar-zstd-*.tmp` behind; `storage.py:41` removes `blob-*.tmp` only.
  `docs/manual.md:184` says incomplete private files are removed.
* The name `tar-zstd-<digest>.tmp` is one for all processes: a second one that
  stages the same archive removes the file of the first.
* If a source that is one mbox file is gone after it was hashed, `engine.py:303`
  takes it for a directory without entries, and the run completes with nothing
  (`TakeFile`).  `EveryEntryRecorded` therefore leaves out a file that disappears.

## 5. What is proved

`tlapm` checks the following for every value of the constants: any finite or
infinite set of processes, any number of leaves, records, contents, policies and
disturbances, directories and containers nested to any depth, names of any text.
The assumptions are the named `ASSUME`s, which TLC evaluates on every instance.

| Assumption | Says | Because |
| --- | --- | --- |
| `PlanAssumption` | at least one leaf | with an empty source the plan has no records |
| `StoreAssumption` | the special contents differ from real ones and from processes | they stand for "no file", "foreign" |
| `RunAssumption` | the types of the constants | |
| `TreeAssumption` | without a link nothing of the source leads out of it, now and after each replacement | links and mounts are what leads out |
| `SourceIsTree` (of `InventoryIsComplete`) | finitely many directories, none inside itself except through a link | there are no hard links to directories; a walk that never ends lists nothing |
| `KeysTellNames` (of `EntriesRecorded`, `HeartbeatShowsOnePoint`) | no two names have one key | else one record replaces another (`IntakeTwins`) |
| `IntakeAssumption` | names are told apart by their bytes; a source that is one file is not replaced by a directory | section 6 |
| `ExpansionAssumption` | types; the members of an archive have bytes, the declared size of a TAR member is its size; each leaf of a message lies at least one node below it | a TAR is read by its headers; `mail.py` counts every node |
| `PolicyAssumption` | limits are positive and in order | `Policy.validate` refuses others |
| `MailAssumption` | mailboxes are sequences of messages, and a message is a tree: what holds a part is there too | the parser of `email` builds trees |
| `PlannerAssumption`, `RecordsAssumption` | types; making safe and folding are *any* functions of the text | nothing about letters is used |

### The destination: `RunProofs`

* `PlanPublishesOnce`: a plan gives each content to one canonical leaf and every
  duplicate names the leaf with its bytes.  The first of several leaves with the
  same bytes exists because leaves are natural numbers (`SmallestNatural` in the
  library); nothing else is used about their number.
* `Safety`: `Spec => []Safe`, and from it `TypeCorrect`, `IdentityNeverMixed`,
  `JournalIsBacked`, `PublicFilesIntact`, `MarksNeverLie`, `CompletionDelivers`,
  `ContentPublishedOnce`, `ExitCodesTrue`, and the action properties
  `NothingIsClobbered` and `PlanIsWrittenOnce`.
* `RunImplementsRecovery`: `Spec => Promised!RecoverySpec`.

None of the invariants is inductive alone: that a mark is true rests on what a
process knows between the link and the mark, and what a process knows must survive
the steps of the others.  `Safe` has three parts.  `Durable` says of the disk that
the journal is backed by blobs, the plan is sound, public files are planned, marks
are true, and a phase beyond discovery has a plan.  `Local(p)` says for each label
what the process may rely on: after the commit the blob is in the store; at the
link the stage is the planned content; behind the cursor everything is delivered;
after the manifest the result at hand is the outcome of the plan (`Decided`).
`Grows` says what every step of anyone does to the disk: the identity, the plan
and occupied public paths stay, blobs are never removed, phases only advance.
Each action is shown to keep the types, `Durable`, `Local` of its own process, and
`Grows`; one lemma, `LocalStays`, shows that `Grows` keeps `Local` of all the
others.  The number of processes does not enter.

The refinement maps `Prepare` to `Bind`, `Freeze` to `Decide`, the link to
`Deliver`, a foreign file to `Occupy`, completion to `Finish`, and shows all
other steps to be stutters; soundness of the plan and delivery at completion
come from `Safe`.

### One process at a time, also in `RunProofs`

Three properties fail when two processes share a destination (section 4), so their
theorems assume `OneAtATime`: `Proc = {p}`, the same command started again and
again.  Crashes, interrupts, faults and restarts stay unbounded.

* `StagingIsReclaimed`: the private directory is empty when the destination is
  complete.  The invariant `Staged` says that besides the staging of the live process
  there is only that of a dead one, and this only until the store is opened.
* `OutputsAreWhole`: manifest and report are whole and count what the discovery
  counted that froze the plan.  `Phased` ties the counter of the process to the
  one in the journal from the freeze on, `Reported` follows the draft from its
  first byte to the rename, and says that the report states the outcome of the plan.
* `PlanIsReproducible`, assuming also `Undisturbed` (`Budget["fault"] = 0`: every
  read succeeds; `~EditsWhileRunning`: the source is edited between runs only):
  whatever crashes and edits came before, the plan is the one of a discovery that
  nothing disturbed.  The invariant `Faithful` says that each record in the journal,
  whichever run wrote it, is the one the reference discovery makes of the same
  identity; `Discovers` says that all of them are there behind the cursor and
  that the members charged are the leaves passed.  `RunStaleFailure` shows why
  faults must be excluded.

### The way in: `IntakeProofs`

For every tree, every sequence of replacements, both platforms, and every
interleaving with the heartbeat.

* `NothingOutsideRead` (`ReadConfined`) and `IntakeTypes`, from `IntakeSafe`.  What was
  read is harmless because of what was held before: `Confined` says that a descriptor
  being walked is not outside, that an identity taken earlier is that of a file inside,
  and that the tree as it is *now* leads nowhere else without a link.
* `InventoryIsOrdered`, the half of `InventoryInOrder` that holds for any source.  The order of rows follows
  from an order on everything that is still to come: `Ordered` says that the
  entries ahead in an inner directory come before those ahead in an outer one, and the
  rows before both.  It survives any replacement, since it speaks of paths only.
* `InventoryIsComplete` (`InventoryInOrder`), assuming `SourceIsTree`: if nothing was
  replaced, the rows are exactly the entries reached through directories alone, each as
  it is, and no file is refused.  The invariant (`WalkAccountsForAll`) is an account of
  the source: every row is right, and every entry has its row, is being hashed, or lies
  ahead of a directory being visited.  It holds as long as no replacement was used; the
  identity that `open_source` expects is then always the one it finds.  The property
  enumerates paths up to a bounded length, and that no entry is deeper needs the
  hypothesis: along plain directories the levels rise.
* `EntriesRecorded` (`EveryEntryRecorded`), assuming `KeysTellNames`: no two names are
  equal after folding and composition (`IntakeTwins` shows what happens without it).
  `Recorded` says that the rows before the cursor have their records, and what the
  row at hand has at each label.  A record replaces the one that has its key, so that
  this is inductive rests on keys telling paths apart (`KeysTellPaths`).
* `HeartbeatShowsOnePoint` (`SnapshotsWhole`), assuming `KeysTellNames` too, since the
  counters are compared with the records.  `Counted` follows a call from its request
  over the assignments that are left of it to the release of the lock: while the main
  thread holds the lock, the counters are some whole state (`Settling`) with a part of the
  assignments made, and each state between the calls that are still due is whole
  (`Onward`).  It uses `Recorded` and `Ordered`, which make a row that is passed one record.

### Containers: `ExpansionProofs`, `LedgerProofs`, `RestartProofs`

For contents that contain anything, themselves too.

* `ExpansionTypes`, `OwnersFound` (`FailureHasOwner`), `PrivateFilesReleased`,
  `RecursionIsBounded`, from `ExpansionShaped`.  `Shaped` says that the frames of the
  stack are positions strictly inside one another, of pairwise distinct contents, each at least as
  deep as its place on the stack; that the item, the failure and the private files at hand belong to
  the innermost archive, and that there is only one of the three.  The bound on
  the recursion follows from the depths and the depth limit, and that every failure has
  its owner from the owner being a frame when the limit is met and frames being
  left in order.
* `AccountsKept` (`ChargesAccounted`), which is `ChargesWithinLimits` (`ChargesFit`) and
  `BudgetsInsideBudgets` (`BudgetsNested`), from `Charged`: the budget of a frame fits its
  limit and that of the run, and no budget exceeds one further out.  Each is inductive only with the other, since a charge is
  compared with each limit and then added to all the active budgets at once.  The
  unlocked total of the extraction threads is not used: what is charged
  is looked at again after the threads are joined.
* `PrivateFilesBounded` (`PrivateBounded`), from `Filled`: as long as all members are in one
  folder, the total the writer keeps is the sum of what is written, there is at most one
  chunk between its check and its write, and the total with it fits the run and each
  container.  With several folders the first of these fails, as a total read before the
  chunk of another folder is written is stale.
* `WrittenInside` (`InsideExpanded`), `KeptOrExpanded` (`AllOrNothing`),
  `EverythingRecorded` (`NothingLost`: every part of an expanded container has its
  record) and the action property `NothingOverwritten` (`RecordsStay`), from `LedgerKept`.
  They are theorems of an `Attempt`, a run that is not restarted, in which any number of
  reads may fail.  None of the three invariants is inductive: they are about the journal, and what will be written there lies
  in the buffers of the open containers or on its way.  `Ledger` therefore follows the
  position at hand: every position before it is accounted for.  A set of records is
  `Sound` if each of them lies in expanded containers (`Rooted`), refused containers have
  nothing inside (`Closed`), expanded ones have all their parts (`Complete`), and ids
  are distinct (`Distinct`).  `Account` says this of a position and all that is inside it,
  `Partial` of the parts of a frame before its cursor, `Finalized` of a source file.
  While an item is processed or a failure unwinds, the frames lack exactly the part
  that leads to it (`Waiting`); otherwise the innermost has all it has handled
  (`Working`).  Three things that happen to such sets carry the proof: the account of the next
  part is added, a full partial becomes an account by the record of its container, and the
  buffer of a failed container is thrown away for an account of two records.  The
  flush writes the records of an account one by one, and `Records`, the journal with
  what is on its way, stays the same.  `RecordsStay` follows because what is about
  to be written differs in id from all that is written.
* `JournalHeld` (`JournalHolds`), for *any number of crashes and attempts*, each with
  other faults: `EverySourceRecorded` (when discovery ends, each source file, or each
  message of one that is a mailbox, has its record), `RecordsNameTheSource` (a blob or
  container record names the content to which its place leads, and no second record of
  its kind is there) and `OccurrencesSurrounded` (every occurrence has records of all
  the containers around it, at any moment).  A second attempt meets the records of the
  first and may decide otherwise, so that `Ledger` cannot be kept; `Standing` is what
  can.  It says that each frame is the part at which the frame below stands (`InOrder`),
  so that a position leads to the content at hand; that tentative records, those on
  their way and those in the journal are true and surrounded, each within its container
  (`Tentative`, `Kept`); and that the source files behind are recorded (`Covered`).  Each of
  these speaks of single records and of what surrounds them, never of what is absent: a
  record of an earlier attempt is harmless, and a crash, which empties the buffers and
  the stack, leaves the part about the journal as it is.  That `Surrounded` holds
  even in the middle of a flush comes from the order of the flush, containers first.

### Mail: `MailProofs`

`NoTwins` and from it `LeavesDistinct` (`MailLeavesDistinct`), for mailboxes of any number
of messages, trees of any width and depth, and bodies that repeat, also around
themselves: no two leaves of a mailbox have the same nodes around them, so that their
record ids differ whatever else is hashed in.  The part path begins again in every
attached message, and a leaf at the top is called part 1 as the first child of a
multipart would be; the claim is that the nodes make up for it.  The argument has
two steps.  First, a call of `_walk_message` that walks is determined by its ancestry and
its path (`CallAt` is injective on such calls): of two positions with equal calls
take the shortest; the last index of the path and, at an attached message, the last
two nodes give the parents equal calls.  Second, each leaf is of one of three
kinds, an attached message (or leaf) at its own part node, the leaf of a cycle, or the
only part of its message, and its nodes tell the kind and the call.  Leaves of different
messages differ in their first node.

### Names: `PlannerProofs`

All seven properties of `PlannerNames`, for any number of records, paths of any
length and any texts, from `PlannerSafe`: `PlannerTypes`, `KeysAreUnique`,
`PathsAreDistinct`, `SuffixesAreDense`, `DirectoriesAreFaithful`,
`DuplicatesPointBack` and `DecidesLikePlan`.  The invariant `IInv` says of the tables
what the code relies on without looking.  `Housed`: the occupied names are the
planned paths and nothing else.  `Rows`: below a cursor every suffix is taken; this is
why starting at the cursor skips no free name.  `Uniform`: a raw part
is assigned once for each parent.  `Leading`: the directories resolved so far are those
assigned.  `Answered`: each record that was planned is passed over, an owner or a
repetition, with the path that goes with it; `Owned`: a digest belongs to the earlier
record that carries it.  Paths are distinct because occupied names are; directories are
renamed one for one *on the whole of the path* by comparing two resolved paths at the
first component where they differ.

### How induction over data is done

The provers cannot instantiate the library's induction theorems, and no proof cites one with
an operator parameter.  Where an argument runs over the length of a sequence or of a
path, it takes the least number for which the claim fails (`LeastNumber` in
`SequenceLemmas`) and refutes it.  Recursive functions, `Planner`'s `Without`, which drops
parts of a path, `Expansion`'s `Sum` and `BodyAt`, `SourceTree`'s `Reached` and `Mail`'s
`CallAt`, are shown to exist in the same way, by extending the functions that satisfy
their equations up to a number (`KeepsExists`, `AddsExists`, `LeadsExists`,
`CallsExist`); that the sum grows by the chunk that is added (`SumGrows`) is a
least-number argument again.

### Only model-checked

* Liveness (`EveryRunEnds`, `EventuallyComplete`, `IntakeEnds`): fairness and ENABLED
  are out of the prover's reach.
* `AllOrNothing`, `NothingLost`, `InsideExpanded` and `RecordsStay` across restarts.  TLC
  checks them on the instances of `ExpansionNested`, with one mishap.  They are false in
  general, since a second attempt can end differently from the first and finds its
  records: a blob cannot be read (`ExpansionRetry`), or the threads of a 7z archive
  inside a container write their chunks in another order, so that the limit of another
  container is found exceeded first.  What holds regardless is `JournalHolds`.
* What the five runs of section 4 refute.

## 6. Abstractions, and what is not modelled

* The death of a process keeps what it wrote; the loss of power is not modelled,
  so the calls of fsync are not.
* SHA-256 is injective: a digest is the content.  Size and modification time of
  an unreadable leaf stand for its content in the fingerprint.
* Nobody but the tool removes public files or touches the private directory.
* Opening a draft (`unlink`, then `open("x")`) is one step.
* A transaction is atomic; SQLite's lock timeout, which ends a process with a
  fatal error like many others here, is left out, as are schema checks.
* The two-step re-check of a stage by file identity is not separated from its
  hashing.
* In `Expansion`, directories inside archives are left out of `Parts`; the
  observed-size checks after staging (`_check_observed`) are subsumed by the
  bounds on each member; a refused listing (encrypted, links, unsafe names) is
  the set `Unsafe`; py7zr's own limit on what it extracts is left out, so the
  writers are alone in stopping it; the leftovers of a killed process are gone in
  the model, because no later run reads them.
* In `SourceTree`, the content of a file does not change while it is read, and a
  directory that was opened is not moved out of the source; on Windows every
  handle has a final path, and reparse points are links.
* In `Intake` a source that is one mbox file is, if it changes, replaced by
  something that is not a directory (`IntakeAssumption`); a file has one record and a container shows one member; the message
  rate limit, the rate and the estimate of `Progress` are left out.
* Not modelled: detection (a function of bytes and name that changes no state; its
  verdicts are data), option parsing, logging, truncation of names and the
  compaction of long paths by a digest (`safety.py:92`, distinct as long as the
  digests are), SQLite's own machinery.

## 7. Plan

The tool stands or falls with crash safety of one destination (`Run`,
`Recovery`), which was done first, with its proofs; names (`Planner`), containers
(`Expansion`, `Mail`) and the way in (`SourceTree`, `Progress`, `Intake`) followed, and
then their proofs.  Every invariant and every action property of a passing run is
now a theorem, with the exceptions that section 5 names.  What is left:

1. An abstract inventory that `Intake` implements, as `Recovery` is for `Run`.
2. An abstract journal of one expansion that `Expansion` implements, in which a
   container is expanded or refused in one step.
3. `_check_observed` and py7zr's own limits in `Expansion`, and the empty mailbox in
   `Mail`.
