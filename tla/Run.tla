-------------------------------- MODULE Run ---------------------------------
(***************************************************************************)
(* One destination and the processes that run the tool on it               *)
(* (engine.Processor): discovery, freezing of the plan, publication and    *)
(* the final outputs, with processes that are killed or interrupted at any *)
(* point and started again, reads and copies that fail, a source that is   *)
(* edited and other programs that create files below the destination.      *)
(*                                                                         *)
(* The leaves of this module are the plain files of a source directory;    *)
(* what happens inside a container is the subject of module Expansion.     *)
(***************************************************************************)
EXTENDS Journal, Store, Outputs

CONSTANTS
    Verdict,        \* Verdict[<<policy, leaf, digest>>]: what detection says of it
    MaxMembers,     \* policy.max_members_run
    Budget,         \* how often each disturbance may happen
    EditsWhileRunning   \* whether the source may be edited under a live process

Disturbance == {"crash", "fault", "fingerprint", "damage", "intrusion", "edit"}

ASSUME RunAssumption ==
    /\ Verdict \in [Policy \X Leaf \X Digest -> Verdicts]
    /\ MaxMembers \in Nat
    /\ Budget \in [Disturbance -> Nat]
    /\ EditsWhileRunning \in BOOLEAN

VARIABLES
    source,     \* the content of each source leaf
    pc,         \* where each process stands
    who,        \* the identity a process fingerprinted: {} or {an identity}
    cur,        \* the leaf, plan record or output a process is at
    got,        \* the digest of the bytes a process is ingesting
    memb,       \* accounting.members of a process
    exit,       \* how a process last ended
    result,     \* the outcome a process read off the plan for its manifest
    budget      \* disturbances still allowed

procVars == <<pc, who, cur, got, memb, exit, result>>
vars == <<journalVars, storeVars, outputVars, source, procVars, budget>>

Label == {"off", "prepare", "open", "discover", "staged", "blob", "record",
          "freeze", "publish", "copied", "link", "unlink", "mark",
          "outputs", "writing", "replace", "complete"}

ExitCode == {"none", "success", "partial", "conflict", "fatal", "interrupted", "killed"}

\* Output files are numbered in the order write_outputs makes them.
OutputAt(n) == IF n = 1 THEN "manifest" ELSE "report"

TypeOK ==
    /\ JournalTypeOK /\ StoreTypeOK /\ OutputTypeOK
    /\ source \in [Leaf -> Digest]
    /\ pc \in [Proc -> Label]
    /\ who \in [Proc -> SUBSET Identity]
    /\ cur \in [Proc -> Nat]
    /\ got \in [Proc -> Digest \cup {Absent}]
    /\ memb \in [Proc -> Nat]
    /\ exit \in [Proc -> ExitCode]
    /\ result \in [Proc -> Outcomes]
    /\ budget \in [Disturbance -> Nat]

Init ==
    /\ JournalInit /\ StoreInit /\ OutputInit
    /\ source \in [Leaf -> Digest]
    /\ pc = [p \in Proc |-> "off"]
    /\ who = [p \in Proc |-> {}]
    /\ cur = [p \in Proc |-> 0]
    /\ got = [p \in Proc |-> Absent]
    /\ memb = [p \in Proc |-> 0]
    /\ exit = [p \in Proc |-> "none"]
    /\ result = [p \in Proc |-> "none"]
    /\ budget = Budget

-----------------------------------------------------------------------------
\* Moves of the program counter; the rest of a process is left alone.

At(p, label) == pc[p] = label
Goto(p, label) == pc' = [pc EXCEPT ![p] = label]
Stay == UNCHANGED <<who, cur, got, memb, exit, result>>

\* Go to label with the cursor on n.
GotoAt(p, label, n) ==
    /\ Goto(p, label)
    /\ cur' = [cur EXCEPT ![p] = n]
    /\ UNCHANGED <<who, got, memb, exit, result>>

Leave(p, code) ==
    /\ Goto(p, "off")
    /\ who' = [who EXCEPT ![p] = {}]
    /\ cur' = [cur EXCEPT ![p] = 0]
    /\ got' = [got EXCEPT ![p] = Absent]
    /\ memb' = [memb EXCEPT ![p] = 0]
    /\ exit' = [exit EXCEPT ![p] = code]
    /\ result' = [result EXCEPT ![p] = "none"]

Spend(d) == budget[d] > 0 /\ budget' = [budget EXCEPT ![d] = @ - 1]

World == <<source, budget>>

-----------------------------------------------------------------------------
\* Starting: fingerprint, prepare, open the store.

\* Processor.__init__ fingerprints the source before it touches anything; a
\* leaf that cannot be read then is hashed as unreadable.
Start(p, policy) ==
    /\ At(p, "off")
    /\ \E unread \in {{}} \cup {{l} : l \in Leaf} :
          /\ who' = [who EXCEPT ![p] =
                {[fp |-> source, unread |-> unread, policy |-> policy]}]
          /\ IF unread = {} THEN UNCHANGED budget ELSE Spend("fingerprint")
    /\ Goto(p, "prepare")
    /\ exit' = [exit EXCEPT ![p] = "none"]
    /\ UNCHANGED <<journalVars, storeVars, outputVars, source, cur, got, memb, result>>

PrepareRun(p) ==
    /\ At(p, "prepare")
    /\ Prepare(who[p])
    /\ Goto(p, "open") /\ Stay
    /\ UNCHANGED <<storeVars, outputVars, World>>

RefuseRun(p) ==
    /\ At(p, "prepare")
    /\ ~(meta \subseteq who[p])
    /\ Leave(p, "conflict")
    /\ UNCHANGED <<journalVars, storeVars, outputVars, World>>

\* Journal.accounting: the counters of the discovery that froze the plan.
\* Mutant: a resumed run counts from zero.
ForgottenMembers(p) == memb[p]

RestoredMembers(p) == acct

\* BlobStore.__init__, then the branch on the phase.
OpenStore(p) ==
    /\ At(p, "open")
    /\ CleanupIncomplete
    /\ UNCHANGED <<blobs, stage, public, orphans>>
    /\ IF phase = "discovery"
         THEN GotoAt(p, "discover", 1)
         ELSE /\ Goto(p, "publish")
              /\ cur' = [cur EXCEPT ![p] = 1]
              /\ memb' = [memb EXCEPT ![p] = RestoredMembers(p)]
              /\ UNCHANGED <<who, got, exit, result>>
    /\ UNCHANGED <<journalVars, outputVars, World>>

-----------------------------------------------------------------------------
\* Discovery of one leaf: stage, commit the blob, its row, the occurrence.

RecordFailure(p, kind) ==
    /\ RecordOccurrence(<<cur[p], kind>>, Failure)
    /\ Goto(p, "discover")
    /\ cur' = [cur EXCEPT ![p] = @ + 1]
    /\ got' = [got EXCEPT ![p] = Absent]
    /\ UNCHANGED <<who, memb, exit, result>>

HasRoom(p) == memb[p] + 1 <= MaxMembers

\* An OSError while the leaf is opened, read or staged.
FailLeaf(p) ==
    /\ pc[p] \in {"discover", "staged"} /\ cur[p] \in Leaf
    /\ Spend("fault")
    /\ DropTemporary(p)
    /\ RecordFailure(p, "unreadable")
    /\ UNCHANGED <<outputVars, source>>

RefuseLeaf(p) ==
    /\ At(p, "discover") /\ cur[p] \in Leaf /\ ~HasRoom(p)
    /\ RecordFailure(p, "limit")
    /\ UNCHANGED <<storeVars, outputVars, World>>

StageLeaf(p) ==
    /\ At(p, "discover") /\ cur[p] \in Leaf /\ HasRoom(p)
    /\ StageBlob(p)
    /\ got' = [got EXCEPT ![p] = source[cur[p]]]
    /\ Goto(p, "staged")
    /\ UNCHANGED <<who, cur, memb, exit, result, journalVars, outputVars, World>>

CommitLeaf(p) ==
    /\ At(p, "staged")
    /\ CommitBlob(p, got[p])
    /\ Goto(p, "blob") /\ Stay
    /\ UNCHANGED <<journalVars, outputVars, World>>

\* Another process removed the temporary file: renaming it is an OSError.
LoseLeaf(p) ==
    /\ At(p, "staged") /\ p \notin tmp
    /\ RecordFailure(p, "unreadable")
    /\ UNCHANGED <<storeVars, outputVars, World>>

\* record_blob, then the charge for the member.
ChargeLeaf(p) ==
    /\ At(p, "blob")
    /\ RecordBlob(got[p])
    /\ memb' = [memb EXCEPT ![p] = @ + 1]
    /\ Goto(p, "record")
    /\ UNCHANGED <<who, cur, got, exit, result, storeVars, outputVars, World>>

RecordLeaf(p) ==
    /\ At(p, "record")
    /\ \E id \in who[p] :
          RecordOccurrence(<<cur[p], "ok">>,
             [digest |-> got[p], status |-> Verdict[<<id.policy, cur[p], got[p]>>]])
    /\ Goto(p, "discover")
    /\ cur' = [cur EXCEPT ![p] = @ + 1]
    /\ got' = [got EXCEPT ![p] = Absent]
    /\ UNCHANGED <<who, memb, exit, result, storeVars, outputVars, World>>

SaveAccounting(p) ==
    /\ At(p, "discover") /\ cur[p] \notin Leaf
    /\ SetAccounting(memb[p])
    /\ Goto(p, "freeze") /\ Stay
    /\ UNCHANGED <<storeVars, outputVars, World>>

FreezePlan(p) ==
    /\ At(p, "freeze")
    /\ \E id \in who[p] : Freeze(id.policy)
    /\ GotoAt(p, "publish", 1)
    /\ UNCHANGED <<storeVars, outputVars, World>>

RefuseFreeze(p) ==
    /\ At(p, "freeze")
    /\ \E id \in who[p] : FreezeConflicts(id.policy)
    /\ Leave(p, "conflict")
    /\ UNCHANGED <<journalVars, storeVars, outputVars, World>>

-----------------------------------------------------------------------------
\* Publication of one plan record: check, copy, verify, link, unlink, mark.

Planned(l) == plan[<<l, "ok">>].digest

\* Mutant: the cursor over the plan does not move.
SameRecord(p) == cur[p]

NextRecord(p) == cur[p] + 1

PassRecord(p) ==
    /\ At(p, "publish") /\ cur[p] \in Leaf \ Canonical(plan)
    /\ GotoAt(p, "publish", NextRecord(p))
    /\ UNCHANGED <<journalVars, storeVars, outputVars, World>>

\* A file that is already there is the record's own only if its hash says so.
\* Mutant: any file found at the path counts as published.
FoundSomething(l) == public[l] # Absent

FoundPublished(l) == public[l] = Planned(l)

AcceptPublished(p) ==
    /\ At(p, "publish") /\ cur[p] \in Canonical(plan)
    /\ FoundPublished(cur[p])
    /\ Goto(p, "mark") /\ Stay
    /\ UNCHANGED <<journalVars, storeVars, outputVars, World>>

RefusePublished(p) ==
    /\ At(p, "publish") /\ cur[p] \in Canonical(plan)
    /\ public[cur[p]] \notin {Absent, Planned(cur[p])}
    /\ Leave(p, "conflict")
    /\ UNCHANGED <<journalVars, storeVars, outputVars, World>>

CopyBlob(p) ==
    /\ At(p, "publish") /\ cur[p] \in Canonical(plan)
    /\ public[cur[p]] = Absent
    /\ \/ CopyToStage(p, Planned(cur[p]), Planned(cur[p])) /\ UNCHANGED budget
       \/ CopyToStage(p, Planned(cur[p]), Torn) /\ Spend("damage")
    /\ Goto(p, "copied") /\ Stay
    /\ UNCHANGED <<journalVars, outputVars, source>>

VerifyStage(p) ==
    /\ At(p, "copied")
    /\ StageMatches(p, Planned(cur[p]))
    /\ Goto(p, "link") /\ Stay
    /\ UNCHANGED <<journalVars, storeVars, outputVars, World>>

RejectStage(p) ==
    /\ At(p, "copied")
    /\ stage[p] # Planned(cur[p])
    /\ UnlinkStage(p)
    /\ Leave(p, "fatal")
    /\ UNCHANGED <<journalVars, outputVars, World>>

LinkStage(p) ==
    /\ At(p, "link")
    /\ CommitWithoutClobbering(p, cur[p])
    /\ Goto(p, "unlink") /\ Stay
    /\ UNCHANGED <<journalVars, outputVars, World>>

\* FileExistsError: another program's file appeared since the check.
RefuseLink(p) ==
    /\ At(p, "link")
    /\ public[cur[p]] # Absent
    /\ UnlinkStage(p)
    /\ Leave(p, "fatal")
    /\ UNCHANGED <<journalVars, outputVars, World>>

DropStage(p) ==
    /\ At(p, "unlink")
    /\ UnlinkStage(p)
    /\ Goto(p, "mark") /\ Stay
    /\ UNCHANGED <<journalVars, outputVars, World>>

MarkRecord(p) ==
    /\ At(p, "mark")
    /\ MarkPublished(cur[p])
    /\ GotoAt(p, "publish", NextRecord(p))
    /\ UNCHANGED <<storeVars, outputVars, World>>

-----------------------------------------------------------------------------
\* The outputs, one after the other, and the end of the run.

EndPublish(p) ==
    /\ At(p, "publish") /\ cur[p] \notin Leaf
    /\ GotoAt(p, "outputs", 1)
    /\ UNCHANGED <<journalVars, storeVars, outputVars, World>>

BeginOutput(p) ==
    /\ At(p, "outputs")
    /\ OpenDraft(p, OutputAt(cur[p]))
    /\ Goto(p, "writing") /\ Stay
    /\ UNCHANGED <<journalVars, storeVars, World>>

\* The outcome is decided while the lines of the manifest are made; the report, the
\* journal and the exit code repeat it later.
\* Mutant: it is read off the occurrences, which another process may still record.
OutcomeRecorded(p) == IF OutputAt(cur[p]) = "manifest" THEN OutcomeOf(occ) ELSE result[p]

OutcomeDecided(p) == IF OutputAt(cur[p]) = "manifest" THEN OutcomeOf(plan) ELSE result[p]

WriteOutput(p) ==
    /\ At(p, "writing")
    /\ result' = [result EXCEPT ![p] = OutcomeDecided(p)]
    /\ FillDraft(p, OutputAt(cur[p]), memb[p], OutcomeDecided(p))
    /\ Goto(p, "replace")
    /\ UNCHANGED <<who, cur, got, memb, exit, journalVars, storeVars, World>>

CommitOutput(p) ==
    /\ At(p, "replace")
    /\ ReplaceOutput(OutputAt(cur[p]))
    /\ IF cur[p] = 1 THEN GotoAt(p, "outputs", 2) ELSE GotoAt(p, "complete", 0)
    /\ UNCHANGED <<journalVars, storeVars, World>>

\* Another process renamed or removed the shared temporary name.
LoseOutput(p) ==
    /\ At(p, "replace")
    /\ writing[OutputAt(cur[p])] = {}
    /\ Leave(p, "fatal")
    /\ UNCHANGED <<journalVars, storeVars, outputVars, World>>

ReadyToComplete(p) == At(p, "complete")

CompleteRun(p) ==
    /\ ReadyToComplete(p)
    /\ CompleteJournal(result[p])
    /\ Leave(p, IF result[p] = "partial" THEN "partial" ELSE "success")
    /\ UNCHANGED <<storeVars, outputVars, World>>

-----------------------------------------------------------------------------
\* The surroundings.

\* The process is killed: its files stay, its memory is gone.
Kill(p) ==
    /\ ~At(p, "off")
    /\ Spend("crash")
    /\ Abandon(p, cur[p])
    /\ Leave(p, "killed")
    /\ UNCHANGED <<journalVars, outputVars, source>>

\* KeyboardInterrupt: every handler on the way out removes its own file.
Interrupt(p) ==
    /\ ~At(p, "off")
    /\ Spend("crash")
    /\ Unwind(p)
    /\ IF pc[p] \in {"writing", "replace"}
         THEN DropDraft(OutputAt(cur[p])) ELSE UNCHANGED outputVars
    /\ Leave(p, "interrupted")
    /\ UNCHANGED <<journalVars, source>>

\* Another program creates a file at a path of the plan.
Intrude(l) ==
    /\ public[l] = Absent
    /\ Spend("intrusion")
    /\ public' = [public EXCEPT ![l] = Foreign]
    /\ UNCHANGED <<blobs, tmp, stage, orphans, journalVars, outputVars, source, procVars>>

EditSource(l, d) ==
    /\ EditsWhileRunning \/ \A p \in Proc : At(p, "off")
    /\ Spend("edit")
    /\ source' = [source EXCEPT ![l] = d]
    /\ UNCHANGED <<journalVars, storeVars, outputVars, procVars>>

-----------------------------------------------------------------------------

Opening(p) == PrepareRun(p) \/ RefuseRun(p) \/ OpenStore(p)

Discovering(p) ==
    \/ FailLeaf(p) \/ RefuseLeaf(p) \/ StageLeaf(p) \/ CommitLeaf(p) \/ LoseLeaf(p)
    \/ ChargeLeaf(p) \/ RecordLeaf(p)
    \/ SaveAccounting(p) \/ FreezePlan(p) \/ RefuseFreeze(p)

Publishing(p) ==
    \/ PassRecord(p) \/ AcceptPublished(p) \/ RefusePublished(p) \/ CopyBlob(p)
    \/ VerifyStage(p) \/ RejectStage(p) \/ LinkStage(p) \/ RefuseLink(p)
    \/ DropStage(p) \/ MarkRecord(p)

Reporting(p) ==
    \/ EndPublish(p) \/ BeginOutput(p) \/ WriteOutput(p) \/ CommitOutput(p)
    \/ LoseOutput(p) \/ CompleteRun(p)

Step(p) == Opening(p) \/ Discovering(p) \/ Publishing(p) \/ Reporting(p)

Surroundings ==
    \/ \E p \in Proc : Kill(p) \/ Interrupt(p)
    \/ \E l \in Leaf : Intrude(l)
    \/ \E l \in Leaf, d \in Digest : EditSource(l, d)

Next ==
    \/ \E p \in Proc, policy \in Policy : Start(p, policy)
    \/ \E p \in Proc : Step(p)
    \/ Surroundings

Spec == Init /\ [][Next]_vars

\* A process that is running keeps running, and the operator repeats the
\* command for as long as the destination is not complete.
FairSpec ==
    /\ Spec
    /\ \A p \in Proc : WF_vars(Step(p))
    /\ \A p \in Proc : WF_vars(phase # "complete" /\ \E policy \in Policy : Start(p, policy))

-----------------------------------------------------------------------------
(***************************************************************************)
(* Properties that hold for any number of processes.                       *)
(***************************************************************************)

\* A process past prepare works under the identity the journal was made for:
\* source, policy and tool of two runs never mix (Journal.prepare).
IdentityHeld == \A p \in Proc : pc[p] \notin {"off", "prepare"} => meta = who[p]

\* Whatever the journal promises can still be read: the blob of every recorded
\* occurrence, of every blob row and of every plan record is in the store, so a
\* plan that was frozen can always be published (ingest_stream, freeze).
BlobsCoverJournal ==
    /\ blobRows \subseteq blobs
    /\ \A i \in Id : {occ[i].digest, plan[i].digest} \subseteq blobs \cup {Absent}

\* A public path shows nothing, another program's file, or exactly the bytes the
\* frozen plan gives it: never a damaged, partial or unplanned file (publish).
PublicIntact ==
    \A l \in Leaf : public[l] \notin {Absent, Foreign} =>
                      l \in Canonical(plan) /\ public[l] = Planned(l)

\* A record marked as published is a canonical one whose file is there, across
\* any crash between the link and the mark (_publish, mark_published).
MarksTrue == \A l \in marks : l \in Canonical(plan) /\ public[l] = Planned(l)

\* When the journal says complete, every canonical file is in place.
CompleteDelivers ==
    phase = "complete" => \A l \in Canonical(plan) : public[l] = Planned(l)

\* No two public files have the same bytes, and a duplicate names the public
\* file with its bytes (iter_freeze_plan).
OneFilePerContent ==
    /\ \A l, m \in Canonical(plan) : Planned(l) = Planned(m) => l = m
    /\ \A i \in Id : plan[i].status = "duplicate" =>
          /\ plan[i].canonical \in Canonical(plan)
          /\ Planned(plan[i].canonical) = plan[i].digest

\* The exit code of a process that finished agrees with the journal and the
\* plan, whatever other processes did meanwhile (write_outputs, cli.main).
ExitTrue ==
    \A p \in Proc : exit[p] \in {"success", "partial"} =>
        /\ phase = "complete" /\ outcome = OutcomeOf(plan)
        /\ exit[p] = "partial" <=> \E i \in Id : plan[i].status = "unprocessed"

\* No step, of any process, changes or removes a file that stands at a public
\* path, even one that appeared after the check (_commit_without_clobbering).
NoClobber == [][\A l \in Leaf : public[l] # Absent => public'[l] = public[l]]_vars

\* A frozen plan is never rewritten, and a destination never goes back to an
\* earlier phase, even when two processes discover at once (freeze, complete).
PlanWrittenOnce ==
    [][/\ plan # NoPlan => plan' = plan
       /\ phase' = "discovery" => phase = "discovery"
       /\ phase = "complete" => phase' = "complete"]_vars

-----------------------------------------------------------------------------
(***************************************************************************)
(* Properties of a destination that one process at a time works on.        *)
(***************************************************************************)

\* What an undisturbed discovery of an identity's source records.
ReferenceOcc(id) ==
    [i \in Id |->
        CASE i[2] = "ok" /\ i[1] <= MaxMembers ->
               [digest |-> id.fp[i[1]], status |-> Verdict[<<id.policy, i[1], id.fp[i[1]]>>]]
          [] i[2] = "limit" /\ i[1] > MaxMembers -> Failure
          [] OTHER -> NoOccurrence]

\* The frozen plan is a function of source and policy alone, whatever crashes,
\* restarts and edits between runs happened before it was frozen (run, prepare).
PlanIsReference ==
    plan # NoPlan => \A id \in meta : plan = PlanOf(ReferenceOcc(id), id.policy)

\* The counter in the report is the one of the discovery that froze the plan, its
\* outcome that of the plan, and an output under its final name has all its lines, also while it is being
\* written again by a later run (set_accounting, accounting, _atomic_lines).
OutputsWhole ==
    /\ \A f \in Out : files[f] \subseteq {Rendering(f, acct, OutcomeOf(plan))}
    /\ phase = "complete" => \A f \in Out : files[f] # {}

\* What a killed process staged privately is gone by the time a destination is
\* complete (cleanup_incomplete).
StagingReclaimed == phase = "complete" => tmp = {}

\* One record for every leaf, as the manifest promises.
OneRecordPerLeaf ==
    \A l \in Leaf, j, k \in Kind :
        plan[<<l, j>>].status # "none" /\ plan[<<l, k>>].status # "none" => j = k

-----------------------------------------------------------------------------
(***************************************************************************)
(* The abstract specification this one implements.                         *)
(***************************************************************************)

\* The public side of the plan.
PublicPlan ==
    IF plan = NoPlan THEN {}
    ELSE {[l \in Leaf |-> IF l \in Canonical(plan) THEN Planned(l) ELSE Absent]}

Promised == INSTANCE Recovery WITH
    Path <- Leaf, Content <- Digest, Owner <- Identity,
    bound <- meta, promise <- PublicPlan, shown <- public,
    finished <- (phase = "complete")

\* Discovery, crashes, retries, staging and a second process are invisible in
\* the public files: every step is a step of Recovery or changes none of them.
ImplementsRecovery == Promised!RecoverySpec

-----------------------------------------------------------------------------
(***************************************************************************)
(* Liveness.                                                               *)
(***************************************************************************)

\* A process that is started ends, in one of its exit codes.
EveryRunEnds == \A p \in Proc : ~At(p, "off") ~> At(p, "off")

\* Crashes, interrupts and damaged copies only delay: repeating the command
\* completes the destination.
EventuallyComplete == <>(phase = "complete")
=============================================================================
