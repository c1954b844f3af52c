------------------------------ MODULE Journal -------------------------------
(***************************************************************************)
(* The SQLite journal of one destination (journal.py).  Every operation    *)
(* below is one transaction: it commits whole or leaves no trace, and what *)
(* it committed survives the death of the process.                         *)
(*                                                                         *)
(* A run's identity is the source fingerprint together with the policy     *)
(* fingerprint.  The fingerprint hash is taken to be injective, so it is   *)
(* modelled by what is hashed: the content of each leaf and, for a leaf    *)
(* that could not be read then, its size and modification time, which      *)
(* stand for its content here.                                             *)
(***************************************************************************)
EXTENDS Plan

VARIABLES
    meta,       \* the compatibility rows of table runs: {} or {an identity}
    phase,      \* row "phase" of table runs
    outcome,    \* row "outcome" of table runs
    acct,       \* row "accounting_members" of table runs
    blobRows,   \* table blobs
    occ,        \* table occurrences, by occurrence id
    plan,       \* table frozen_plans, by occurrence id
    marks       \* leaves whose publication_states row says 'published'

journalVars == <<meta, phase, outcome, acct, blobRows, occ, plan, marks>>

Identity == [fp : [Leaf -> Digest], unread : SUBSET Leaf, policy : Policy]

JournalTypeOK ==
    /\ meta \subseteq Identity
    /\ phase \in {"discovery", "frozen", "complete"}
    /\ outcome \in Outcomes
    /\ acct \in Nat
    /\ blobRows \subseteq Digest
    /\ occ \in [Id -> Occurrence]
    /\ plan \in [Id -> PlanRecord]
    /\ marks \subseteq Leaf

JournalInit ==
    /\ meta = {}
    /\ phase = "discovery"
    /\ outcome = "none"
    /\ acct = 0
    /\ blobRows = {}
    /\ occ = [i \in Id |-> NoOccurrence]
    /\ plan = NoPlan
    /\ marks = {}

\* Journal.prepare: adopt the identity, or find it already there.
\* Mutant: a changed source or policy is accepted and written over the old one.
AdoptAnything(who) == meta' = who

AdoptIdentity(who) == meta \subseteq who /\ meta' = who

Prepare(who) ==
    /\ AdoptIdentity(who)
    /\ UNCHANGED <<phase, outcome, acct, blobRows, occ, plan, marks>>

RecordBlob(d) ==
    /\ blobRows' = blobRows \cup {d}
    /\ UNCHANGED <<meta, phase, outcome, acct, occ, plan, marks>>

RecordOccurrence(i, r) ==
    /\ occ' = [occ EXCEPT ![i] = r]
    /\ UNCHANGED <<meta, phase, outcome, acct, blobRows, plan, marks>>

SetAccounting(members) ==
    /\ acct' = members
    /\ UNCHANGED <<meta, phase, outcome, blobRows, occ, plan, marks>>

\* Journal.freeze: write the plan once; a plan that is already there must be
\* the one just computed, and is left alone.
\* Mutant: the count of existing rows is not consulted.
FreezeAlways(policy) == plan' = PlanOf(occ, policy) /\ phase' = "frozen"

WriteOrKeepPlan(policy) ==
    \/ plan = NoPlan /\ plan' = PlanOf(occ, policy) /\ phase' = "frozen"
    \/ plan # NoPlan /\ plan = PlanOf(occ, policy) /\ UNCHANGED <<plan, phase>>

Freeze(policy) ==
    /\ WriteOrKeepPlan(policy)
    /\ UNCHANGED <<meta, outcome, acct, blobRows, occ, marks>>

FreezeConflicts(policy) == plan # NoPlan /\ plan # PlanOf(occ, policy)

MarkPublished(l) ==
    /\ marks' = marks \cup {l}
    /\ UNCHANGED <<meta, phase, outcome, acct, blobRows, occ, plan>>

CompleteJournal(result) ==
    /\ outcome' = result
    /\ phase' = "complete"
    /\ UNCHANGED <<meta, acct, blobRows, occ, plan, marks>>
=============================================================================
