-------------------------------- MODULE Plan --------------------------------
(***************************************************************************)
(* What the planner decides about a set of occurrence records: which of    *)
(* them are published, which repeat the bytes of an earlier one, and what  *)
(* the final outcome is (planner.py, reporting.py).  The path given to a   *)
(* canonical record is abstracted to the leaf it came from; how names are  *)
(* chosen, and when they collide, is the subject of module Planner.        *)
(***************************************************************************)
EXTENDS Naturals

CONSTANTS
    Proc,       \* processes working on this destination
    N,          \* number of leaves of the source, in portable provenance order
    Digest,     \* SHA-256 digests of the contents that occur
    Policy,     \* policies an operator may ask for
    PdfOnly,    \* the policies with pdf_only set
    Absent      \* no content

ASSUME PlanAssumption ==
    /\ N \in Nat \ {0}
    /\ PdfOnly \subseteq Policy
    /\ Absent \notin Digest

Leaf == 1 .. N

\* A leaf that was read has an id made of its sort key alone; a failure has
\* the reason hashed in as well, so one leaf can own several records.
Kind == {"ok", "unreadable", "limit"}
Id == Leaf \X Kind

Verdicts == {"eligible", "unprocessed", "skipped"}

Occurrence == [digest : Digest \cup {Absent}, status : Verdicts \cup {"none"}]

NoOccurrence == [digest |-> Absent, status |-> "none"]
Failure == [digest |-> Absent, status |-> "unprocessed"]

PlanRecord == [digest : Digest \cup {Absent},
               status : Verdicts \cup {"none", "published", "duplicate"},
               canonical : Leaf \cup {0}]

NoPlan == [i \in Id |-> [digest |-> Absent, status |-> "none", canonical |-> 0]]

Publishable(r, policy) ==
    /\ r.digest # Absent
    /\ \/ r.status = "eligible"
       \/ r.status = "unprocessed" /\ policy \notin PdfOnly

\* Leaf l carries publishable bytes that no earlier publishable leaf carries.
\* Mutant: an occurrence of known bytes is given a path of its own.
NeverFirst(o, policy, l) == Publishable(o[<<l, "ok">>], policy)

FirstOfItsBytes(o, policy, l) ==
    /\ Publishable(o[<<l, "ok">>], policy)
    /\ \A m \in Leaf :
         (m < l /\ Publishable(o[<<m, "ok">>], policy))
            => o[<<m, "ok">>].digest # o[<<l, "ok">>].digest

CanonicalLeaf(o, policy, d) ==
    CHOOSE l \in Leaf : o[<<l, "ok">>].digest = d /\ FirstOfItsBytes(o, policy, l)

PlanEntry(o, policy, i) ==
    LET r == o[i] IN
    IF ~Publishable(r, policy)
      THEN [digest |-> r.digest, status |-> r.status, canonical |-> 0]
    ELSE IF i[2] = "ok" /\ FirstOfItsBytes(o, policy, i[1])
      THEN [digest |-> r.digest, canonical |-> i[1],
            status |-> IF r.status = "eligible" THEN "published" ELSE r.status]
    ELSE [digest |-> r.digest, status |-> "duplicate",
          canonical |-> CanonicalLeaf(o, policy, r.digest)]

PlanOf(o, policy) == [i \in Id |-> PlanEntry(o, policy, i)]

\* The leaves whose record is canonical: one public file each.
Canonical(pl) == {l \in Leaf : pl[<<l, "ok">>].canonical = l}

Outcomes == {"none", "complete", "partial"}

OutcomeOf(pl) ==
    IF \E i \in Id : pl[i].status = "unprocessed" THEN "partial" ELSE "complete"
=============================================================================
