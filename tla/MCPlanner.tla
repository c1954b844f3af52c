----------------------------- MODULE MCPlanner ------------------------------
(***************************************************************************)
(* Instances of Planner for TLC.  The texts are those of "x_", "X_", "x?"  *)
(* (which safe_component turns into "x_") and "y".                         *)
(***************************************************************************)
EXTENDS Planner, TLC

CONSTANTS d1, d2, d3

MCText == {"x_", "X_", "x?", "y", "g"}
MCSafeText == [t \in MCText |-> IF t = "x?" THEN "x_" ELSE t]
MCFold == [t \in MCText |-> IF t = "X_" THEN "x_" ELSE t]

Plain(t) == [text |-> t, suffixes |-> <<>>]
Numbered(t, k) == [text |-> t, suffixes |-> <<k>>]
Entry(d, status, name, ancestry) ==
    [digest |-> d, status |-> status, name |-> name, group |-> Plain("g"), ancestry |-> ancestry]

\* Files for one directory.
FileRecords ==
    {Entry(d, "eligible", n, <<>>) :
        d \in Digest, n \in {Plain("x_"), Plain("X_"), Numbered("x_", 1)}}

\* Files below directories whose names differ in case, in an unsafe character
\* or in a number; some directories are named like the file.
DirectoryRecords ==
    {Entry(d, "eligible", Plain("x_"), a) :
        d \in Digest,
        a \in {<<Plain("x_")>>, <<Plain("x?")>>, <<Plain("X_")>>, <<Numbered("x_", 1)>>,
               <<Plain("x?"), Plain("X_")>>}}

\* Bytes that are refused, under a name that is accepted elsewhere or not, and
\* records without bytes.
RefusedRecords ==
    {Entry(d, "unprocessed", Plain("x_"), <<>>) : d \in Digest}
    \cup {Entry(d, "skipped", Plain("y"), <<>>) : d \in Digest}
    \cup {Entry(Absent, "unprocessed", Plain("x_"), <<>>)}

AllRecords == FileRecords \cup DirectoryRecords \cup RefusedRecords
NestingRecords == {Entry(d, "eligible", Numbered("x_", 1), <<>>) : d \in Digest} \cup DirectoryRecords

AllPolicies == {[flatten |-> FALSE, pdfOnly |-> FALSE], [flatten |-> TRUE, pdfOnly |-> TRUE]}
DefaultPolicy == {[flatten |-> FALSE, pdfOnly |-> FALSE]}

\* Digests are interchangeable.
Exchange == Permutations(Digest)
=============================================================================
