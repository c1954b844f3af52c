------------------------------- MODULE Store --------------------------------
(***************************************************************************)
(* The private content-addressed store and the publication of a blob at a  *)
(* public path (storage.py).  A process stages one private file at a time  *)
(* (the name holds its pid) and one public stage at a time (a random name  *)
(* made by mkstemp beside the public path).  Files survive the death of a  *)
(* process.                                                                *)
(***************************************************************************)
EXTENDS Plan

CONSTANTS
    Foreign,    \* content another program put at a public path
    Torn        \* content that is not what was asked to be written

ASSUME StoreAssumption ==
    /\ Foreign \notin Digest /\ Torn \notin Digest
    /\ Foreign # Torn /\ Absent # Foreign /\ Absent # Torn
    /\ Absent \notin Proc

VARIABLES
    blobs,      \* digests with a file below .unpacksort/blobs
    tmp,        \* whose staging files are below .unpacksort/tmp
    stage,      \* what each process's public stage holds
    public,     \* what the path planned for each leaf holds
    orphans     \* leaves beside whose path a dead process left its stage

\* In tmp: a process that died; another one never writes the same name again.
Dead == Absent

storeVars == <<blobs, tmp, stage, public, orphans>>

StoreTypeOK ==
    /\ blobs \subseteq Digest
    /\ tmp \subseteq Proc \cup {Dead}
    /\ stage \in [Proc -> Digest \cup {Absent, Torn}]
    /\ public \in [Leaf -> Digest \cup {Absent, Foreign}]
    /\ orphans \subseteq Leaf

StoreInit ==
    /\ blobs = {}
    /\ tmp = {}
    /\ stage = [p \in Proc |-> Absent]
    /\ public = [l \in Leaf |-> Absent]
    /\ orphans = {}

\* BlobStore.cleanup_incomplete: every blob-*.tmp, whoever is writing it.
\* Mutant: the staging files of dead processes stay.
CleanupNothing == tmp' = tmp

CleanupIncomplete == tmp' = {}

\* ingest_stream up to the fsync of the temporary file.
StageBlob(p) == tmp' = tmp \cup {p} /\ UNCHANGED <<blobs, stage, public, orphans>>

DropTemporary(p) == tmp' = tmp \ {p} /\ UNCHANGED <<blobs, stage, public, orphans>>

\* ingest_stream from final.exists() to the fsync of the directory.
\* Mutant: the temporary file is dropped although no committed blob exists.
DiscardBlob(p, d) == tmp' = tmp \ {p} /\ UNCHANGED blobs

RenameBlob(p, d) == tmp' = tmp \ {p} /\ blobs' = blobs \cup {d}

CommitBlob(p, d) == p \in tmp /\ RenameBlob(p, d) /\ UNCHANGED <<stage, public, orphans>>

\* publish up to the fsync of the stage; the copy may come out damaged.
CopyToStage(p, d, copied) ==
    /\ d \in blobs
    /\ copied \in {d, Torn}
    /\ stage' = [stage EXCEPT ![p] = copied]
    /\ UNCHANGED <<blobs, tmp, public, orphans>>

\* _hash_closed_stage and the comparison with the blob.
\* Mutant: the copy is trusted.
TrustStage(p, d) == stage[p] # Absent

StageMatches(p, d) == stage[p] = d

\* os.link: creates the public name, or fails because it exists.
\* Mutant: the stage is renamed over whatever the public name holds.
RenameOverPublic(p, l) == public' = [public EXCEPT ![l] = stage[p]]

LinkPublic(p, l) == public[l] = Absent /\ public' = [public EXCEPT ![l] = stage[p]]

CommitWithoutClobbering(p, l) == LinkPublic(p, l) /\ UNCHANGED <<blobs, tmp, stage, orphans>>

UnlinkStage(p) == stage' = [stage EXCEPT ![p] = Absent] /\ UNCHANGED <<blobs, tmp, public, orphans>>

\* A process that is killed leaves its files; one that unwinds removes them.
Abandon(p, l) ==
    /\ orphans' = IF stage[p] # Absent THEN orphans \cup {l} ELSE orphans
    /\ stage' = [stage EXCEPT ![p] = Absent]
    /\ tmp' = IF p \in tmp THEN (tmp \ {p}) \cup {Dead} ELSE tmp
    /\ UNCHANGED <<blobs, public>>

Unwind(p) ==
    /\ stage' = [stage EXCEPT ![p] = Absent]
    /\ tmp' = tmp \ {p}
    /\ UNCHANGED <<blobs, public, orphans>>
=============================================================================
