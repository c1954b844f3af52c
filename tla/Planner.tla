------------------------------ MODULE Planner -------------------------------
(***************************************************************************)
(* iter_freeze_plan (planner.py): occurrence records stream by in portable *)
(* provenance order; each is passed on unpublished, recognised as a        *)
(* duplicate, or given a path whose directories and file name are          *)
(* allocated from collision tables kept in a scratch database.             *)
(*                                                                         *)
(* A name is a text followed by the numeric suffixes it carries: foo_1.jpg *)
(* is foo.jpg with suffix 1, whether the number was in the source or was   *)
(* added here.  Three things are known of a text: what safe_component      *)
(* makes of it, what it folds to, and which text it is.                    *)
(***************************************************************************)
EXTENDS Naturals, Sequences

CONSTANTS
    M,          \* number of occurrence records
    Digest,
    Absent,     \* no digest
    Text,       \* raw texts of names and path components
    SafeText,   \* safe_component, on texts
    Fold,       \* collision_key, on texts
    Records,    \* occurrence records that may occur
    Policies,   \* [flatten, pdfOnly]: policy.layout = "flatten", policy.pdf_only
    MaxSuffix   \* bound on the suffixes tried; M of them are always enough

ASSUME PlannerAssumption ==
    /\ M \in Nat /\ MaxSuffix \in Nat
    /\ Absent \notin Digest
    /\ SafeText \in [Text -> Text] /\ Fold \in [Text -> Text]
    /\ Policies \subseteq [flatten : BOOLEAN, pdfOnly : BOOLEAN]

Name == [text : Text, suffixes : Seq(Nat)]
Statuses == {"eligible", "unprocessed", "skipped"}

Record == [digest : Digest \cup {Absent}, status : Statuses,
           name : Name, group : Name, ancestry : Seq(Name)]

ASSUME RecordsAssumption == Records \subseteq Record

VARIABLES
    policy,
    input,          \* the records, in provenance order
    pos,            \* the record being planned
    resolved,       \* directories already assigned to it
    canonical,      \* table canonical: the record that owns a digest, or 0
    occupied,       \* table occupied_files
    fileCursor,     \* table file_allocation_cursors, rows as a set
    assigned,       \* tables directory_assignments and occupied_directories
    dirCursor,      \* table directory_allocation_cursors
    out             \* the plan records yielded so far

plannerVars == <<policy, input, pos, resolved, canonical, occupied, fileCursor, assigned, dirCursor, out>>

Init ==
    /\ policy \in Policies
    /\ input \in [1 .. M -> Records]
    /\ pos = 1
    /\ resolved = <<>>
    /\ canonical = [d \in Digest |-> 0]
    /\ occupied = {}
    /\ fileCursor = {}
    /\ assigned = {}
    /\ dirCursor = {}
    /\ out = <<>>

-----------------------------------------------------------------------------
\* Names.

Safe(n) == [n EXCEPT !.text = SafeText[@]]
Suffixed(n, k) == [n EXCEPT !.suffixes = Append(@, k)]
Candidate(n, k) == IF k = 0 THEN n ELSE Suffixed(n, k)

Key(n) == [n EXCEPT !.text = Fold[@]]
DirKey(path) == [i \in DOMAIN path |-> Key(path[i])]

\* A cursor row is <<directory key, name key, next suffix>>.
CursorAt(rows, dir, base) ==
    IF \E k \in 0 .. MaxSuffix + 1 : <<dir, base, k>> \in rows
      THEN CHOOSE k \in 0 .. MaxSuffix + 1 : <<dir, base, k>> \in rows
      ELSE 0

MoveCursor(rows, dir, base, k) ==
    {r \in rows : r[1] # dir \/ r[2] # base} \cup {<<dir, base, k>>}

\* The first suffix, from the cursor on, that is not taken.
\* Mutant: the cursor is believed without a look at the table.
AtCursor(from, k, taken) == k = from

FirstFree(from, k, taken) ==
    /\ k >= from /\ k \notin taken
    /\ from .. k - 1 \subseteq taken

-----------------------------------------------------------------------------
\* The record at hand.

Current == input[pos]
Busy == pos <= M

\* Mutant: pdf_only does not hold back what could not be processed.
PublishUnprocessed(r) == r.digest # Absent /\ r.status \in {"eligible", "unprocessed"}

Publishable(r) ==
    /\ r.digest # Absent
    /\ r.status = "eligible" \/ (r.status = "unprocessed" /\ ~policy.pdfOnly)

RequestedName(r) == Safe(r.name)

\* A path without the components that are called name.
Without(name, path) ==
    LET kept[n \in 0 .. Len(path)] ==
          IF n = 0 THEN <<>>
          ELSE IF path[n] = name THEN kept[n - 1] ELSE Append(kept[n - 1], path[n])
    IN kept[Len(path)]

\* Group first, then the ancestry without the components that repeat the name.
Parts(r) ==
    IF policy.flatten THEN <<r.group>>
    ELSE <<r.group>> \o Without(RequestedName(r), r.ancestry)

\* Mutant: the next record is skipped.
SkipRecord == pos' = pos + 2

NextRecord == pos' = pos + 1

Yield(status, owner, path) ==
    /\ NextRecord
    /\ out' = Append(out, [status |-> status, canonical |-> owner, path |-> path])
    /\ resolved' = <<>>
    /\ UNCHANGED <<policy, input>>

PassRecord ==
    /\ Busy /\ ~Publishable(Current)
    /\ Yield(Current.status, 0, <<>>)
    /\ UNCHANGED <<canonical, occupied, fileCursor, assigned, dirCursor>>

\* Mutant: only a record with the same digest and the same name is a duplicate.
KnownByName(r) == \E i \in 1 .. pos - 1 :
    canonical[r.digest] = i /\ input[i].name = r.name

KnownBytes(r) == canonical[r.digest] # 0

\* Mutant: the table follows the last occurrence of a digest.
RememberLast == canonical' = [canonical EXCEPT ![Current.digest] = pos]

RememberFirst == UNCHANGED canonical

RepeatRecord ==
    /\ Busy /\ Publishable(Current) /\ KnownBytes(Current)
    /\ Yield("duplicate", canonical[Current.digest], out[canonical[Current.digest]].path)
    /\ RememberFirst
    /\ UNCHANGED <<occupied, fileCursor, assigned, dirCursor>>

Placing == Busy /\ Publishable(Current) /\ ~KnownBytes(Current)

-----------------------------------------------------------------------------
\* _portable_directories, one component at a time.

Part == Parts(Current)[Len(resolved) + 1]
Resolving == Placing /\ Len(resolved) < Len(Parts(Current))

\* An assignment is found again by its folded safe name and its raw spelling.
\* Mutant: by its folded safe name alone.
SameFolded(e, parent, part) == e.parent = parent /\ e.key = Key(Safe(part))

SameDirectory(e, parent, part) ==
    e.parent = parent /\ e.key = Key(Safe(part)) /\ e.raw = part

Enter(name) == resolved' = Append(resolved, name)

EnterKnownDirectory ==
    /\ Resolving
    /\ \E e \in assigned : SameDirectory(e, DirKey(resolved), Part) /\ Enter(e.assigned)
    /\ UNCHANGED <<policy, input, pos, canonical, occupied, fileCursor, assigned, dirCursor, out>>

DirectoryTaken(parent, name) ==
    \E e \in assigned : e.parent = parent /\ Key(e.assigned) = Key(name)

AssignDirectory ==
    /\ Resolving
    /\ LET parent == DirKey(resolved)
           safe == Safe(Part)
           taken == {k \in 0 .. MaxSuffix : DirectoryTaken(parent, Candidate(safe, k))}
       IN /\ ~\E e \in assigned : SameDirectory(e, parent, Part)
          /\ \E k \in 0 .. MaxSuffix :
                /\ FirstFree(CursorAt(dirCursor, parent, Key(safe)), k, taken)
                /\ Enter(Candidate(safe, k))
                /\ assigned' = assigned \cup
                      {[parent |-> parent, key |-> Key(safe), raw |-> Part,
                        assigned |-> Candidate(safe, k)]}
                /\ dirCursor' = MoveCursor(dirCursor, parent, Key(safe), k + 1)
    /\ UNCHANGED <<policy, input, pos, canonical, occupied, fileCursor, out>>

-----------------------------------------------------------------------------
\* The rest of _assign_path: the file name.  A file that is found at the name
\* with the same digest would be shared; the digest being unknown, there is none.

FileTaken(dir, name, d) ==
    \E f \in occupied : f.dir = dir /\ f.key = Key(name) /\ f.digest # d

\* Mutant: the cursor is moved past the next suffix.
LeapCursor(dir, base, k) == fileCursor' = MoveCursor(fileCursor, dir, base, k + 2)

AdvanceCursor(dir, base, k) == fileCursor' = MoveCursor(fileCursor, dir, base, k + 1)

PlaceFile ==
    /\ Placing /\ Len(resolved) = Len(Parts(Current))
    /\ LET dir == DirKey(resolved)
           d == Current.digest
           wanted == RequestedName(Current)
           taken == {k \in 0 .. MaxSuffix : FileTaken(dir, Candidate(wanted, k), d)}
       IN \E k \in 0 .. MaxSuffix :
             /\ FirstFree(CursorAt(fileCursor, dir, Key(wanted)), k, taken)
             /\ occupied' = occupied \cup
                   {[dir |-> dir, key |-> Key(Candidate(wanted, k)), digest |-> d]}
             /\ AdvanceCursor(dir, Key(wanted), k)
             /\ canonical' = [canonical EXCEPT ![d] = pos]
             /\ Yield(IF Current.status = "eligible" THEN "published" ELSE Current.status,
                      pos, Append(resolved, Candidate(wanted, k)))
    /\ UNCHANGED <<assigned, dirCursor>>

Next == PassRecord \/ RepeatRecord \/ EnterKnownDirectory \/ AssignDirectory \/ PlaceFile

Finished == pos = M + 1 /\ UNCHANGED plannerVars

Spec == Init /\ [][Next \/ Finished]_plannerVars

-----------------------------------------------------------------------------

TypeOK ==
    /\ policy \in Policies
    /\ input \in [1 .. M -> Records]
    /\ pos \in 1 .. M + 1
    /\ resolved \in Seq(Name)
    /\ canonical \in [Digest -> 0 .. M]
    /\ occupied \subseteq [dir : Seq(Name), key : Name, digest : Digest]
    /\ fileCursor \subseteq Seq(Name) \X Name \X Nat
    /\ assigned \subseteq [parent : Seq(Name), key : Name, raw : Name, assigned : Name]
    /\ dirCursor \subseteq Seq(Name) \X Name \X Nat
    /\ out \in Seq([status : Statuses \cup {"published", "duplicate"},
                     canonical : 0 .. M, path : Seq(Name)])
    /\ Len(out) = pos - 1

IsCanonical(i) == out[i].canonical = i
PathKey(i) == DirKey(out[i].path)
FileName(i) == out[i].path[Len(out[i].path)]
Planned == {i \in DOMAIN out : IsCanonical(i)}

\* No insertion into a scratch table breaks its primary key, which would end the
\* run with an error (occupy_file, assign_directory).
KeysUnique ==
    /\ \A e, f \in occupied : e.dir = f.dir /\ e.key = f.key => e = f
    /\ \A e, f \in assigned :
          e.parent = f.parent /\ Key(e.assigned) = Key(f.assigned) => e = f
    /\ \A q, r \in fileCursor : q[1] = r[1] /\ q[2] = r[2] => q = r
    /\ \A q, r \in dirCursor : q[1] = r[1] /\ q[2] = r[2] => q = r

\* Distinct contents get paths that stay distinct where letter case does not
\* count, although suffixed names can meet names that had the number already.
PathsDistinct == \A i, j \in Planned : PathKey(i) = PathKey(j) => i = j

\* Directories are renamed one for one: records share a public directory exactly
\* when they share the raw one, on the whole of the path (_portable_directories).
DirectoriesFaithful ==
    \A i, j \in Planned :
        \A n \in 1 .. Len(out[i].path) - 1 :
            n < Len(out[j].path) =>
                (SubSeq(PathKey(i), 1, n) = SubSeq(PathKey(j), 1, n)
                 <=> SubSeq(Parts(input[i]), 1, n) = SubSeq(Parts(input[j]), 1, n))

\* name.ext, name_1.ext, name_2.ext: a suffix is used only when all the smaller
\* ones went to earlier records of the same directory (_assign_path).
NoSuffixGap ==
    \A i \in Planned, k \in 1 .. MaxSuffix :
        LET wanted == RequestedName(input[i])
            Place(n) == [PathKey(i) EXCEPT ![Len(PathKey(i))] = Key(Candidate(wanted, n))]
        IN FileName(i) = Suffixed(wanted, k) =>
              \A n \in 0 .. k - 1 : \E j \in Planned : j < i /\ PathKey(j) = Place(n)

\* The decisions of the stream are those of module Plan, on which the other
\* modules rest: first publishable occurrence of a digest in provenance order.
Decision == INSTANCE Plan WITH
    Proc <- {}, N <- M, Policy <- BOOLEAN, PdfOnly <- {TRUE}

DecidesAsPlan ==
    LET o == [i \in Decision!Id |->
                 IF i[2] = "ok"
                   THEN [digest |-> input[i[1]].digest, status |-> input[i[1]].status]
                   ELSE Decision!NoOccurrence]
        planned == Decision!PlanOf(o, policy.pdfOnly)
    IN pos = M + 1 =>
         \A i \in 1 .. M : /\ out[i].status = planned[<<i, "ok">>].status
                           /\ out[i].canonical = planned[<<i, "ok">>].canonical

\* A duplicate carries the path of the canonical record it names.
DuplicatesPoint ==
    \A i \in DOMAIN out : out[i].status = "duplicate" =>
        /\ out[i].canonical \in Planned /\ out[i].canonical < i
        /\ out[i].path = out[out[i].canonical].path
        /\ input[i].digest = input[out[i].canonical].digest

\* No file is planned where another planned path needs a directory.
PathsPublishable ==
    \A i, j \in Planned : \A n \in 1 .. Len(out[j].path) - 1 :
        PathKey(i) # SubSeq(PathKey(j), 1, n)

\* A run with an unprocessed item does not end as a complete result.
OutcomeHonest ==
    pos = M + 1 /\ (\E i \in 1 .. M : input[i].status = "unprocessed")
       => \E i \in 1 .. M : out[i].status = "unprocessed"
=============================================================================
