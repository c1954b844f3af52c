------------------------------ MODULE Outputs -------------------------------
(***************************************************************************)
(* manifest.jsonl and report.txt (reporting.py): each is written to one    *)
(* temporary name, shared by every process, and renamed into place.        *)
(***************************************************************************)
EXTENDS Plan

VARIABLES
    files,      \* what stands under each final name: {} or {a body}
    writing     \* what stands under each temporary name: {} or {a draft}

outputVars == <<files, writing>>

Out == {"manifest", "report"}

\* A body is complete (all its lines are there) or a prefix; the report also says
\* how many members were charged and how the run came out.
Body == [full : BOOLEAN, members : Nat, result : Outcomes]
Draft == [by : Proc, body : Body]

OutputTypeOK ==
    /\ files \in [Out -> SUBSET Body]
    /\ writing \in [Out -> SUBSET Draft]

OutputInit ==
    /\ files = [f \in Out |-> {}]
    /\ writing = [f \in Out |-> {}]

Rendering(f, members, result) ==
    [full |-> TRUE, members |-> IF f = "report" THEN members ELSE 0,
     result |-> IF f = "report" THEN result ELSE "none"]
Blank == [full |-> FALSE, members |-> 0, result |-> "none"]

\* unlink(missing_ok) and open("x"), taken as one step.
OpenDraft(p, f) ==
    /\ writing' = [writing EXCEPT ![f] = {[by |-> p, body |-> Blank]}]
    /\ UNCHANGED files

\* The lines go to the file this process opened, whose name may be gone.
FillDraft(p, f, members, result) ==
    /\ writing' = [writing EXCEPT ![f] =
          {IF d.by = p THEN [d EXCEPT !.body = Rendering(f, members, result)] ELSE d : d \in @}]
    /\ UNCHANGED files

\* temporary.replace(path): moves whatever the temporary name stands for.
ReplaceOutput(f) ==
    /\ writing[f] # {}
    /\ files' = [files EXCEPT ![f] = {d.body : d \in writing[f]}]
    /\ writing' = [writing EXCEPT ![f] = {}]

DropDraft(f) == writing' = [writing EXCEPT ![f] = {}] /\ UNCHANGED files
=============================================================================
