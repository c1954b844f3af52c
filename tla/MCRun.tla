------------------------------- MODULE MCRun --------------------------------
(***************************************************************************)
(* Instances of Run for TLC.                                               *)
(***************************************************************************)
EXTENDS Run, TLC

CONSTANTS d1, d2, plain, pdfonly

\* d2 is refused by detection when it is the second leaf (say a broken PDF),
\* and is no PDF anywhere; d1 is a PDF.
MCVerdict ==
    [x \in Policy \X Leaf \X Digest |->
        IF x[3] = d2 /\ x[2] = 2 THEN "unprocessed"
        ELSE IF x[3] = d2 /\ x[1] \in PdfOnly THEN "skipped"
        ELSE "eligible"]

Disturb(crash, fault, fingerprint, damage, intrusion, edit) ==
    [crash |-> crash, fault |-> fault, fingerprint |-> fingerprint,
     damage |-> damage, intrusion |-> intrusion, edit |-> edit]

SafetyBudget == Disturb(1, 1, 0, 1, 1, 1)
ResumeBudget == Disturb(2, 0, 1, 1, 0, 2)
PairBudget == Disturb(0, 0, 0, 0, 0, 1)
ProgressBudget == Disturb(2, 1, 0, 1, 0, 0)
FaultBudget == Disturb(1, 1, 0, 0, 0, 0)

\* The two processes of RunPair run the same command on the same destination.
Exchange == Permutations(Proc)
=============================================================================
