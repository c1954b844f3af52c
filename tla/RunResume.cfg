SPECIFICATION Spec
CONSTANTS
    Proc = {p1}
    N = 2
    d1 = d1
    d2 = d2
    plain = plain
    pdfonly = pdfonly
    Digest = {d1, d2}
    Policy = {plain, pdfonly}
    PdfOnly = {pdfonly}
    Absent = Absent
    Foreign = Foreign
    Torn = Torn
    MaxMembers = 1
    EditsWhileRunning = FALSE
    Verdict <- MCVerdict
    Budget <- ResumeBudget
INVARIANTS
    PlanIsReference
    OutputsWhole
    StagingReclaimed
