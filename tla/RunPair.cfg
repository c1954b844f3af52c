SPECIFICATION Spec
CONSTANTS
    Proc = {p1, p2}
    N = 2
    d1 = d1
    d2 = d2
    plain = plain
    pdfonly = pdfonly
    Digest = {d1, d2}
    Policy = {plain}
    PdfOnly = {}
    Absent = Absent
    Foreign = Foreign
    Torn = Torn
    MaxMembers = 2
    EditsWhileRunning = TRUE
    Verdict <- MCVerdict
    Budget <- PairBudget
INVARIANTS
    IdentityHeld
    BlobsCoverJournal
    ExitTrue
PROPERTIES
    PlanWrittenOnce
SYMMETRY Exchange
