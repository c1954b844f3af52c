SPECIFICATION Spec
CONSTANTS
    Proc = {p1}
    N = 2
    d1 = d1
    d2 = d2
    plain = plain
    pdfonly = pdfonly
    Digest = {d1, d2}
    Policy = {plain}
    PdfOnly = {}
    Absent = Absent
    Foreign = Foreign
    Torn = Torn
    MaxMembers = 2
    EditsWhileRunning = FALSE
    Verdict <- MCVerdict
    Budget <- FaultBudget
INVARIANTS
    OneRecordPerLeaf
