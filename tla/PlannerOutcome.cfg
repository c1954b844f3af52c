SPECIFICATION Spec
CONSTANTS
    M = 2
    d1 = d1
    d2 = d2
    d3 = d3
    Digest = {d1, d2}
    Absent = Absent
    MaxSuffix = 2
    Text <- MCText
    SafeText <- MCSafeText
    Fold <- MCFold
    Records <- AllRecords
    Policies <- DefaultPolicy
INVARIANTS
    OutcomeHonest
