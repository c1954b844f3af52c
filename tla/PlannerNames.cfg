SPECIFICATION Spec
CONSTANTS
    M = 3
    d1 = d1
    d2 = d2
    d3 = d3
    Digest = {d1, d2, d3}
    Absent = Absent
    MaxSuffix = 3
    Text <- MCText
    SafeText <- MCSafeText
    Fold <- MCFold
    Records <- AllRecords
    Policies <- AllPolicies
INVARIANTS
    TypeOK
    KeysUnique
    PathsDistinct
    NoSuffixGap
    DirectoriesFaithful
    DecidesAsPlan
    DuplicatesPoint
SYMMETRY Exchange
