\* Two child confirmations, each of which may roll back while the other runs.
SPECIFICATION ChildSpec
CONSTANTS
    Attempt = {a1, a2}
    Child = {a1, a2}
    s1 = s1
    s2 = s2
    n1 = n1
    n2 = n2
    n3 = n3
    Stem <- MCStem
    Name <- MCName
    MaxSuffix = 1
    MaxFaults = 2
    Candidate <- MCCandidate
    Preexisting <- MCPreexisting
    Foreign = Foreign
    NoOne = NoOne
SYMMETRY MCSymmetry
INVARIANTS
    NotConfirmedLeavesNothing
PROPERTY EarlierFilesSurvive
\* Every call may have finished or died: then nothing is left to do.
CHECK_DEADLOCK FALSE
