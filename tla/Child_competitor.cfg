\* A rollback removes the files of a version that a competitor has confirmed.
SPECIFICATION ChildSpec
CONSTANTS
    Attempt = {a1, a2}
    Child = {a1}
    s1 = s1
    s2 = s2
    n1 = n1
    n2 = n2
    n3 = n3
    Stem <- MCOneStem
    Name <- MCName
    MaxSuffix = 1
    MaxFaults = 1
    Candidate <- MCCandidate
    Preexisting <- MCEmpty
    Foreign = Foreign
    NoOne = NoOne
PROPERTY ConfirmedVersionSurvives
\* Every call may have finished or died: then nothing is left to do.
CHECK_DEADLOCK FALSE
