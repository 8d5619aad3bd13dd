\* Two operators clean among two calls, whose files may or may not look a day old.
SPECIFICATION MSpec
CONSTANTS
    Attempt = {a1, a2}
    Cleaner = {c1, c2}
    MaxBatch = 2
    MaxFaults = 1
    s1 = s1
    n1 = n1
    n2 = n2
    Stem <- MCStem
    Name <- MCName
    MaxSuffix = 0
    Candidate <- MCCandidate
    Preexisting <- MCEmpty
    Foreign = Foreign
    NoOne = NoOne
SYMMETRY MCSymmetry
INVARIANTS
    RegistrationComplete
PROPERTY LiveStagingIsKept
\* Every call may have returned or died, and nothing be left to clean.
CHECK_DEADLOCK FALSE
