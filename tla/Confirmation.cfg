\* Two concurrent confirmations on overlapping stems, every failure possible.
SPECIFICATION FairSpec
CONSTANTS
    Attempt = {a1, a2}
    s1 = s1
    s2 = s2
    n1 = n1
    n2 = n2
    n3 = n3
    Stem <- MCStem
    Name <- MCName
    MaxSuffix = 1
    Candidate <- MCCandidate
    Preexisting <- MCPreexisting
    Foreign = Foreign
    NoOne = NoOne
INVARIANTS
    RegistrationComplete
    StatusIsTruth
    StagingIsSwept
PROPERTIES
    PublicationIsExclusive
    RegistryIsImplemented
    EveryCallReturns
\* Every call may have returned or died: then nothing is left to do.
CHECK_DEADLOCK FALSE
