\* A save, a confirmation and a scan on overlapping names; three versions and
\* one act of a user; three exports into one folder, one cut short in its append.
SPECIFICATION WorkspaceSpec
CONSTANTS
    Attempt = {a1}
    Saver = {v1}
    s1 = s1
    n1 = n1
    n2 = n2
    Stem <- MCStem
    Name <- MCName
    MaxSuffix = 1
    Candidate <- MCCandidate
    Preexisting <- MCPreexisting
    Foreign = Foreign
    NoOne = NoOne
    MaxEntries = 3
    MaxCandidates = 2
    ForeignRecord <- MCForeignRecord
    r1 = r1
    r2 = r2
    r3 = r3
    d1 = d1
    d2 = d2
    Run <- MCRun
    Dataset <- MCDataset
    DatasetOf <- MCDatasetOf
    Garbage = Garbage
    MaxTorn = 1
    i1 = i1
    i2 = i2
    i3 = i3
    p1 = p1
    q1 = q1
    c1 = c1
    c2 = c2
    Id <- MCId
    ShortOf <- MCShortOf
    Content <- MCContent
    NoId = NoId
    MaxNodes = 1
    MaxEdits = 1
SYMMETRY MCSymmetry
CONSTRAINT MCOneDisturbance
INVARIANTS
    ScanIsComplete
    ListedIsUnambiguous
    LineageIsMutual
    HistoryIsKept
PROPERTIES
    SavesAreKept
    ClickReopensItsRow
\* Every call may have returned: then nothing is left to do.
CHECK_DEADLOCK FALSE
