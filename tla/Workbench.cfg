\* One session among three versions and two files; two exports of three files each;
\* two detections and an import over one report path, then one reader; pairs of small
\* columns that are compared.
SPECIFICATION WorkbenchSpec
CONSTANTS
    Version = {v1, v2, v3}
    Manual = {m1, m2}
    None = None
    MutationFails = TRUE
    Call = {c1, c2}
    Files = 3
    MaxWrites = 2
    MinExpected = 1
    PsiBins = 10
    Frames <- MCComparedFrames
    MinSamples = 2
    MaxCategories = 2
    Detectors = {d1, d2}
    Importers = {i1}
    Readers = {q1}
    Runs = {1, 2}
    Paths = {p1}
    NoPath = NoPath
    Datasets = {"current", "other"}
    NoDataset = "any"
    Results <- MCResults
    Unlimited = Unlimited
    MaxOffenders = 1
    TopColumns = 1
    MaxHistory = 2
    RootText = {"w1", "w2"}
    OtherText = {"t"}
    EnvDatabase <- MCNoDatabase
    MaxEntered = 2
    MaxExports = 1
SYMMETRY MCSymmetry
INVARIANTS
    LineageIsTruth
    RefusedLeavesNothing
    AloneIsWhole
    VerifiedIsRead
    VerdictIsSymmetric
    QuietImportIsComplete
    DetailIsOfListedRuns
    TakenIsOfActive
PROPERTIES
    TrustIsNotOutranked
    TypedValuesStay
\* Exports and readers end.
CHECK_DEADLOCK FALSE
