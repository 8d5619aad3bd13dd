\* Three sessions with two versions, two cached frames and a file that changes;
\* tables of two columns and up to four rows; files of two columns and up to six rows;
\* recipes of up to two steps over two versions and a child; catalogs of three KPIs;
\* days around the turns of months and years; an export over what
\* others left, and two packages.
SPECIFICATION Spec
CONSTANTS
    Session = {s1, s2, s3}
    Version = {v1, v2}
    None = None
    MaxEntries = 2
    MaxWrites = 1
    x = x
    y = y
    Column <- MCColumn
    Tables <- MCTables
    Alternatives <- MCAlternatives
    MaxLevels = 2
    IdentifierMin = 2
    MaxCustom = 2
    MinGroup = 2
    MinPairs = 2
    Strip <- MCStrip
    Lower <- MCLower
    CanRead <- MCCanRead
    SomeTexts <- MCSomeTexts
    MinBins = 2
    MaxBins = 4
    MaxCardinality = 3
    MaxSteps = 2
    Unmade = Unmade
    OneHotDefault = 3
    FirstFrames <- MCFrames
    FirstRecipes <- MCRecipes
    StudioSteps <- MCStudioSteps
    MaxVersions = 3
    MaxBuilt = 2
    ea = ea
    eb = eb
    ec = ec
    ColumnSeq <- MCColumnSeq
    MissingLabel = 90
    OtherLabel = 95
    PlotRows = 2
    TopMax = 2
    RareBelow = 2
    QQMin = 2
    OutlierColumns = 1
    CorrColumns = 2
    AssocColumns = 2
    PairsMax = 1
    HistogramMin = 2
    HistogramMax = 3
    EdaFrames <- MCEdaFrames
    GuideMax = 6
    SkewAbove = 1
    DefaultSample = 6
    MaxRowsInMemory = 5
    NameStrip <- MCStripName
    NameLower <- MCLowerName
    NameQuoted <- MCQuoteName
    PlaceholderNames = {"unknown"}
    NullThreshold = 20
    IdentifierNames = {"id", "ID"}
    ContentRows = 2
    ContentColumns = 1
    GroupColumns = 1
    PerStrategy = 1
    RecordRows = 3
    ScanRows = 3
    MaxCallouts = 5
    CategoryValues = 1
    WideAbove = 1
    IdentifierRows = 2
    DatetimeMin = 2
    Inputs <- MCInputs
    RecordColumns = 1
    MaxExplanations = 1
    CatalogFiles <- MCCatalogFiles
    CatalogEdits <- MCCatalogEdits
    MaxCatalogChanges = 1
    TimeInputs <- MCTimeInputs
    PageInputs <- MCPageInputs
    ProfiledRuns <- MCProfiledRuns
    FirstStars <- MCFirstStars
    BuildInputs <- MCBuildInputs
    Listing <- MCListing
    MaxExports = 1
    MaxBuilds = 2
SYMMETRY MCSymmetry
INVARIANTS
    OwnFramesOnly
    ChartsAddUp
    OfferedIsDrawn
    OfferedIsRun
    PanelsAgree
    ReplayReproducesVersion
    NothingReplacedUnasked
    AdmittedIsUsedAsWritten
    ChunkedIsPartOfFull
    ScoreIsExplained
    PreviewIsHonest
    CatalogIsOrdered
    CalendarIsAligned
    PackageIsConnected
