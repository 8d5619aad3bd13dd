\* One file of two columns, assessed by the managed pages before and after dqt.yaml is
\* edited, with the constants of Pages.cfg.
\* An assessment that was answered twice in the same way changes nothing: the run may stop.
SPECIFICATION AssessmentAlone
CONSTANTS
    Session = {s1, s2, s3}
    Version = {v1, v2}
    None = None
    MaxEntries = 2
    MaxWrites = 1
    x = x
    y = y
    Column <- MCColumn
    Tables <- MCTables
    Alternatives <- MCAlternatives
    MaxLevels = 2
    IdentifierMin = 2
    MaxCustom = 2
    MinGroup = 2
    MinPairs = 2
    Strip <- MCStrip
    Lower <- MCLower
    CanRead <- MCCanRead
    SomeTexts <- MCSomeTexts
    MinBins = 2
    MaxBins = 4
    MaxCardinality = 3
    MaxSteps = 2
    Unmade = Unmade
    OneHotDefault = 3
    FirstFrames <- MCFrames
    FirstRecipes <- MCRecipes
    StudioSteps <- MCStudioSteps
    MaxVersions = 3
    MaxBuilt = 2
    ea = ea
    eb = eb
    ec = ec
    ColumnSeq <- MCColumnSeq
    MissingLabel = 90
    OtherLabel = 95
    PlotRows = 2
    TopMax = 2
    RareBelow = 2
    QQMin = 2
    OutlierColumns = 1
    CorrColumns = 2
    AssocColumns = 2
    PairsMax = 1
    HistogramMin = 2
    HistogramMax = 3
    EdaFrames <- MCEdaFrames
    GuideMax = 6
    SkewAbove = 1
    DefaultSample = 6
    MaxRowsInMemory = 5
    NameStrip <- MCStripName
    NameLower <- MCLowerName
    NameQuoted <- MCQuoteName
    PlaceholderNames = {"unknown"}
    NullThreshold = 20
    IdentifierNames = {"id", "ID"}
    ContentRows = 2
    ContentColumns = 1
    GroupColumns = 1
    PerStrategy = 1
    RecordRows = 3
    ScanRows = 3
    MaxCallouts = 5
    CategoryValues = 1
    WideAbove = 1
    IdentifierRows = 2
    DatetimeMin = 2
    Inputs <- MCInputs
    RecordColumns = 1
    MaxExplanations = 1
    CatalogFiles <- MCCatalogFiles
    CatalogEdits <- MCCatalogEdits
    MaxCatalogChanges = 1
    TimeInputs <- MCTimeInputs
    PageInputs <- MCPageInputs
    ProfiledRuns <- MCProfiledRuns
    FirstStars <- MCFirstStars
    BuildInputs <- MCBuildInputs
    Listing <- MCListing
    MaxExports = 1
    MaxBuilds = 2
INVARIANT ManagedAssessmentIsOfRules
CHECK_DEADLOCK FALSE
