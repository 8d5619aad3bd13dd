\* Two versions with up to four columns, one confirmed child, recipes of one or
\* two steps.
SPECIFICATION RecipeSpec
CONSTANTS
    Strip <- MCStrip
    Lower <- MCLower
    CanRead <- MCCanRead
    SomeTexts <- MCSomeTexts
    MinBins = 2
    MaxBins = 4
    MaxCardinality = 3
    MaxSteps = 2
    Unmade = Unmade
    OneHotDefault = 3
    FirstFrames <- MCFrames
    FirstRecipes <- MCRecipes
    StudioSteps <- MCStudioSteps
    MaxVersions = 3
    MaxBuilt = 2
INVARIANT
    AdmittedIsNotSkipped
CHECK_DEADLOCK FALSE
