\* Two detections that write to one report path, and an import after them.
SPECIFICATION EvidenceSpec
CONSTANTS
    MinExpected = 1
    PsiBins = 10
    Frames <- MCComparedFrames
    MinSamples = 2
    MaxCategories = 2
    Detectors = {d1}
    Importers = {i1}
    Readers = {}
    Runs = {1, 2}
    Paths = {p1}
    NoPath = NoPath
    Datasets = {"current"}
    NoDataset = "any"
    Results <- MCResults
    Unlimited = Unlimited
    MaxOffenders = 1
    TopColumns = 1
    MaxHistory = 2
INVARIANT EvidenceIsOwn
\* Every run id may be used.
CHECK_DEADLOCK FALSE
