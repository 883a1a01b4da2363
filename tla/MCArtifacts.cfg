CONSTANTS
    Files = {1, 2}
    Contents <- MCContents
    Corpus = {"a", "b"}
    Hidden = {}
    Absent = Absent
    NoExport = NoExport
    Missing = Missing
    Torn = Torn
    MaxEdits = 2
    MaxRuns = 2
SPECIFICATION Spec
CHECK_DEADLOCK FALSE
INVARIANTS
    OkMeansFresh
    RefusalTouchesNothing
    ArtifactsAgree
