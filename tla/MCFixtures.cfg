CONSTANTS
    Paths <- MCPaths
    Given <- MCGiven
    Root <- MCRoot
    Input <- MCInput
    DotNames = {"..out", "..prov"}
    Sources <- MCSources
    Edits <- MCEdits
    MaxImports = 2
SPECIFICATION Spec
CHECK_DEADLOCK FALSE
INVARIANTS
    ProvenanceNeverAhead
    PassesAgree
PROPERTY
    OnlyFixturesChange
