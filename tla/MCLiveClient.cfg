CONSTANTS
    c1 = c1
    c2 = c2
    c3 = c3
    read = read
    picky = picky
    unlisted = unlisted
    write = write
    planned = planned
    unregistered = unregistered
    public = public
    Commands <- MCCommands
    Ids <- MCIds
    Allowlisted <- MCAllowlisted
    ManifestReads <- MCManifestReads
    Implemented <- MCImplemented
    RegistryReads <- MCRegistryReads
    NeedsInput <- MCNeedsInput
    OtherPeers = {public}
    MaxSession = 2
    IdleTimeout = 1
    CommandTimeout = 2
    MaxNow = 9
SPECIFICATION LiveSpec
SYMMETRY MCSymmetry
CHECK_DEADLOCK FALSE
INVARIANTS
    LiveTypeOK
    OnlyGatedReadsSent
    StrayOnlyByReconnect
    OverrunBounded
