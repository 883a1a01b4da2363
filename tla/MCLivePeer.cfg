CONSTANTS
    c1 = c1
    c2 = c2
    c3 = c3
    read = read
    picky = picky
    unlisted = unlisted
    write = write
    planned = planned
    unregistered = unregistered
    public = public
    Commands <- MCPair
    Ids <- MCIds
    Allowlisted <- MCAllowlisted
    ManifestReads <- MCManifestReads
    Implemented <- MCImplemented
    RegistryReads <- MCRegistryReads
    NeedsInput <- MCNeedsInput
    OtherPeers = {public}
    MaxSession = 2
    IdleTimeout = 1
    CommandTimeout = 2
    MaxNow = 4
SPECIFICATION LiveSpec
CHECK_DEADLOCK FALSE
INVARIANTS
    SentOnlyToLan
