CONSTANTS
    two = two
    one = one
    forged = forged
    bad = bad
    formless = formless
    bare = bare
    f1 = f1
    f2 = f2
    f3 = f3
    f4 = f4
    f5 = f5
    raw = raw
    Calls <- MCCalls
    Commands <- MCCommands
    WithRunner <- MCWithRunner
    Canonical <- MCCanonical
    BadInput <- MCBadInput
    FramesOf <- MCFramesOf
    Rejecting = {"invalid"}
    Accepting = {"data", "ack"}
    Exchanges <- MCExchanges
SPECIFICATION FairInvocationSpec
CHECK_DEADLOCK FALSE
INVARIANTS
    InvocationTypeOK
    ParsesNormalResultsOnly
    StopsAtFirstFailure
    OnlyVouchedFramesSent
PROPERTIES
    StartedCallsEnd
