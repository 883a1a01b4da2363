CONSTANTS
    c1 = c1
    c2 = c2
    c3 = c3
    s1 = s1
    s2 = s2
    NoSignal = NoSignal
    Commands <- MCPair
    Signals <- MCTwoSignals
    SignalOf <- MCOwnSignals
    TimeoutSignals <- MCTimeoutSignals
    Results <- RunnerResults
    Streaming = TRUE
    MaxOutputBytes = 1
    Sizes = {0, 1, 2}
    AbortReplies = {"ignore", "reject", "time_out"}
SPECIFICATION FairRunnerSpec
CHECK_DEADLOCK FALSE
INVARIANTS
    AnswerIsOwn
    VerdictIsTrue
    NoTimerLeft
PROPERTIES
    AcceptedEnds
