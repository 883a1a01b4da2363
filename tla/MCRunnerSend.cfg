CONSTANTS
    c1 = c1
    c2 = c2
    c3 = c3
    s1 = s1
    s2 = s2
    NoSignal = NoSignal
    Commands <- MCCommands
    Signals <- MCTwoSignals
    SignalOf <- MCOwnSignals
    TimeoutSignals <- MCTimeoutSignals
    Results <- RunnerResults
    Streaming = FALSE
    MaxOutputBytes = 1
    Sizes = {1, 2}
    AbortReplies = {"ignore", "reject", "time_out"}
SPECIFICATION RunnerSpec
CHECK_DEADLOCK FALSE
INVARIANTS
    RunnerTypeOK
    AnswerIsOwn
    AnsweredIsOffTheWire
    CloseSparesOthers
    TimeoutIsHard
    VerdictIsTrue
    NoTimerLeft
PROPERTIES
    ImplementsQueue
