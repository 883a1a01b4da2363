CONSTANTS
    c1 = c1
    c2 = c2
    c3 = c3
    c4 = c4
    s1 = s1
    NoSignal = NoSignal
    Commands <- MCCommands
    Signals <- MCSignals
    SignalOf <- MCSignalOf
    Results = {"done", "failed"}
SPECIFICATION FairQueueSpec
CHECK_DEADLOCK FALSE
INVARIANTS
    OneAtATimeInOrder
    NeverStalls
    NoListenerLeft
    QueueInv
PROPERTIES
    AbortedBeforeTurnNeverStarts
    ImplementsLine
    AcceptedSettles
