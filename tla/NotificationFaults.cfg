SPECIFICATION Spec
CONSTANTS
    Notifications = {n1}
    Workers = {w1, w2}
    MaxAttempts = 3
    Faults = {"Crash", "Reconnect", "LostPublish", "SkipLocked"}
    MaxFaults = 1
SYMMETRY Symmetry
INVARIANTS TypeOK EmailsBounded FailedMeansExhausted OneSender RetriesAgree
PROPERTIES TerminalIsFinal KeepsPromise
CHECK_DEADLOCK FALSE
