SPECIFICATION Spec
CONSTANTS
    Events = {e1}
    Connections = {c1}
    Workers = {w1, w2}
    MaxAttempts = 2
    Faults = {"Crash", "Reconnect", "LostPublish", "SkipLocked", "Error"}
    MaxFaults = 1
SYMMETRY Symmetry
INVARIANTS TypeOK AttemptsBounded PostsBounded SubscribersReached
PROPERTIES DeliveredStays
CHECK_DEADLOCK FALSE
