SPECIFICATION FairSpec
CONSTANTS
    Notifications = {n1}
    Events = {v1}
    Connections = {c1}
    Uploaded = {f1}
    Documents = {x1}
    Decisions = {d1}
    FileRequests = {q1, q2}
    ExportRequests = {q1}
    Workers = {w1, w2}
    OneWorker = {w1}
    ReminderAttempts = 3
    TaskAttempts = 2
    ReminderFaults = {"Reconnect"}
    OutboxFaults = {"Crash", "LostPublish", "Error"}
    MaxFaults = 1
    MaxChanges = 3
INVARIANTS TypeOK
PROPERTIES EveryReminderEnds EverythingSettles EveryFileSettles ExportsSettleForGood QuietChangesAreIndexed
CHECK_DEADLOCK FALSE
