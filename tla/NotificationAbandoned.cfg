SPECIFICATION FairSpec
CONSTANTS
    Notifications = {n1}
    Workers = {w1}
    MaxAttempts = 2
    Faults = {"Crash"}
    MaxFaults = 1
PROPERTIES AbandonedLeasesAreRecovered
CHECK_DEADLOCK FALSE
