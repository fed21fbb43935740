SPECIFICATION FairSpec
CONSTANTS
    Decisions = {d1}
    Workers = {w1, w2}
    MaxChanges = 3
    MaxFaults = 1
PROPERTY EveryChangeIsIndexed
CHECK_DEADLOCK FALSE
