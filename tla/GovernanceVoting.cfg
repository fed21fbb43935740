SPECIFICATION ScenariosSpec
CONSTANTS
    Users = {owner, member}
    Owner = owner
    Requests = {r1, r2}
    Proposals = {p1, p2}
    Objections = {o1}
    Sessions = {s1, s2}
    Contents = {c1, c2}
    Quorums = {60}
    Operations <- AllOperations
SYMMETRY Symmetry
INVARIANTS TypeOK ChoicesExist OneUnfinishedSession
PROPERTIES SnapshotIsFrozen FinishedSessionsAreFinal
CHECK_DEADLOCK FALSE
