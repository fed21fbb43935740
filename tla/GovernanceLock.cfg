SPECIFICATION LockSpec
CONSTANTS
    Users = {owner, member}
    Owner = owner
    Requests = {r1, r2, r3}
    Proposals = {p1, p2}
    Objections = {o1}
    Sessions = {s1}
    Contents = {c1}
    Quorums = {60}
    Operations <- AllOperations
SYMMETRY Symmetry
INVARIANTS LockedIffApproved ApprovedOutcomeStands LockedWithQuorum BallotsAreLegitimate
PROPERTIES LockIsPermanent
CHECK_DEADLOCK FALSE
