SPECIFICATION ActiveSpec
CONSTANTS
    Users = {owner}
    Owner = owner
    Requests = {r1, r2}
    Proposals = {p1, p2}
    Objections = {o1}
    Sessions = {s1}
    Contents = {c1}
    Quorums = {60}
    Operations <- TransitionOperations
SYMMETRY Symmetry
PROPERTIES ArchivedIsTerminal
CHECK_DEADLOCK FALSE
