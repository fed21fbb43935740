SPECIFICATION OpenSpec
CONSTANTS
    Users = {owner, member}
    Owner = owner
    Requests = {r1, r2}
    Proposals = {p1, p2}
    Objections = {o1}
    Sessions = {s1}
    Contents = {c1}
    Quorums = {50}
    Operations <- BallotOperations
SYMMETRY Symmetry
INVARIANTS ApprovedWinnerLeads
CHECK_DEADLOCK FALSE
