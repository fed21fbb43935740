SPECIFICATION Spec
CONSTANTS
    ann = ann
    laptop = laptop
    Participants = {ann}
    Connections = {laptop}
    UserOf <- UserOfLaptop
    Role <- Facilitator
    Crowd = {}
    MaxParticipants = 1
    MaxLapses = 1
INVARIANTS HeartbeatsKeepPresence
CHECK_DEADLOCK FALSE
