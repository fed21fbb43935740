SPECIFICATION ServicesSpec
CONSTANTS
    Decisions = {d1, d2, d3}
    Reviews = {v1, v2}
    Requests = {r1, r2}
    ann = ann
    bob = bob
    eve = eve
    phone = phone
    laptop = laptop
    Members = {ann, bob}
    Role <- OwnerAnd
    Actions = {a1}
    Devices = {phone, laptop}
    MaxParticipants = 2
    MaxLapses = 1
    Guests = {ann, bob, eve}
    GuestOn <- GuestOnDevice
    GuestRole <- Viewers
    GuestCrowd = {eve}
    MemberOn <- MemberOnDevice
    MemberCrowd = {bob}
    Holders = {ann}
    Families = {i1, i2}
    MaxUses = 2
    MaxVersion = 2
    Emails = {m1, m2}
    Subjects = {i1, i2}
    Links = {l1, l2}
    Comments = {n1}
    Texts = {"to one", "to both", "to none"}
    Mentioned <- InText
    Rows = {d1, d2, d3}
    States = {d1, d2, d3}
    ProviderAccounts = {p1}
    EventTypes = {"decision.locked"}
    Recipients = {ann}
    Items = {"an action", "a decision"}
    Kind <- KindOfItem
    People <- ConcernedBy
    Scans = {r1, r2}
    Window = 1
    MaxTime = 1
    Criteria = {d1, d2, d3}
    Proposals = {p1}
SYMMETRY Interchangeable
INVARIANTS ServicesTypeOK RevisionsFormAChain RevisionsStand MeetingLimits OneLiveTokenPerFamily SignInsAgree NoticesFollowMentions OwnerStays ActiveHasToken PublishedOnce CriteriaStayInOrder
PROPERTIES EndsOnce
CHECK_DEADLOCK FALSE
