SPECIFICATION FairSpec
CONSTANTS
    p1 = p1
    p2 = p2
    Workers = {w1, w2}
    Peers = {p1, p2}
    Requests <- LiveRequests
    NoAnnounce = NoAnnounce
    PeerTTL = 1
    MaxNumWant = 2
    Restriction = "none"
    Refusals = {}
    MaxAnnounces = 2
PROPERTIES
    AnnouncesFinish
    SwarmDrains
CHECK_DEADLOCK FALSE
