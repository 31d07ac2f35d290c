SPECIFICATION Spec
CONSTANTS
    p1 = p1
    p2 = p2
    Workers = {w1, w2}
    Peers = {p1, p2}
    Requests <- MCRequests
    NoAnnounce = NoAnnounce
    PeerTTL = 2
    MaxNumWant = 2
    Restriction = "none"
    Refusals = {}
    MaxAnnounces = 3
INVARIANT
    ListedKeysReadable
CHECK_DEADLOCK FALSE
