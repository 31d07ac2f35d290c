SPECIFICATION MCSpec
CONSTANTS
    p1 = p1
    p2 = p2
    Workers = {w1, w2}
    Peers = {p1, p2}
    Requests <- RunRequests
    NoAnnounce = NoAnnounce
    PeerTTL = 2
    MaxNumWant = 2
    Restriction = "whitelist"
    Refusals = {"SETEX", "RENAME"}
    MaxAnnounces = 2
INVARIANTS
    TypeOK
    NoGhostPeers
    KeptForPeerTTL
    WithinNumWant
    DownloadsBacked
    CalmAnswerExact
    NoKeyCountedTwice
    NeverPermittedNeverTracked
PROPERTY
    ImplementsPeerTable
SYMMETRY MCSymmetry
CHECK_DEADLOCK FALSE
