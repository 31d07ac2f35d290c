SPECIFICATION Spec
CONSTANTS
    Workers = {w1, w2}
    Datagrams <- MCDatagrams
    Ids <- MCIds
    Restriction = "whitelist"
    Refusals = {"SETEX", "SISMEMBER"}
    Blocks = 5
    HashRoom = 2
    None = None
    MaxDatagrams = 2
    MaxEdits = 1
INVARIANT
    AcceptedIdExists
CHECK_DEADLOCK FALSE
