SPECIFICATION FairSpec
CONSTANTS
    Workers = {w1, w2}
    Datagrams <- MCDatagrams
    Ids <- MCIds
    Restriction = "whitelist"
    Refusals = {"SETEX", "SISMEMBER"}
    Blocks = 5
    HashRoom = 2
    None = None
    MaxDatagrams = 2
    MaxEdits = 1
INVARIANTS
    TypeOK
    AnswersOwnDatagram
    ToldIdStored
    ScrapesPermitted
    GarbageOnlyLast
PROPERTIES
    ImplementsExchange
    RequestsFinish
CHECK_DEADLOCK FALSE
