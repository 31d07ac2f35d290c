SPECIFICATION FairSpec
CONSTANTS
    Workers = {w1, w2}
    Clients = {a, b}
    Torn = Torn
    Contexts = {c1, c2, c3}
    NoContext = NoContext
    NoJob = NoJob
    Actions = {"announce", "error", "unknown"}
    MaxDatagrams = 2
PROPERTY
    SignalTerminates
CHECK_DEADLOCK FALSE
