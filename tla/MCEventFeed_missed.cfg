CONSTANTS
    PipeConns = {p1}
    TcpConns = {}
    Nobody = Nobody
    Windows = {w1}
    Null = Null
    Sessions = {}
    NoSession = NoSession
    SnapIds <- Ids
    PinFloor <- MinusOne
    max_snapshots = 1
    max_sessions = 1
    max_connections = 1
    Requests <- SubscriberRequests
    Configs <- OpenConfig
SPECIFICATION FeedSpec
INVARIANTS
    NoEventsMissed
