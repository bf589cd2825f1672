CONSTANTS
    PipeConns = {}
    TcpConns = {t1, t2, t3}
    Nobody = Nobody
    Windows = {}
    Null = Null
    Sessions = {}
    NoSession = NoSession
    SnapIds <- Three
    PinFloor <- MinusOne
    max_snapshots = 1
    max_sessions = 1
    max_connections = 1
    Requests <- StoreRequests
    Configs <- OpenConfig
SPECIFICATION FairSpec
PROPERTIES
    RequestsAnswered
