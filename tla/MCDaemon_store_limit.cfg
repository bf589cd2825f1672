CONSTANTS
    PipeConns = {p1}
    TcpConns = {t1}
    Nobody = Nobody
    Windows = {w1}
    Null = Null
    Sessions = {}
    NoSession = NoSession
    SnapIds <- Three
    PinFloor <- MinusOne
    max_snapshots = 1
    max_sessions = 1
    max_connections = 1
    Requests <- StoreRequests
    Configs <- OpenConfig
SPECIFICATION Spec
INVARIANTS
    StoreWithinLimit
