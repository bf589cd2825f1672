CONSTANTS
    PipeConns = {p1, p2}
    TcpConns = {}
    Nobody = Nobody
    Windows = {w1}
    Null = Null
    Sessions = {}
    NoSession = NoSession
    SnapIds <- Three
    PinFloor <- MinusOne
    max_snapshots = 1
    max_sessions = 1
    max_connections = 1
    Requests <- StoreRequests
    Configs <- OpenConfig
SPECIFICATION Spec
INVARIANTS
    ConnectionLimitEnforced
