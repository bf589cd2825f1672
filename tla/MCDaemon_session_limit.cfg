CONSTANTS
    PipeConns = {}
    TcpConns = {t1, t2}
    Nobody = Nobody
    Windows = {}
    Null = Null
    Sessions = {a, b}
    NoSession = NoSession
    SnapIds <- Two
    PinFloor <- MinusOne
    max_snapshots = 1
    max_sessions = 1
    max_connections = 1
    Requests <- SessionRequests
    Configs <- OpenConfig
SPECIFICATION Spec
INVARIANTS
    SessionLimitEnforced
