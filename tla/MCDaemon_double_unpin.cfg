CONSTANTS
    PipeConns = {p1}
    TcpConns = {t1}
    Nobody = Nobody
    Windows = {}
    Null = Null
    Sessions = {}
    NoSession = NoSession
    SnapIds <- Two
    PinFloor <- MinusOne
    max_snapshots = 1
    max_sessions = 1
    max_connections = 1
    Requests <- PinRequests
    Configs <- OpenConfig
SPECIFICATION Spec
INVARIANTS
    HeldSnapshotsStay
