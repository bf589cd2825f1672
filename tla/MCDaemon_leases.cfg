CONSTANTS
    PipeConns = {}
    TcpConns = {t1, t2}
    Nobody = Nobody
    Windows = {w1}
    Null = Null
    Sessions = {a, b}
    NoSession = NoSession
    SnapIds <- Three
    PinFloor <- MinusOne
    max_snapshots = 1
    max_sessions = 1
    max_connections = 1
    Requests <- LeaseRequests
    Configs <- OpenConfig
SPECIFICATION FairSpec
INVARIANTS
    HeldSnapshotsStay
    PinsExact
PROPERTIES
    RequestsAnswered
    ImplementsLeases
