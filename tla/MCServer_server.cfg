CONSTANTS
    PipeConns = {p1, p2}
    TcpConns = {t1}
    Nobody = Nobody
    Windows = {w1}
    Null = Null
    Sessions = {a, b}
    NoSession = NoSession
    SnapIds <- Three
    PinFloor <- MinusOne
    max_snapshots = 1
    max_sessions = 1
    max_connections = 1
    Requests <- AllRequests
    Configs <- StrictConfigs
SPECIFICATION ServerSpec
INVARIANTS
    TypeOK
    LruEnumeratesStore
    PinsNeverLeak
    NamedSnapshotServed
    ActiveConnectionsExact
    SubscribedHasBaseline
PROPERTIES
    SnapshotIdsNeverReused
    CapturedEvictedLast
    BaselinesAdvance
