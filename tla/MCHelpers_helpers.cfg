CONSTANTS
    AccSize = 65536
    ByteStrings <- MCByteStrings
    JsonStrings <- MCJsonStrings
    Downloads = {d1, d2}
    Loggers = {t1, t2}
    Levels = {0, 1}
    MaxLogs = 2
    MaxHistory = 4
    Nodes <- MCNodes
    Forests <- MCForests
    MaxDepths = {0, 1, 2, 3}
SPECIFICATION HelpersSpec
INVARIANTS
    Base64RoundTrip
    JsonStringRoundTrip
    JsonRoundTrip
    UpdateOffered
    WindowTreeComplete
    UiElementsToDepth
    FakeFindExact
    DownloadsDoNotMix
    LogsAreNewest
