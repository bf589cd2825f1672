CONSTANTS
    BodyParts = 2
    Backlog = 2
    Hwnds = {w1, w2}
    Invocations <- AllInvocations
SPECIFICATION ClientsSpec
INVARIANTS
    ClientsTypeOK
    FramesInSync
    OnlyStatusUnknown
    TcpStartedOnce
    PropsOfSelection
PROPERTIES
    InvocationsEnd
