CONSTANTS
    BodyParts = 1
    Backlog = 2
    Hwnds = {w1, w2}
    Invocations <- CliOverTcp
SPECIFICATION ClientsSpec
INVARIANTS
    KeylessClientsServed
