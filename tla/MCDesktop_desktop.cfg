CONSTANTS
    Threads = {t1, t2}
    Hwnds = {w1, w2}
    Workloads <- AllWorkloads
SPECIFICATION DesktopSpec
INVARIANTS
    DesktopTypeOK
    RepeatedEnsureUnchanged
    ClipboardExclusive
    ProbesLeaveNothing
PROPERTIES
    NoEffectAfterAnswer
    RequestsCompleted
