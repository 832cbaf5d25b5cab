SPECIFICATION Spec
CONSTANTS
    c1 = c1
    t1 = t1
    Client = {c1}
    Tree = {t1}
    Contents <- AnyContent
    PruneGrace = 3
    BackupGrace = 3
    SafetyMargin = 1
    InactiveAfter = 3
    ClockSkew = 1
    ClientOffset <- NoOffset
    PruneOffset = 0
    Replicas = FALSE
    WindowClosed = FALSE
    MaxStall = 1
    Faults = FALSE
    MaxTime = 7
    MaxSnaps = 1
CHECK_DEADLOCK FALSE
INVARIANT SnapshotsRestorable
