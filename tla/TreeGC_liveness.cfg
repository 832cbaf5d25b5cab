SPECIFICATION FairSpec
CONSTANTS
    c1 = c1
    t1 = t1
    t2 = t2
    Client = {c1}
    Tree = {t1, t2}
    Contents <- SomeContent
    PruneGrace = 2
    BackupGrace = 1
    SafetyMargin = 1
    InactiveAfter = 1
    ClockSkew = 0
    ClientOffset <- AheadOffset
    PruneOffset = 2
    Replicas = FALSE
    WindowClosed = FALSE
    MaxStall = 0
    Faults = FALSE
    MaxTime = 1
    MaxSnaps = 1
CHECK_DEADLOCK FALSE
PROPERTIES
    GarbageCollected
    RevivedTreesUnmarked
