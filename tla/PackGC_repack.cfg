SPECIFICATION UsedSpec
CONSTANTS
    b1 = b1
    b2 = b2
    b3 = b3
    c1 = c1
    x1 = x1
    x2 = x2
    OldPack = 2
    OldBlob = b1
    OldHeld = {x1, x2}
    OldSnapshot = {x1}
    Client = {c1}
    Chunk = {x1, x2}
    Pack = {1, 2, 3}
    Blob = {b1, b2, b3}
    Contents <- OtherChunks
    PruneGrace = 2
    BackupGrace = 2
    SafetyMargin = 1
    ClientOffset <- NoOffset
    PruneOffset = 0
    RepackBelow = 60
    MaxEffective = 1
    Parity = FALSE
    Rebuilds = FALSE
    MaxStall = 1
    MaxBackup = 1
    Faults = {"backup", "read"}
    MaxTime = 4
SYMMETRY Symmetry
INVARIANTS IndexStored ReusedPacksKept SnapshotsRecoverable
CHECK_DEADLOCK FALSE
