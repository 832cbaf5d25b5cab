SPECIFICATION UsedSpec
CONSTANTS
    b1 = b1
    b2 = b2
    b3 = b3
    c1 = c1
    x1 = x1
    OldPack = 1
    OldBlob = b1
    OldHeld = {x1}
    OldSnapshot = {x1}
    Client = {c1}
    Chunk = {x1}
    Pack = {1, 2}
    Blob = {b1, b2, b3}
    Contents <- SingleChunks
    PruneGrace = 1
    BackupGrace = 1
    SafetyMargin = 1
    ClientOffset <- NoOffset
    PruneOffset = 0
    RepackBelow = 0
    MaxEffective = 1
    Parity = TRUE
    Rebuilds = TRUE
    MaxStall = 0
    MaxBackup = 0
    Faults = {"prune", "delete", "sidecar"}
    MaxTime = 2
SYMMETRY Symmetry
PROPERTIES StoreSpec ParityKept
CHECK_DEADLOCK FALSE
