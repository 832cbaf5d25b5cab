SPECIFICATION AccessSpec
CONSTANTS
    x1 = x1
    x2 = x2
    x3 = x3
    r1 = r1
    Reader = {r1}
    Chunk = {x1, x2, x3}
    Needed = {x1, x2}
    Pack = {1, 2, 3}
    Holds <- Repack
    Blob = {1, 2, 3}
    FirstPack = 2
    FirstBlob = 2
    Modes = {"uncached", "cached", "killed"}
    NoFile = NoFile
    NoChunk = NoChunk
    c1 = c1
    c2 = c2
    c3 = c3
    i1 = i1
    i2 = i2
    Client = {c1, c2, c3}
    Ids = {i1, i2}
    Old = Old
    None = None
    Root = Root
    Backends = {"sftp", "rclone", "atomic"}
    Plans <- AllPlans
    Length <- SomeSizes
    Breaks = TRUE
    Thread = {"th1", "th2"}
    MountClient = "c"
    RootsOf <- SomeRoots
    EntriesOf <- SomeTrees
    ChunksOf <- SomeFiles
    RawLen <- SomeLengths
    CacheCap = 1
    ReadSpans <- SomeSpans
    MaxCalls = 5
CONSTRAINT NoRepackKilled
INVARIANTS LoadComplete HealsOnceCollected CommitKept InitSettled ListFaithful NamesTrue ReadExact
PROPERTIES CurrentViewFinds RequestsAtomic
CHECK_DEADLOCK FALSE
