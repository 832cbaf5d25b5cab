SPECIFICATION MCBackupSpec
CONSTANTS
    Lower <- LowerCase
    NotUtf8 = {"x"}
    NameOrder <- ByteOrder
    Backups <- OneBackup
    MaxNodes = 2
    WalkDepth = 3
    FileCount = 1
    Kinds = {"s3"}
    Tick = 1
    Long = {4}
    MaxClock = 1
    MaxChanges = 2
    MaxSnapshots = 2
INVARIANTS EtagProves
CHECK_DEADLOCK FALSE
