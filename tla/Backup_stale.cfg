SPECIFICATION MCBackupSpec
CONSTANTS
    Lower <- LowerCase
    NotUtf8 = {"x"}
    NameOrder <- ByteOrder
    Backups <- OneBackup
    MaxNodes = 2
    WalkDepth = 3
    FileCount = 1
    Kinds = {"posix"}
    Tick = 2
    Long = {4}
    MaxClock = 3
    MaxChanges = 2
    MaxSnapshots = 2
INVARIANTS QuietFileExact
CHECK_DEADLOCK FALSE
