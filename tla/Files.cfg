SPECIFICATION MCFilesSpec
CONSTANTS
    Lower <- LowerCase
    NotUtf8 = {"x"}
    NameOrder <- ByteOrder
    Backups <- AllBackups
    MaxNodes = 2
    WalkDepth = 3
    FileCount = 2
    Kinds = {"posix", "s3"}
    Tick = 1
    Long = {4}
    MaxClock = 2
    MaxChanges = 2
    MaxSnapshots = 2
    Snapshots <- AllSnapshots
    Requests <- AllRequests
    Worlds <- AllWorlds
    MaxDepth = 3
    Data = {"own", "shared", "O"}
    Scripts <- AllScripts
    Before <- AllBefore
    Meddles = 2
    Faults = TRUE
CONSTRAINT FewFiles
INVARIANTS
    KeptExact StreamFinds QuietFileExact ContentOfThisBackup
    SelectionExact DryRunFaithful LoosenedRestored BlockedPlaceFails
    OutsideUntouched ExistingKept SetuidWithOwner LinkedTogether
CHECK_DEADLOCK FALSE
