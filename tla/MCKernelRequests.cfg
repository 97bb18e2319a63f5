SPECIFICATION FairKernelSpec
CONSTANTS
    Users = {u1}
    NoUser = NoUser
    MaxPid = 2
    TotalMemoryKB = 2
    Priorities = {0}
    TotalTimes = {7}
    Sizes = {1, 2}
    FileNames = {}
    Contents = {e}
    Empty = e
    MaxFileId = 0
    TooLong = {}
    NoFile = NoFile
    MaxSaves = 0
INVARIANTS
    MemoryMatchesProcesses
    SnapshotLoadable
    SnapshotFaithful
    MemoryAddsUp
PROPERTIES
    RollbackRestores
    ScheduledProcessesComplete
