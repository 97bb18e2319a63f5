SPECIFICATION KernelSpec
CONSTANTS
    Users = {u1, u2}
    NoUser = NoUser
    MaxPid = 2
    TotalMemoryKB = 2
    Priorities = {0}
    TotalTimes = {2}
    Sizes = {1}
    FileNames = {f1}
    Contents = {e, c}
    Empty = e
    MaxFileId = 2
    TooLong = {}
    NoFile = NoFile
    MaxSaves = 0
SYMMETRY UserSymmetry
INVARIANTS
    OwnersExist
    SchedulerServesSession
PROPERTIES
    UsersIsolated
