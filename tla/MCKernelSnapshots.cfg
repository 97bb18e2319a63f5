SPECIFICATION KernelSpec
CONSTANTS
    Users = {u1}
    NoUser = NoUser
    MaxPid = 1
    TotalMemoryKB = 1
    Priorities = {0}
    TotalTimes = {1}
    Sizes = {1}
    FileNames = {f1, f2}
    Contents = {e}
    Empty = e
    MaxFileId = 2
    TooLong = {}
    NoFile = NoFile
    MaxSaves = 1
SYMMETRY FileSymmetry
INVARIANTS
    SessionValid
    FilesUnique
PROPERTIES
    RecoversLastSave
