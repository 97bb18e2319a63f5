SPECIFICATION TableSpec
CONSTANTS
    Users = {u1}
    NoUser = NoUser
    MaxPid = 2
    Priorities = {0, 5, 15, 16}
    TotalTimes = {0, 1, 17}
    Sizes = {1}
    TableStarts = {0}
INVARIANTS
    PMTypeOK
    PcbsConsistent
PROPERTIES
    RunsInTurn
