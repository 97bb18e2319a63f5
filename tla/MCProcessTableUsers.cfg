SPECIFICATION TableSpec
CONSTANTS
    Users = {u1, u2}
    NoUser = NoUser
    MaxPid = 3
    Priorities = {0}
    TotalTimes = {3}
    Sizes = {1}
    TableStarts = {0}
SYMMETRY UserSymmetry
INVARIANTS
    PidsBelowNext
    QueuesMatchStates
    TreeConsistent
    TreeShowsEachOnce
    KillsWhatIsShown
PROPERTIES
    OneUserPerStep
    RunsInTurn
