SPECIFICATION PartitionSpec
CONSTANTS
    Users = {u1, u2}
    NoUser = NoUser
    TotalMemoryKB = 5
    BlockSizes = {0, 1, 2}
    BlockPids = {1, 2}
SYMMETRY UserSymmetry
INVARIANTS
    PartitionValid
    FreeCoalesced
    NoFalseRefusal
PROPERTIES
    ImplementsAddressSpace
