SPECIFICATION InstancesSpec
CONSTANTS
    Windows = {w1, w2, w3}
    NoFile = NoFile
    Partial = Partial
    MaxVersion = 3
    Oversized = {2}
SYMMETRY WindowSymmetry
INVARIANTS
    OneKernel
    NeverPartial
    NeverStale
PROPERTIES
    StartRecovers
