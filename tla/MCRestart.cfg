\* One node with storage: errors, overlapping stores and two crashes.
\* Once the blocks and the crashes of the bound are used up nothing happens.
CHECK_DEADLOCK FALSE

CONSTANTS
    Block = {"g", "a1", "b2", "b3", "c2", "c3"}
    Genesis = "g"
    NoBlock = "none"
    MaxFaults = 2
    MaxCalls = 2
    Path <- MCPath

SPECIFICATION Spec

INVARIANTS
    TypeOK
    TipIsStored
    DiskMirrorsMemory
    LoadsPath

PROPERTIES
    RestartKeepsChain
