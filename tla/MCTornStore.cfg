\* A crash during the storing of a reorganization.
CHECK_DEADLOCK FALSE

CONSTANTS
    Block = {"g", "a1", "b2", "c2", "c3"}
    Genesis = "g"
    NoBlock = "none"
    MaxFaults = 1
    MaxCalls = 1
    Path <- MCPath

SPECIFICATION Spec

PROPERTIES
    LoadedEndsInBest
