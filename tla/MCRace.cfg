\* Several callers: a reorganization decided before the lock was given up.
SPECIFICATION Spec
CONSTANTS
    Block = {"g", "a1", "m2", "m3", "m4", "f2", "f3", "f4"}
    Genesis = "g"
    Path <- MCPath
    Txs <- MCTxs
    Tx <- MCTx
    OutPoint <- MCOutPoint
    Inputs <- MCInputs
    Outputs <- MCOutputs
    Address <- MCAddress
    Sender <- MCSender
    Nonce <- MCNonce
    Fee <- MCFee
    Size <- MCSize
    MaxFee = 9
    MaxSize = 2
    MaxMemory = 3
    UserTx = {}
    MaxHistory = 2
    Concurrent = TRUE
PROPERTIES
    ReorganizationsGrow
\* The trees are finite: the system stops when every block is taken.
CHECK_DEADLOCK FALSE
