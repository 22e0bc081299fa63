\* A block whose second payment is refused.
SPECIFICATION Spec
CONSTANTS
    Block = {"g", "a1", "m2", "x3"}
    Genesis = "g"
    Path <- MCPath
    Txs <- MCTxs
    Tx <- MCTx
    OutPoint <- MCOutPoint
    Inputs <- MCInputs
    Outputs <- MCOutputs
    Address <- MCAddress
    Sender <- MCSender
    Nonce <- MCNonce
    Fee <- MCFee
    Size <- MCSize
    MaxFee = 9
    MaxSize = 2
    MaxMemory = 3
    UserTx = {}
    MaxHistory = 2
    Concurrent = FALSE
INVARIANTS
    OutputsAreOnChain
\* The trees are finite: the system stops when every block is taken.
CHECK_DEADLOCK FALSE
