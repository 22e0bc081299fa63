\* Redelivery on a tree whose fork branches off next to the tip.
SPECIFICATION RedeliverySpec
CONSTANTS
    Block = {"g", "a1", "m2", "f2", "f3", "f4"}
    Genesis = "g"
    Path <- MCPath
    Txs <- MCTxs
    Tx <- MCTx
    OutPoint <- MCOutPoint
    Inputs <- MCInputs
    Outputs <- MCOutputs
    Address <- MCAddress
    Sender <- MCSender
    Nonce <- MCNonce
    Fee <- MCFee
    Size <- MCSize
    MaxFee = 9
    MaxSize = 2
    MaxMemory = 3
    UserTx = {"tB"}
    MaxHistory = 2
    Concurrent = FALSE
PROPERTIES
    LongestChainWins
\* The trees are finite: the system stops when every block is taken.
CHECK_DEADLOCK FALSE
