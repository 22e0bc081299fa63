\* One caller at a time: extensions, forks, refused blocks and reorganizations.
SPECIFICATION Spec
CONSTANTS
    Block = {"g", "a1", "m2", "m3", "m4", "x3", "x4", "f2", "f3", "f4", "y3"}
    Genesis = "g"
    Path <- MCPath
    Txs <- MCTxs
    Tx <- MCTx
    OutPoint <- MCOutPoint
    Inputs <- MCInputs
    Outputs <- MCOutputs
    Address <- MCAddress
    Sender <- MCSender
    Nonce <- MCNonce
    Fee <- MCFee
    Size <- MCSize
    MaxFee = 9
    MaxSize = 2
    MaxMemory = 3
    UserTx = {"tA", "tC", "tC2"}
    MaxHistory = 2
    Concurrent = FALSE
INVARIANTS
    TypeOK
    ChainIsPath
    LedgerIsReplay
    NoncesAreReplay
    NoDoubleSpend
    HistoryIsWindow
    OneBlockRollback
    BestIsLongest
    PoolIsBounded
PROPERTIES
    ImplementsLongestChain
    ReorganizationsGrow
\* The trees are finite: the system stops when every block is taken.
CHECK_DEADLOCK FALSE
