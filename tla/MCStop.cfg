\* Stop while a connection is being added.
CHECK_DEADLOCK FALSE

CONSTANTS
    Conn = {"toSeed1", "fromSeed", "from2"}
    Inbound <- MCInbound
    ID <- MCID
    IP <- MCIP
    Seeds = {"seed"}
    Allowed = {}
    OwnIPs = {"m"}
    MaxPeers = 2

SPECIFICATION FairSpec

PROPERTIES
    StopReturns
