\* Connections that replace, remove and outlive each other, and Stop.
\* Once every connection of the bound has ended nothing need happen.
CHECK_DEADLOCK FALSE

CONSTANTS
    Conn = {"toSeed1", "toSeed2", "fromSeed", "foreign", "self"}
    Inbound <- MCInbound
    ID <- MCID
    IP <- MCIP
    Seeds = {"seed", "me"}
    Allowed = {"s", "m"}
    OwnIPs = {"m"}
    MaxPeers = 2

SPECIFICATION Spec

INVARIANTS
    TypeOK
    OneEntryPerIP
    ListedIsHandled
