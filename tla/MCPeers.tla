------------------------------ MODULE MCPeers ------------------------------
(***************************************************************************)
(* Connections for model checking Peers: two dialled to one seed, one that *)
(* the same node opened from another port, one of a second node, one of a  *)
(* node that is not on the whitelist and one to the node itself.           *)
(***************************************************************************)
EXTENDS Peers

ConnTable ==
    [toSeed1  |-> [id |-> "seed", ip |-> "s"],
     toSeed2  |-> [id |-> "seed", ip |-> "s"],
     fromSeed |-> [id |-> "s:9",  ip |-> "s"],
     from2    |-> [id |-> "t:5",  ip |-> "t"],
     foreign  |-> [id |-> "x:7",  ip |-> "x"],
     self     |-> [id |-> "me",   ip |-> "m"]]

MCInbound == Conn \cap {"fromSeed", "from2", "foreign"}
MCID == [c \in Conn |-> ConnTable[c].id]
MCIP == [c \in Conn |-> ConnTable[c].ip]
=============================================================================
