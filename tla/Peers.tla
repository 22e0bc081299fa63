------------------------------- MODULE Peers -------------------------------
(***************************************************************************)
(* network/p2p.go: the peer table of a node, the goroutines of its         *)
(* connections, and Stop.                                                  *)
(*                                                                         *)
(* Every connection has a goroutine that adds it to the table, reads       *)
(* messages until reading fails or the network stops, and removes it.  The *)
(* table has the lock peerMutex; the field mu of the network has another,  *)
(* and three operations need both.  What one lock protects is one step.    *)
(***************************************************************************)
EXTENDS Integers, FiniteSets

CONSTANTS Conn,       \* connections over the life of the network
          Inbound,    \* those that the listener accepts; the others are dialled
          ID,         \* [Conn -> peer IDs]: remote address, or the seed's address
          IP,         \* [Conn -> IPs]: the address without its port
          Seeds,      \* config.SeedNodes, as IDs
          Allowed,    \* allowedIPs, empty when every IP is
          OwnIPs,     \* the listen address and the loopback addresses
          MaxPeers    \* config.MaxPeers

\* An ID is the address that the IP is a part of, and a connection is none of
\* the other values of peerMutex.
ASSUME ConnAssumption ==
    /\ Inbound \subseteq Conn
    /\ {"free", "info"} \cap Conn = {}
    /\ \A c, d \in Conn : ID[c] = ID[d] => IP[c] = IP[d]
    /\ MaxPeers \in Nat

VARIABLES
    stage,        \* where the goroutine of each connection is
    open,         \* connections that this node has not closed
    peers,        \* the connections in the table, which has them by ID
    peerMutex,    \* "free", "info" while GetNetworkInfo reads, or the adding connection
    mu,           \* "free" or, when Stop holds it, "stop"
    stopped,      \* stopChan is closed, and so is the listener
    discovering   \* seeds that connectToSeedNodes has still to look at

lockVars == <<peerMutex, mu>>
vars == <<stage, open, peers, lockVars, stopped, discovering>>

Stages == {"none", "dialing", "accepted", "adding", "locked", "reading", "leaving",
           "closing", "done"}

Init ==
    /\ stage = [c \in Conn |-> "none"]
    /\ open = {} /\ peers = {}
    /\ peerMutex = "free" /\ mu = "free"
    /\ stopped = FALSE
    /\ discovering = {}

Goto(c, s) == stage' = [stage EXCEPT ![c] = s]

At(c, s) == stage[c] = s

\* (mutant) peerMutex is not waited for.
DoNotWait == TRUE

CanLockPeers == peerMutex = "free"

CanReadPeers == peerMutex \in {"free", "info"}

-----------------------------------------------------------------------------
(* Where connections come from. *)

Accept(c) ==
    /\ At(c, "none") /\ c \in Inbound
    /\ ~stopped
    /\ Goto(c, "accepted")
    /\ open' = open \cup {c}
    /\ UNCHANGED <<peers, lockVars, stopped, discovering>>

\* handleConnection reads the whitelist under mu.
CheckWhitelist(c) ==
    /\ At(c, "accepted")
    /\ mu = "free"
    /\ Goto(c, IF Allowed = {} \/ IP[c] \in Allowed THEN "adding" ELSE "closing")
    /\ UNCHANGED <<open, peers, lockVars, stopped, discovering>>

\* A tick of discoverPeers, when there is room for a peer.
connectToSeedNodes ==
    /\ discovering = {}
    /\ CanReadPeers
    /\ Cardinality(peers) < MaxPeers
    /\ discovering' = Seeds
    /\ UNCHANGED <<stage, open, peers, lockVars, stopped>>

\* A seed that no entry has the address of is dialled; the room is not
\* looked at again.
DialSeed(s) ==
    /\ s \in discovering
    /\ CanReadPeers
    /\ discovering' = discovering \ {s}
    /\ LET fresh == {c \in Conn \ Inbound : At(c, "none") /\ ID[c] = s}
       IN  IF (\E d \in peers : ID[d] = s) \/ fresh = {} THEN UNCHANGED stage
           ELSE \E c \in fresh : Goto(c, "dialing")
    /\ UNCHANGED <<open, peers, lockVars, stopped>>

Dialled(c) ==
    /\ At(c, "dialing")
    /\ Goto(c, "adding")
    /\ open' = open \cup {c}
    /\ UNCHANGED <<peers, lockVars, stopped, discovering>>

DialFails(c) ==
    /\ At(c, "dialing")
    /\ Goto(c, "done")
    /\ UNCHANGED <<open, peers, lockVars, stopped, discovering>>

-----------------------------------------------------------------------------
(* addPeer: peerMutex is taken, then mu to read the listen address. *)

LockPeers(c) ==
    /\ At(c, "adding")
    /\ CanLockPeers
    /\ peerMutex' = c
    /\ Goto(c, "locked")
    /\ UNCHANGED <<open, peers, mu, stopped, discovering>>

\* (mutant) Duplicates are looked for by ID.
SameID(c) == {d \in peers : ID[d] = ID[c]}

SameIP(c) == {d \in peers : IP[d] = IP[c]}

\* The table with an entry of c, under its ID.
Insert(table, c) == {d \in table : ID[d] # ID[c]} \cup {c}

\* A connection to the node itself is not listed; another replaces the entry
\* of its IP, whose connection stays open and is read on.
addPeer(c) ==
    /\ At(c, "locked")
    /\ mu = "free"
    /\ IF IP[c] \in OwnIPs THEN UNCHANGED peers
       ELSE IF SameIP(c) = {} THEN peers' = Insert(peers, c)
       ELSE \E d \in SameIP(c) : peers' = Insert(peers \ {d}, c)
    /\ peerMutex' = "free"
    /\ Goto(c, "reading")
    /\ UNCHANGED <<open, mu, stopped, discovering>>

-----------------------------------------------------------------------------
(* The end of a connection. *)

\* handlePeerCommunication returns: end of file, a read timeout, a connection
\* closed on either side, or stopChan.
StopReading(c) ==
    /\ At(c, "reading")
    /\ Goto(c, "leaving")
    /\ UNCHANGED <<open, peers, lockVars, stopped, discovering>>

\* (mutant) The table is left as it is.
RemoveNothing(c) == peers

\* The entry with the ID of c, whichever connection it is of.
WithoutID(c) == {d \in peers : ID[d] # ID[c]}

\* The deferred removePeer; only handleConnection defers a Close as well.
removePeer(c) ==
    /\ At(c, "leaving")
    /\ CanLockPeers
    /\ peers' = WithoutID(c)
    /\ Goto(c, IF c \in Inbound THEN "closing" ELSE "done")
    /\ UNCHANGED <<open, lockVars, stopped, discovering>>

CloseConn(c) ==
    /\ At(c, "closing")
    /\ open' = open \ {c}
    /\ Goto(c, "done")
    /\ UNCHANGED <<peers, lockVars, stopped, discovering>>

\* A tick of maintainPeers finds the peers of S inactive.
cleanupInactivePeers(S) ==
    /\ CanLockPeers
    /\ peers' = peers \ S
    /\ open' = open \ S
    /\ UNCHANGED <<stage, lockVars, stopped, discovering>>

-----------------------------------------------------------------------------
(* GetNetworkInfo reads the table and, still holding peerMutex, asks IsRunning. *)

BeginInfo ==
    /\ CanLockPeers
    /\ peerMutex' = "info"
    /\ UNCHANGED <<stage, open, peers, mu, stopped, discovering>>

EndInfo ==
    /\ peerMutex = "info"
    /\ mu = "free"
    /\ peerMutex' = "free"
    /\ UNCHANGED <<stage, open, peers, mu, stopped, discovering>>

\* Stop takes mu, and peerMutex within it.
BeginStop ==
    /\ ~stopped
    /\ mu = "free"
    /\ mu' = "stop"
    /\ stopped' = TRUE
    /\ UNCHANGED <<stage, open, peers, peerMutex, discovering>>

EndStop ==
    /\ mu = "stop"
    /\ CanLockPeers
    /\ open' = open \ peers
    /\ peers' = {}
    /\ mu' = "free"
    /\ UNCHANGED <<stage, peerMutex, stopped, discovering>>

-----------------------------------------------------------------------------
\* Steps of the goroutine of connection c.
ConnStep(c) ==
    \/ CheckWhitelist(c)
    \/ Dialled(c) \/ DialFails(c)
    \/ LockPeers(c) \/ addPeer(c)
    \/ StopReading(c) \/ removePeer(c) \/ CloseConn(c)

Next ==
    \/ \E c \in Conn : Accept(c) \/ ConnStep(c)
    \/ connectToSeedNodes
    \/ \E s \in Seeds : DialSeed(s)
    \/ \E S \in SUBSET peers \ {{}} : cleanupInactivePeers(S)
    \/ BeginInfo \/ EndInfo
    \/ BeginStop \/ EndStop

Spec == Init /\ [][Next]_vars

\* Goroutines run on, and a sync.RWMutex is handed to whoever waits for it.  A
\* reader may wait for its peer for ever.
LockFairness ==
    /\ WF_vars(EndInfo)
    /\ SF_vars(EndStop)
    /\ \A c \in Conn :
          /\ WF_vars(CheckWhitelist(c)) /\ WF_vars(Dialled(c) \/ DialFails(c))
          /\ SF_vars(LockPeers(c)) /\ WF_vars(addPeer(c))
          /\ SF_vars(removePeer(c)) /\ WF_vars(CloseConn(c))

FairSpec == Spec /\ LockFairness

-----------------------------------------------------------------------------
\* Every variable keeps its type, and the connection that adds itself holds
\* peerMutex.
TypeOK ==
    /\ stage \in [Conn -> Stages]
    /\ open \subseteq Conn /\ peers \subseteq Conn
    /\ peerMutex \in Conn \cup {"free", "info"}
    /\ mu \in {"free", "stop"} /\ stopped \in BOOLEAN
    /\ discovering \subseteq Seeds
    /\ \A c \in Conn : At(c, "locked") <=> peerMutex = c

\* The table lists an IP once, though it is a map by ID and a node has several
\* addresses: its seed address and the ports of its own connections ("Check for
\* duplicate peer by IP", p2p.go:805).
OneEntryPerIP == \A c, d \in peers : IP[c] = IP[d] => c = d

\* What BroadcastBlock sends to is an open connection with a goroutine that
\* reads it and will remove the entry, and not one to the node itself; also when
\* entries were replaced, cleaned up or removed by another connection, and when
\* a connection is added after Stop.
ListedIsHandled ==
    \A c \in peers : /\ stage[c] \in {"reading", "leaving"}
                     /\ c \in open
                     /\ IP[c] \notin OwnIPs

\* A call to Stop returns ("Stop stops the P2P network", p2p.go:197).
StopReturns == mu = "stop" ~> mu = "free"

-----------------------------------------------------------------------------
(* The inductive invariant behind OneEntryPerIP and ListedIsHandled. *)

\* A connection is open until it is listed.
AddingIsOpen ==
    \A c \in Conn : stage[c] \in {"accepted", "adding", "locked"} => c \in open

PeersInv == TypeOK /\ OneEntryPerIP /\ ListedIsHandled /\ AddingIsOpen
=============================================================================
