-------------------------------- MODULE Sync --------------------------------
(***************************************************************************)
(* Blocks on their way between nodes (cmd/kalon-node-v2, network): what a  *)
(* node adds goes over the event bus to a broadcaster and to every peer;   *)
(* what a peer sends is converted and added in turn; a node that has been  *)
(* told a peer's height asks for the blocks it lacks.                      *)
(*                                                                         *)
(* Connections are FIFO in each direction, and one goroutine of the        *)
(* receiver handles the messages of one direction, one after the other.    *)
(* The goroutines of a node take turns: bc.mu is taken for each block that *)
(* is added, and for each that is read.  Module Peers shows how            *)
(* connections come and go, module Blockchain what a single node does with *)
(* its blocks.                                                             *)
(***************************************************************************)
EXTENDS Integers, Sequences, SequencesExt, FiniteSets

CONSTANTS SyncNode,      \* nodes, numbers
          Links,         \* pairs of nodes that are configured to be connected
          HeightSenders, \* peers of another build, whose version messages hold a height
          EventBuffer,   \* capacity of a subscriber's channel
          MaxBatch,      \* blocks in a request; an answer holds MaxBatch + 1 at most
          SyncBudgets    \* bounds: how often a behaviour may do what

ASSUME SyncAssumption ==
    /\ Links \subseteq {link \in SUBSET SyncNode : Cardinality(link) = 2}
    /\ HeightSenders \subseteq SyncNode
    /\ EventBuffer \in Nat /\ MaxBatch \in Nat \ {0}
    /\ SyncBudgets \subseteq [mined : Nat, breaks : Nat, refusals : Nat, requests : Nat]

VARIABLES
    nodes,       \* by node: stored blocks, tip, outputs and events
    ready,       \* nodes whose setupP2PIntegration is done
    up,          \* links that are up
    wire,        \* by sender and receiver: messages under way
    told,        \* by node and peer: Peer.Height
    handling,    \* by sender and receiver: the blocks that goroutines are adding
    answering,   \* by sender and receiver: the answer a goroutine is reading, if any
    syncLeft,    \* what is left of the budget
    syncTrouble  \* history: what has kept blocks from their way

syncVars == <<nodes, ready, up, wire, told, handling, answering, syncLeft, syncTrouble>>

\* What only goroutines that handle messages know.
goroutines == <<handling, answering>>

Way == {w \in SyncNode \X SyncNode : {w[1], w[2]} \in Links}

Origin == [id |-> 0, parent |-> -1, number |-> 0, miner |-> -1]

SyncInit ==
    /\ nodes = [n \in SyncNode |->
                  [stored |-> {Origin}, tip |-> Origin, outputs |-> {}, events |-> <<>>]]
    /\ ready = {} /\ up = Links
    /\ wire = [w \in Way |-> <<>>]
    /\ told = [w \in Way |-> 0]
    /\ handling = [w \in Way |-> {}] /\ answering = [w \in Way |-> {}]
    /\ syncLeft \in SyncBudgets
    /\ syncTrouble = {}

Use(what) == syncLeft[what] > 0 /\ syncLeft' = [syncLeft EXCEPT ![what] = @ - 1]

Trouble(what) == syncTrouble' = syncTrouble \cup what

\* The blocks from b back to the origin: those in every set that holds b and, with a
\* block, its parent.
PathTo(blocks, b) ==
    LET IsBranch(set) == b \in set /\ \A x \in set : {c \in blocks : c.id = x.parent} \subseteq set
        all == blocks \cup {b}
    IN  {x \in all : \A set \in SUBSET all : IsBranch(set) => x \in set}

HeightOf(n) == nodes[n].tip.number

Send(w, message) == wire' = [wire EXCEPT ![w] = Append(@, message)]

-----------------------------------------------------------------------------
(* AddBlockV2 on the state of one node.  Its outcome says what became of the  *)
(* block besides.                                                             *)

\* (mutant) A block whose parent is not there is kept for later.
OrphanIsKept(node, b) == TRUE

\* At the height of the tip the parent is taken for the tip's.
HasParent(node, b) ==
    IF b.number = node.tip.number THEN b.parent = node.tip.parent
    ELSE \E c \in node.stored : c.id = b.parent

\* The conversion to a network block and back leaves out the outputs: only the node
\* that a block was submitted to has them.
OutputsOf(blocks, n) == {b.id : b \in {c \in blocks : c.miner = n}}

\* An event is dropped when the channel is full, and goes nowhere before there is one.
Emit(node, n, b) ==
    IF n \notin ready THEN [node |-> node, outcome |-> "early"]
    ELSE IF Len(node.events) >= EventBuffer THEN [node |-> node, outcome |-> "dropped"]
    ELSE [node |-> [node EXCEPT !.events = Append(@, b)], outcome |-> "added"]

\* (mutant) Only what was submitted to the node itself is passed on.
EmitOwn(node, n, b) ==
    IF b.miner = n THEN Emit(node, n, b) ELSE [node |-> node, outcome |-> "added"]

EmitAdded(node, n, b) == Emit(node, n, b)

Extend(node, n, b) ==
    EmitAdded([node EXCEPT !.stored = @ \cup {b}, !.tip = b,
                           !.outputs = @ \cup OutputsOf({b}, n)], n, b)

\* A branch that was longer takes over.  "chainReorganized" has no subscriber.
Reorganize(node, n, b) ==
    LET undone == PathTo(node.stored, node.tip) \ PathTo(node.stored, b)
        done == PathTo(node.stored, b) \ PathTo(node.stored, node.tip)
    IN  [node EXCEPT !.tip = b,
                     !.outputs = (@ \ OutputsOf(undone, n)) \cup OutputsOf(done, n)]

\* What addBlockV2 does while it holds bc.mu.  The reorganization to a longer branch
\* ("longer") takes the lock anew.
AddBlock(node, n, b) ==
    IF b \in node.stored THEN [node |-> node, outcome |-> "exists"]
    ELSE IF ~HasParent(node, b) THEN [node |-> node, outcome |-> "orphan"]
    ELSE IF b.parent = node.tip.id THEN Extend(node, n, b)
    ELSE [node |-> [node EXCEPT !.stored = @ \cup {b}],
          outcome |-> IF b.number > node.tip.number THEN "longer" ELSE "fork"]

Fine == {"added", "exists"}

Added(n, one) ==
    /\ nodes' = [nodes EXCEPT ![n] = one.node]
    /\ Trouble({one.outcome} \ Fine)

-----------------------------------------------------------------------------
(* The node. *)

\* The RPC server and the P2P server are started before the handlers are set and the
\* event bus is subscribed to.
SetupP2PIntegration(n) ==
    /\ n \notin ready
    /\ ready' = ready \cup {n}
    /\ UNCHANGED <<nodes, up, wire, told, goroutines, syncLeft, syncTrouble>>

\* A miner submits a block; a fresh one extends the tip (module Mining).
SubmitBlock(n) ==
    /\ Use("mined")
    /\ LET b == [id |-> syncLeft.mined, parent |-> nodes[n].tip.id,
                 number |-> HeightOf(n) + 1, miner |-> n]
       IN  Added(n, AddBlock(nodes[n], n, b))
    /\ UNCHANGED <<ready, up, wire, told, goroutines>>

\* The loop over blockAddedChan; every peer gets the block, also the one it came from.
BroadcastBlock(n) ==
    /\ nodes[n].events # <<>>
    /\ LET message == [kind |-> "block", block |-> Head(nodes[n].events)]
       IN  wire' = [w \in Way |-> IF w[1] = n /\ {n, w[2]} \in up THEN Append(wire[w], message)
                                  ELSE wire[w]]
    /\ nodes' = [nodes EXCEPT ![n].events = Tail(@)]
    /\ UNCHANGED <<ready, up, told, goroutines, syncLeft, syncTrouble>>

\* syncBlocks asks the highest peer, if it is at least as high as the node.  A peer that
\* has told no height is never asked.
Highest(n) ==
    {m \in SyncNode : /\ <<n, m>> \in Way /\ {n, m} \in up
                      /\ told[<<n, m>>] > 0 /\ told[<<n, m>>] >= HeightOf(n)
                      /\ \A k \in SyncNode : <<n, k>> \in Way /\ {n, k} \in up =>
                                                 told[<<n, k>>] <= told[<<n, m>>]}

\* (mutant) The request leaves out a block.
AfterNext(n) == HeightOf(n) + 2

FirstMissing(n) == HeightOf(n) + 1

RequestBlocks(n, m) ==
    /\ n \in ready
    /\ Use("requests")
    /\ m \in Highest(n)
    /\ LET start == FirstMissing(n)
           height == told[<<n, m>>]
           last == IF height > HeightOf(n) THEN height ELSE start
       IN  Send(<<n, m>>, [kind |-> "get_blocks", start |-> start,
                           end |-> IF last >= start + MaxBatch THEN start + MaxBatch - 1 ELSE last])
    /\ UNCHANGED <<nodes, ready, up, told, goroutines, syncTrouble>>

-----------------------------------------------------------------------------
(* Messages: handlePeerCommunication and handleMessage. *)

\* A goroutine that is busy with a message reads no other.
IsBusy(w) == answering[w] # {} \/ \E job \in handling[w] : job.cut = 0

Arrives(m, n, kind) ==
    /\ ~IsBusy(<<m, n>>)
    /\ wire[<<m, n>>] # <<>> /\ Head(wire[<<m, n>>]).kind = kind

Received(m, n) == Head(wire[<<m, n>>])

Take(m, n) == wire' = [wire EXCEPT ![<<m, n>>] = Tail(@)]

\* The handlers are nil until they are set.
IgnoreBlocks(m, n) ==
    /\ n \notin ready
    /\ \E kind \in {"block", "get_blocks"} : Arrives(m, n, kind)
    /\ Take(m, n)
    /\ Trouble({"early"})
    /\ UNCHANGED <<nodes, ready, up, told, goroutines, syncLeft>>

\* The blocks of a message are added in turn, by a goroutine that goes on when the
\* connection has broken ("cut" tells by which break).
\* (history) "fits": blocks of one branch, which the tip was on when the answer came.
StartAdding(w, blocks, fits) ==
    handling' = [handling EXCEPT ![w] =
        IF blocks = <<>> THEN @
        ELSE @ \cup {[blocks |-> blocks, at |-> 1, step |-> "add", fits |-> fits, cut |-> 0]}]

ReceiveBlock(m, n) ==
    /\ n \in ready
    /\ Arrives(m, n, "block")
    /\ Take(m, n)
    /\ StartAdding(<<m, n>>, <<Received(m, n).block>>, FALSE)
    /\ UNCHANGED <<nodes, ready, up, told, answering, syncLeft, syncTrouble>>

\* (history)
OneBranch(blocks) ==
    blocks # <<>> /\ \A i \in 2..Len(blocks) : blocks[i].parent = blocks[i - 1].id

\* handleBlocksMessage sorts by height what has been sent by height.
ReceiveAnswer(m, n) ==
    /\ Arrives(m, n, "blocks")
    /\ Take(m, n)
    /\ LET blocks == Received(m, n).blocks
           tip == nodes[n].tip
       IN  StartAdding(<<m, n>>, blocks,
                       OneBranch(blocks) /\ tip \in PathTo(nodes[m].stored, Last(blocks)))
    /\ UNCHANGED <<nodes, ready, up, told, answering, syncLeft, syncTrouble>>

\* The goroutine turns to the next block, whatever has become of this one.
After(job) ==
    IF job.at = Len(job.blocks) THEN {} ELSE {[job EXCEPT !.at = @ + 1, !.step = "add"]}

GoesOn(w, job, next) == handling' = [handling EXCEPT ![w] = (@ \ {job}) \cup next]

AddNextBlock(w, job) ==
    LET n == w[2]
        one == AddBlock(nodes[n], n, job.blocks[job.at])
    IN  /\ job.step = "add"
        /\ Added(n, one)
        /\ GoesOn(w, job, IF one.outcome = "longer" THEN {[job EXCEPT !.step = "reorganize"]}
                          ELSE After(job))
        /\ UNCHANGED <<ready, up, wire, told, answering, syncLeft>>

\* Validation may refuse a block that was right when it was mined, since it computes the
\* difficulty from the time of the test (module Consensus).
RefuseNextBlock(w, job) ==
    LET b == job.blocks[job.at]
    IN  /\ job.step = "add"
        /\ b \notin nodes[w[2]].stored /\ HasParent(nodes[w[2]], b)
        /\ Use("refusals")
        /\ Trouble({"refused"})
        /\ GoesOn(w, job, After(job))
        /\ UNCHANGED <<nodes, ready, up, wire, told, answering>>

\* The lengths are not compared again: blocks added since may have made the other branch
\* as long, or longer, so that the node goes back (run chain_race, ReorganizationsGrow).
ReorganizeChain(w, job) ==
    LET n == w[2]
        b == job.blocks[job.at]
    IN  /\ job.step = "reorganize"
        /\ nodes' = [nodes EXCEPT ![n] = Reorganize(@, n, b)]
        /\ Trouble(IF b.number < HeightOf(n) THEN {"back"} ELSE {})
        /\ GoesOn(w, job, After(job))
        /\ UNCHANGED <<ready, up, wire, told, answering, syncLeft>>

\* A request is answered with the main chain's blocks in the range, as far as there are
\* any.  The height is read first and then block after block, under a lock of its own.
ReceiveGetBlocks(n, m) ==
    /\ m \in ready
    /\ Arrives(n, m, "get_blocks")
    /\ Take(n, m)
    /\ LET start == Received(n, m).start
           end == Received(n, m).end
           last == IF end > HeightOf(m) THEN HeightOf(m) ELSE end
           most == IF last - start > MaxBatch THEN start + MaxBatch ELSE last
       IN  answering' = [answering EXCEPT ![<<n, m>>] =
                            {[next |-> start, last |-> most, blocks |-> <<>>]}]
    /\ UNCHANGED <<nodes, ready, up, told, handling, syncLeft, syncTrouble>>

\* The main chain's block of a height, or, when the node has gone back below it, what the
\* database still has.
BlocksAt(m, number) ==
    {b \in IF number <= HeightOf(m) THEN PathTo(nodes[m].stored, nodes[m].tip)
           ELSE nodes[m].stored : b.number = number}

ReadBlock(w, answer) ==
    /\ answer.next <= answer.last
    /\ \E blocks \in {Append(answer.blocks, b) : b \in BlocksAt(w[2], answer.next)}
                     \cup (IF answer.next > HeightOf(w[2]) THEN {answer.blocks} ELSE {}) :
          answering' = [answering EXCEPT ![w] =
                           {[answer EXCEPT !.next = @ + 1, !.blocks = blocks]}]
    /\ UNCHANGED <<nodes, ready, up, wire, told, handling, syncLeft, syncTrouble>>

SendAnswer(w, answer) ==
    /\ answer.next > answer.last
    /\ Send(<<w[2], w[1]>>, [kind |-> "blocks", blocks |-> answer.blocks])
    /\ answering' = [answering EXCEPT ![w] = {}]
    /\ UNCHANGED <<nodes, ready, up, told, handling, syncLeft, syncTrouble>>

\* Every version message is answered with another, so that a peer sends one at any time;
\* those without a height change nothing.
SendVersion(m, n) ==
    /\ m \in HeightSenders
    /\ <<m, n>> \in Way /\ {m, n} \in up
    /\ \A i \in DOMAIN wire[<<m, n>>] : wire[<<m, n>>][i].kind # "version"
    /\ told[<<n, m>>] # HeightOf(m)
    /\ Send(<<m, n>>, [kind |-> "version", height |-> HeightOf(m)])
    /\ UNCHANGED <<nodes, ready, up, told, goroutines, syncLeft, syncTrouble>>

ReceiveVersion(m, n) ==
    /\ Arrives(m, n, "version")
    /\ Take(m, n)
    /\ told' = [told EXCEPT ![<<n, m>>] = Received(m, n).height]
    /\ UNCHANGED <<nodes, ready, up, goroutines, syncLeft, syncTrouble>>

\* What is under way is lost, and the next connection starts with a new Peer; blocks that
\* have been received are added all the same.
Disconnect(link) ==
    LET Broken(w) == {w[1], w[2]} = link
    IN  /\ link \in up
        /\ Use("breaks")
        /\ up' = up \ {link}
        /\ wire' = [w \in Way |-> IF Broken(w) THEN <<>> ELSE wire[w]]
        /\ told' = [w \in Way |-> IF Broken(w) THEN 0 ELSE told[w]]
        /\ answering' = [w \in Way |-> IF Broken(w) THEN {} ELSE answering[w]]
        /\ handling' = [w \in Way |->
                           {IF Broken(w) /\ job.cut = 0 THEN [job EXCEPT !.cut = syncLeft.breaks]
                            ELSE job : job \in handling[w]}]
        /\ Trouble({"break"})
        /\ UNCHANGED <<nodes, ready>>

Reconnect(link) ==
    /\ link \in Links \ up
    /\ up' = up \cup {link}
    /\ UNCHANGED <<nodes, ready, wire, told, goroutines, syncLeft, syncTrouble>>

-----------------------------------------------------------------------------
SyncNext ==
    \/ \E n \in SyncNode : SetupP2PIntegration(n) \/ SubmitBlock(n) \/ BroadcastBlock(n)
    \/ \E w \in Way :
          \/ RequestBlocks(w[1], w[2]) \/ IgnoreBlocks(w[1], w[2])
          \/ ReceiveBlock(w[1], w[2]) \/ ReceiveAnswer(w[1], w[2])
          \/ \E job \in handling[w] :
                AddNextBlock(w, job) \/ RefuseNextBlock(w, job) \/ ReorganizeChain(w, job)
          \/ ReceiveGetBlocks(w[1], w[2])
          \/ \E answer \in answering[w] : ReadBlock(w, answer) \/ SendAnswer(w, answer)
          \/ SendVersion(w[1], w[2]) \/ ReceiveVersion(w[1], w[2])
    \/ \E link \in Links : Disconnect(link) \/ Reconnect(link)

SyncSpec == SyncInit /\ [][SyncNext]_syncVars

-----------------------------------------------------------------------------
\* Out of gossip, answers, forks, refusals and broken connections in any order, a node
\* keeps no block whose parent it does not have ("Parent not found - this is invalid
\* (orphan block)", blockchain.go:420).
ChainsAreClosed ==
    \A n \in SyncNode : \A b \in nodes[n].stored \ {Origin} :
        \E c \in nodes[n].stored : c.id = b.parent /\ c.number = b.number - 1

\* No block is announced, sent or added any more.
Quiet ==
    /\ \A n \in SyncNode : nodes[n].events = <<>>
    /\ \A w \in Way : /\ handling[w] = {}
                      /\ \A i \in DOMAIN wire[w] : wire[w][i].kind \notin {"block", "blocks"}

\* Nodes that are not all connected with each other end up with the same chain when
\* blocks stop coming: each passes on what it has got from another.  It takes that no
\* connection breaks, no node is still starting, no event is dropped and no block is
\* refused or meets another of its height: after any of these the nodes may differ until
\* a peer tells its height, which those of this build never do.
QuietNodesAgree ==
    syncTrouble = {} /\ Quiet => \A n, m \in SyncNode : nodes[n].tip = nodes[m].tip

\* While an answer is added block after block, and blocks of other peers come in between,
\* no block is missing before it, whatever gossip has brought since the request was made:
\* of an answer of the branch that the tip was on, the first block that is not kept has been
\* refused by validation or has met a tip of its own height with another parent ("CRITICAL:
\* Always request blocks from currentHeight + 1", kalon-node-v2/main.go:651).  It takes that
\* no reorganization has led back to a lower tip; an answer that was read while its sender
\* reorganized is not of one branch.
AnswersCloseGaps ==
    [][\A w \in Way : \A job \in handling[w] :
          LET node == nodes[w[2]]
              b == job.blocks[job.at]
          IN  /\ job.fits /\ "back" \notin syncTrouble
              /\ \A i \in 1..(job.at - 1) : job.blocks[i] \in node.stored
              /\ handling'[w] = (handling[w] \ {job}) \cup After(job) /\ syncLeft' = syncLeft
              => \/ b \in nodes'[w[2]].stored
                 \/ b.number = node.tip.number /\ b.parent # node.tip.parent]_syncVars

\* Refuted: two nodes with the same tip have the same unspent outputs ("AddBlockV2 is
\* the main function for adding blocks - ensures UTXO processing", blockchain.go:988).
SameTipSameLedger ==
    \A n, m \in SyncNode : nodes[n].tip = nodes[m].tip => nodes[n].outputs = nodes[m].outputs
=============================================================================
