----------------------------- MODULE SyncProofs -----------------------------
(***************************************************************************)
(* Blocks between nodes, for any nodes, links and budgets: a node keeps no *)
(* block without its parent, connected nodes agree when blocks stop        *)
(* coming, and an answer to a request leaves no gap before its blocks.     *)
(***************************************************************************)
EXTENDS Sync, SequenceLemmas

-----------------------------------------------------------------------------
(* Sets of blocks. *)

\* A set of blocks with the parents of its members.
Closed(blocks) ==
    /\ Origin \in blocks
    /\ \A b \in blocks \ {Origin} : \E c \in blocks : c.id = b.parent /\ c.number = b.number - 1

\* Blocks of all nodes: an id names one block, and ids count down with the budget.
Distinct(blocks) ==
    /\ \A b \in blocks : b.id \in Nat /\ b.number \in Nat
    /\ \A b, c \in blocks : b.id = c.id => b = c

LEMMA OriginFields ==
    Origin.id = 0 /\ Origin.number = 0 /\ Origin.parent = -1
  BY DEF Origin

LEMMA ClosedParent ==
    ASSUME NEW known, Distinct(known), Closed(known), NEW b \in known, NEW c \in known,
           b # Origin, c.id = b.parent
    PROVE  c.number = b.number - 1 /\ b.number > 0
<1>1. PICK d \in known : d.id = b.parent /\ d.number = b.number - 1
  BY DEF Closed
<1>2. c = d /\ d.number \in Nat /\ b.number \in Nat
  BY <1>1 DEF Distinct
<1> QED BY <1>1, <1>2

LEMMA PathWithin ==
    ASSUME NEW blocks, NEW b
    PROVE  PathTo(blocks, b) \subseteq blocks \cup {b} /\ b \in PathTo(blocks, b)
  BY DEF PathTo

LEMMA PathHasParents ==
    ASSUME NEW blocks, NEW b, NEW x \in PathTo(blocks, b), NEW c \in blocks, c.id = x.parent
    PROVE  c \in PathTo(blocks, b)
  BY DEF PathTo

\* The branch of a block has a block of every height up to its own.
LEMMA PathReaches ==
    ASSUME NEW blocks, Distinct(blocks), Closed(blocks), NEW t \in blocks
    PROVE  \A k \in 0..t.number : \E b \in PathTo(blocks, t) : b.number = k
<1> DEFINE n == t.number
           P == PathTo(blocks, t)
           T == {j \in 0..n : \E b \in P : b.number = n - j}
<1>1. n \in Nat /\ P \subseteq blocks /\ t \in P
  BY PathWithin DEF Distinct
<1>2. \A x \in P : x # Origin => \E c \in P : c.number = x.number - 1
  <2> SUFFICES ASSUME NEW x \in P, x # Origin
               PROVE  \E c \in P : c.number = x.number - 1
    OBVIOUS
  <2>1. PICK c \in blocks : c.id = x.parent /\ c.number = x.number - 1
    BY <1>1 DEF Closed
  <2> QED BY <2>1, PathHasParents
<1>3. \A b \in P : b.number \in Nat
  BY <1>1 DEF Distinct
<1> HIDE DEF P
<1>4. 0 \in T
  <2>1. n - 0 = t.number
    BY <1>1
  <2> QED BY <1>1, <2>1
<1>5. \A j \in 0..n : j \in T /\ j < n => j + 1 \in T
  <2> SUFFICES ASSUME NEW j \in 0..n, j \in T, j < n
               PROVE  j + 1 \in T
    OBVIOUS
  <2>1. PICK b \in P : b.number = n - j
    OBVIOUS
  <2>2. b # Origin
    BY <1>1, <2>1, OriginFields
  <2>3. PICK c \in P : c.number = b.number - 1
    BY <1>2, <2>2
  <2> HIDE DEF n
  <2>4. c.number = n - (j + 1) /\ j + 1 \in 0..n
    BY <1>1, <2>1, <2>3
  <2> QED BY <2>4
<1>6. \A j \in 0..n : j \in T
  <2> HIDE DEF T, n
  <2> QED BY <1>1, <1>4, <1>5, UpTo, Zenon
<1>7. \A k \in 0..n : n - k \in 0..n /\ n - (n - k) = k
  <2> HIDE DEF n
  <2> QED BY <1>1
<1>8. \A k \in 0..n : \E b \in P : b.number = k
  <2> SUFFICES ASSUME NEW k \in 0..n
               PROVE  \E b \in P : b.number = k
    OBVIOUS
  <2>1. n - k \in T
    BY <1>6, <1>7
  <2>2. PICK b \in P : b.number = n - (n - k)
    BY <2>1
  <2> QED BY <1>7, <2>2
<1> QED BY <1>8 DEF P

-----------------------------------------------------------------------------
(* AddBlockV2 on one node. *)

NodeState(known) ==
    [stored : SUBSET known, tip : known, outputs : SUBSET {b.id : b \in known}, events : Seq(known)]

GoodNode(node, known) ==
    node \in NodeState(known) /\ Closed(node.stored) /\ node.tip \in node.stored

LEMMA EmitType ==
    ASSUME NEW known, NEW node \in NodeState(known), NEW n, NEW b \in known
    PROVE  /\ EmitAdded(node, n, b).node \in NodeState(known)
           /\ EmitAdded(node, n, b).outcome \in {"early", "dropped", "added"}
           /\ EmitAdded(node, n, b).node.stored = node.stored
           /\ EmitAdded(node, n, b).node.tip = node.tip
           /\ EmitAdded(node, n, b).outcome = "added" =>
                 EmitAdded(node, n, b).node.events = Append(node.events, b)
<1> DEFINE next == [node EXCEPT !.events = Append(@, b)]
<1>1. node.events \in Seq(known)
  BY DEF NodeState
<1>2. Append(node.events, b) \in Seq(known)
  BY <1>1
<1>3. next \in NodeState(known) /\ next.stored = node.stored /\ next.tip = node.tip
      /\ next.events = Append(node.events, b)
  BY <1>2 DEF NodeState
<1> HIDE DEF next
<1>4. \/ EmitAdded(node, n, b) = [node |-> node, outcome |-> "early"]
      \/ EmitAdded(node, n, b) = [node |-> node, outcome |-> "dropped"]
      \/ EmitAdded(node, n, b) = [node |-> next, outcome |-> "added"]
  BY DEF EmitAdded, Emit, next
<1> QED BY <1>3, <1>4

LEMMA OutputsType ==
    ASSUME NEW known, NEW blocks \in SUBSET known, NEW n
    PROVE  OutputsOf(blocks, n) \in SUBSET {b.id : b \in known}
  BY DEF OutputsOf

\* A block that extends the tip.
LEMMA ExtendType ==
    ASSUME NEW known, NEW node \in NodeState(known), NEW n, NEW b \in known
    PROVE  /\ Extend(node, n, b).node \in NodeState(known)
           /\ Extend(node, n, b).outcome \in {"early", "dropped", "added"}
           /\ Extend(node, n, b).node.stored = node.stored \cup {b}
           /\ Extend(node, n, b).node.tip = b
           /\ Extend(node, n, b).outcome = "added" =>
                 Extend(node, n, b).node.events = Append(node.events, b)
<1> DEFINE next == [node EXCEPT !.stored = @ \cup {b}, !.tip = b, !.outputs = @ \cup OutputsOf({b}, n)]
<1>1. OutputsOf({b}, n) \in SUBSET {c.id : c \in known}
  BY OutputsType
<1>2. next \in NodeState(known) /\ next.stored = node.stored \cup {b} /\ next.tip = b
      /\ next.events = node.events
  BY <1>1 DEF NodeState
<1>3. Extend(node, n, b) = EmitAdded(next, n, b)
  BY DEF Extend
<1> HIDE DEF next
<1> QED BY <1>2, <1>3, EmitType

LEMMA ReorganizeKeeps ==
    ASSUME NEW known, NEW node, GoodNode(node, known), NEW n, NEW b \in node.stored
    PROVE  /\ GoodNode(Reorganize(node, n, b), known)
           /\ Reorganize(node, n, b).stored = node.stored
           /\ Reorganize(node, n, b).tip = b
<1> DEFINE undone == PathTo(node.stored, node.tip) \ PathTo(node.stored, b)
           done == PathTo(node.stored, b) \ PathTo(node.stored, node.tip)
           next == [node EXCEPT !.tip = b,
                                !.outputs = (@ \ OutputsOf(undone, n)) \cup OutputsOf(done, n)]
<1>1. node.stored \in SUBSET known /\ node.tip \in known /\ node \in NodeState(known)
  BY DEF GoodNode, NodeState
<1>2. done \in SUBSET known
  <2>1. PathTo(node.stored, b) \subseteq node.stored \cup {b}
    BY PathWithin
  <2> QED BY <1>1, <2>1
<1> HIDE DEF undone, done
<1>3. OutputsOf(done, n) \in SUBSET {c.id : c \in known}
  BY <1>2, OutputsType
<1>4. next \in NodeState(known) /\ next.stored = node.stored /\ next.tip = b
  BY <1>1, <1>3 DEF NodeState
<1>5. Reorganize(node, n, b) = next
  BY DEF Reorganize, undone, done
<1> HIDE DEF next
<1> QED BY <1>4, <1>5 DEF GoodNode

\* What becomes of a node, whatever it holds.
LEMMA AddBlockType ==
    ASSUME NEW known, NEW node \in NodeState(known), NEW n, NEW b \in known
    PROVE  /\ AddBlock(node, n, b).node \in NodeState(known)
           /\ AddBlock(node, n, b).outcome = "longer" => b \in AddBlock(node, n, b).node.stored
<1>1. [node EXCEPT !.stored = @ \cup {b}] \in NodeState(known)
      /\ b \in [node EXCEPT !.stored = @ \cup {b}].stored
  BY DEF NodeState
<1> QED BY <1>1, ExtendType DEF AddBlock

\* A block is kept only with its parent.
LEMMA AddBlockKeeps ==
    ASSUME NEW known, Distinct(known), Closed(known), NEW node, GoodNode(node, known), NEW n,
           NEW b \in known
    PROVE  /\ GoodNode(AddBlock(node, n, b).node, known)
           /\ node.stored \subseteq AddBlock(node, n, b).node.stored
           /\ AddBlock(node, n, b).node.tip.number >= node.tip.number
           /\ HasParent(node, b) => b \in AddBlock(node, n, b).node.stored
<1> DEFINE next == AddBlock(node, n, b).node
<1>1. /\ next \in NodeState(known) /\ node \in NodeState(known)
      /\ node.stored \in SUBSET known /\ node.tip \in node.stored /\ Closed(node.stored)
  BY AddBlockType DEF GoodNode, NodeState
<1>2. node.tip \in known /\ node.tip.number \in Nat /\ b.number \in Nat
  BY <1>1 DEF Distinct
<1>3. CASE b \in node.stored \/ ~HasParent(node, b)
  <2>1. next = node
    BY <1>3 DEF AddBlock
  <2> HIDE DEF next
  <2> QED BY <1>1, <1>2, <1>3, <2>1 DEF GoodNode, next
<1>4. CASE b \notin node.stored /\ HasParent(node, b)
  <2>1. b # Origin
    BY <1>1, <1>4 DEF Closed
  <2>2. PICK d \in known : d.id = b.parent /\ d.number = b.number - 1
    BY <2>1 DEF Closed
  <2>3. b.number > 0
    BY <2>1, <2>2, ClosedParent
  <2>4. \E c \in node.stored : c.id = b.parent
    <3>1. CASE b.number = node.tip.number
      <4>1. b.parent = node.tip.parent /\ node.tip # Origin
        BY <1>4, <2>3, <3>1, OriginFields DEF HasParent
      <4> QED BY <1>1, <4>1 DEF Closed
    <3>2. CASE b.number # node.tip.number
      BY <1>4, <3>2 DEF HasParent
    <3> QED BY <3>1, <3>2
  <2>5. PICK c \in node.stored : c.id = b.parent /\ c.number = b.number - 1
    <3>1. PICK c \in node.stored : c.id = b.parent
      BY <2>4
    <3>2. c \in known
      BY <1>1
    <3> QED BY <2>1, <3>1, <3>2, ClosedParent
  <2>6. next.stored = node.stored \cup {b}
    <3>1. [node EXCEPT !.stored = @ \cup {b}].stored = node.stored \cup {b}
      BY <1>1 DEF NodeState
    <3> QED BY <1>1, <1>4, <3>1, ExtendType DEF AddBlock
  <2>7. next.tip \in {b, node.tip} /\ (next.tip = b => b.number >= node.tip.number)
    <3>1. CASE b.parent = node.tip.id
      <4>1. next.tip = b
        BY <1>1, <1>4, <3>1, ExtendType DEF AddBlock
      <4>2. node.tip.number = b.number - 1
        BY <1>2, <2>1, <3>1, ClosedParent
      <4> QED BY <1>2, <4>1, <4>2
    <3>2. CASE b.parent # node.tip.id
      <4>1. [node EXCEPT !.stored = @ \cup {b}].tip = node.tip
        BY <1>1 DEF NodeState
      <4>2. next.tip = node.tip
        BY <1>4, <3>2, <4>1 DEF AddBlock
      <4>3. node.tip # b
        BY <1>1, <1>4
      <4> QED BY <4>2, <4>3
    <3> QED BY <3>1, <3>2
  <2> HIDE DEF next
  <2>8. Closed(next.stored)
    BY <1>1, <2>5, <2>6 DEF Closed
  <2>9. next.tip.number >= node.tip.number /\ next.tip \in next.stored
    BY <1>1, <1>2, <2>6, <2>7
  <2> QED BY <1>1, <2>6, <2>8, <2>9 DEF GoodNode, next
<1> QED BY <1>3, <1>4

\* The tip is the one highest block.
HasTop(node) ==
    \A b \in node.stored : b.number <= node.tip.number /\ (b.number = node.tip.number => b = node.tip)

\* What is new is announced, and nothing that was to be announced is forgotten.
Announced(old, new) ==
    /\ old.stored \subseteq new.stored
    /\ ToSet(old.events) \subseteq ToSet(new.events)
    /\ new.stored \ old.stored \subseteq ToSet(new.events)

\* A block that comes without trouble is there already or extends the tip.
LEMMA AddBlockAnnounces ==
    ASSUME NEW known, Distinct(known), Closed(known), NEW node, GoodNode(node, known), NEW n,
           NEW b \in known, AddBlock(node, n, b).outcome \in Fine
    PROVE  /\ b \in AddBlock(node, n, b).node.stored
           /\ Announced(node, AddBlock(node, n, b).node)
           /\ HasTop(node) => HasTop(AddBlock(node, n, b).node)
<1> DEFINE next == AddBlock(node, n, b).node
<1>1. /\ node \in NodeState(known) /\ node.stored \in SUBSET known /\ node.tip \in node.stored
      /\ node.events \in Seq(known)
  BY DEF GoodNode, NodeState
<1>2. CASE b \in node.stored
  <2>1. next = node
    BY <1>2 DEF AddBlock
  <2> QED BY <1>2, <2>1 DEF Announced
<1>3. CASE b \notin node.stored
  <2>1. /\ b.parent = node.tip.id /\ AddBlock(node, n, b) = Extend(node, n, b)
        /\ AddBlock(node, n, b).outcome = "added"
    BY <1>1, <1>3, ExtendType DEF AddBlock, Fine
  <2>2. next.stored = node.stored \cup {b} /\ next.tip = b /\ next.events = Append(node.events, b)
    BY <1>1, <2>1, ExtendType
  <2> HIDE DEF next
  <2>3. ToSet(next.events) = ToSet(node.events) \cup {b}
    BY <1>1, <2>2, ToSetOfAppend
  <2>4. Announced(node, next)
    BY <2>2, <2>3 DEF Announced
  <2>5. HasTop(node) => HasTop(next)
    <3>1. b # Origin /\ node.tip \in known
      BY <1>1, <1>3 DEF GoodNode, Closed
    <3>2. node.tip.number = b.number - 1
      BY <2>1, <3>1, ClosedParent
    <3>3. node.tip.number \in Nat /\ b.number \in Nat /\ \A c \in node.stored : c.number \in Nat
      BY <1>1, <3>1 DEF Distinct
    <3> QED BY <2>2, <3>2, <3>3 DEF HasTop
  <2> QED BY <2>2, <2>4, <2>5 DEF next
<1> QED BY <1>2, <1>3

-----------------------------------------------------------------------------
(* The blocks of all nodes, the messages under way and what goroutines do. *)

Known == UNION {nodes[n].stored : n \in SyncNode}

MessageOf(known) ==
    [kind : {"block"}, block : known] \cup [kind : {"blocks"}, blocks : Seq(known)]
    \cup [kind : {"get_blocks"}, start : Nat, end : Int] \cup [kind : {"version"}, height : Nat]

JobOf(known) ==
    [blocks : Seq(known), at : Nat, step : {"add", "reorganize"}, fits : BOOLEAN, cut : Nat]

ReadingOf(known) == [next : Nat, last : Int, blocks : Seq(known)]

SyncBudgetType == [mined : Nat, breaks : Nat, refusals : Nat, requests : Nat]

NodesInv ==
    /\ DOMAIN nodes = SyncNode /\ Distinct(Known)
    /\ \A n \in SyncNode : GoodNode(nodes[n], Known)
    /\ \A b \in Known : b = Origin \/ b.id > syncLeft.mined

WiresInv == wire \in [Way -> Seq(MessageOf(Known))] /\ told \in [Way -> Nat]

\* A goroutine is at one of its blocks, and reorganizes to a block that its node has.
GoodJob(job, stored) ==
    /\ job.at \in DOMAIN job.blocks
    /\ job.step = "reorganize" => job.blocks[job.at] \in stored
    /\ job.fits => OneBranch(job.blocks)

JobsInv ==
    /\ handling \in [Way -> SUBSET JobOf(Known)]
    /\ \A w \in Way : \A job \in handling[w] : GoodJob(job, nodes[w[2]].stored)

ReadingsInv == answering \in [Way -> SUBSET ReadingOf(Known)]

SyncInv == syncLeft \in SyncBudgetType /\ NodesInv /\ WiresInv /\ JobsInv /\ ReadingsInv

\* What no step takes back.  Tips go back only as a late reorganization leads them.
Grows ==
    /\ syncTrouble \subseteq syncTrouble'
    /\ \A n \in SyncNode : nodes[n].stored \subseteq nodes'[n].stored
    /\ "back" \notin syncTrouble' =>
          \A n \in SyncNode : nodes'[n].tip.number >= nodes[n].tip.number

LEMMA WayNodes ==
    ASSUME NEW w \in Way
    PROVE  w[1] \in SyncNode /\ w[2] \in SyncNode /\ w = <<w[1], w[2]>> /\ {w[1], w[2]} \in Links
  BY DEF Way

LEMMA UseType ==
    ASSUME syncLeft \in SyncBudgetType, NEW what \in {"mined", "breaks", "refusals", "requests"},
           Use(what)
    PROVE  /\ syncLeft' \in SyncBudgetType /\ syncLeft'.mined <= syncLeft.mined
           /\ what = "mined" => syncLeft.mined > 0 /\ syncLeft'.mined = syncLeft.mined - 1
  BY DEF Use, SyncBudgetType

LEMMA KnownClosed ==
    ASSUME NodesInv, NEW n \in SyncNode
    PROVE  Closed(Known) /\ nodes[n].stored \subseteq Known /\ HeightOf(n) \in Nat
<1>1. \A m \in SyncNode : Closed(nodes[m].stored) /\ nodes[m].stored \subseteq Known
  BY DEF NodesInv, GoodNode, Known
<1>2. Closed(Known)
  BY <1>1 DEF Known, Closed
<1>3. nodes[n].tip \in Known
  BY <1>1 DEF NodesInv, GoodNode
<1> QED BY <1>1, <1>2, <1>3 DEF NodesInv, Distinct, HeightOf

LEMMA GoodNodeGrows ==
    ASSUME NEW known, NEW more, known \subseteq more, NEW node, GoodNode(node, known)
    PROVE  GoodNode(node, more)
<1>1. node.stored \in SUBSET more /\ node.tip \in more /\ node.events \in Seq(more)
      /\ node.outputs \in SUBSET {b.id : b \in more}
  BY DEF GoodNode, NodeState
<1> QED BY <1>1 DEF GoodNode, NodeState

LEMMA TypesGrow ==
    ASSUME NEW known, NEW more, known \subseteq more
    PROVE  /\ Seq(MessageOf(known)) \subseteq Seq(MessageOf(more))
           /\ JobOf(known) \subseteq JobOf(more) /\ ReadingOf(known) \subseteq ReadingOf(more)
<1>1. Seq(known) \subseteq Seq(more)
  OBVIOUS
<1>2. /\ MessageOf(known) \subseteq MessageOf(more)
      /\ JobOf(known) \subseteq JobOf(more) /\ ReadingOf(known) \subseteq ReadingOf(more)
  BY <1>1 DEF MessageOf, JobOf, ReadingOf
<1> HIDE DEF MessageOf
<1> QED BY <1>2

LEMMA KnownGrows ==
    ASSUME Grows
    PROVE  Known \subseteq Known'
  BY DEF Grows, Known

\* Goroutines that go on as they were.
LEMMA JobsStay ==
    ASSUME SyncInv, Grows, UNCHANGED handling
    PROVE  JobsInv'
<1>1. handling' \in [Way -> SUBSET JobOf(Known')]
  BY KnownGrows, TypesGrow DEF SyncInv, JobsInv
<1>2. \A w \in Way : \A job \in handling'[w] : GoodJob(job, nodes'[w[2]].stored)
  BY WayNodes DEF SyncInv, JobsInv, Grows, GoodJob
<1> QED BY <1>1, <1>2 DEF JobsInv

LEMMA ReadingsStay ==
    ASSUME SyncInv, Grows, UNCHANGED answering
    PROVE  ReadingsInv'
  BY KnownGrows, TypesGrow DEF SyncInv, ReadingsInv

LEMMA WiresStay ==
    ASSUME SyncInv, Grows, UNCHANGED <<wire, told>>
    PROVE  WiresInv'
<1>1. wire \in [Way -> Seq(MessageOf(Known))] /\ told \in [Way -> Nat]
  BY DEF SyncInv, WiresInv
<1>2. Seq(MessageOf(Known)) \subseteq Seq(MessageOf(Known'))
  BY KnownGrows, TypesGrow
<1> QED BY <1>1, <1>2 DEF WiresInv

\* The goroutines of one way go on.
MoveTo(w, jobs) ==
    /\ handling' = [handling EXCEPT ![w] = jobs]
    /\ \A job \in jobs : \/ job \in handling[w]
                         \/ job \in JobOf(Known) /\ GoodJob(job, nodes'[w[2]].stored)

LEMMA JobsMove ==
    ASSUME SyncInv, Grows, NEW w \in Way, NEW jobs, MoveTo(w, jobs)
    PROVE  /\ JobsInv'
           /\ \A v \in Way : handling'[v] = IF v = w THEN jobs ELSE handling[v]
<1>1. /\ handling \in [Way -> SUBSET JobOf(Known)] /\ w[2] \in SyncNode
      /\ \A v \in Way : \A job \in handling[v] : GoodJob(job, nodes[v[2]].stored)
  BY WayNodes DEF SyncInv, JobsInv
<1>2. \A v \in Way : handling'[v] = IF v = w THEN jobs ELSE handling[v]
  BY <1>1 DEF MoveTo
<1>3. jobs \subseteq JobOf(Known)
  BY <1>1 DEF MoveTo
<1>4. handling' \in [Way -> SUBSET JobOf(Known')]
  <2>1. handling' \in [Way -> SUBSET JobOf(Known)]
    BY <1>1, <1>3 DEF MoveTo
  <2> QED BY <2>1, KnownGrows, TypesGrow
<1>5. \A v \in Way : \A job \in handling'[v] : GoodJob(job, nodes'[v[2]].stored)
  <2>1. \A v \in Way : \A job \in handling[v] : GoodJob(job, nodes'[v[2]].stored)
    BY <1>1, WayNodes DEF Grows, GoodJob
  <2> QED BY <1>2, <2>1 DEF MoveTo
<1> QED BY <1>2, <1>4, <1>5 DEF JobsInv

LEMMA ReadingsMove ==
    ASSUME SyncInv, Grows, NEW w \in Way, NEW readings \in SUBSET ReadingOf(Known),
           answering' = [answering EXCEPT ![w] = readings]
    PROVE  /\ ReadingsInv'
           /\ \A v \in Way : answering'[v] = IF v = w THEN readings ELSE answering[v]
<1>1. answering \in [Way -> SUBSET ReadingOf(Known)]
  BY DEF SyncInv, ReadingsInv
<1>2. answering' \in [Way -> SUBSET ReadingOf(Known)]
  BY <1>1
<1>3. answering' \in [Way -> SUBSET ReadingOf(Known')]
  BY <1>2, KnownGrows, TypesGrow
<1> QED BY <1>1, <1>3 DEF ReadingsInv

\* One node gets what makes known all of a larger set of blocks.
LEMMA NodeReplaced ==
    ASSUME NodesInv, NEW known, Known \subseteq known, Distinct(known), NEW n \in SyncNode, NEW node,
           nodes' = [nodes EXCEPT ![n] = node], GoodNode(node, known),
           nodes[n].stored \cup (known \ Known) \subseteq node.stored
    PROVE  /\ Known' = known /\ DOMAIN nodes' = SyncNode
           /\ \A m \in SyncNode : GoodNode(nodes'[m], known)
           /\ \A m \in SyncNode : nodes'[m] = IF m = n THEN node ELSE nodes[m]
<1>1. \A m \in SyncNode : nodes'[m] = IF m = n THEN node ELSE nodes[m]
  BY DEF NodesInv
<1>2. \A m \in SyncNode : GoodNode(nodes'[m], known)
  BY <1>1, GoodNodeGrows DEF NodesInv
<1>3. Known' \subseteq known
  BY <1>2 DEF Known, GoodNode, NodeState
<1>4. \A m \in SyncNode : nodes[m].stored \subseteq nodes'[m].stored
  BY <1>1
<1>5. known \subseteq Known'
  BY <1>1, <1>4 DEF Known
<1> QED BY <1>1, <1>2, <1>3, <1>5 DEF NodesInv

\* Steps that leave blocks alone.
LEMMA SameBlocks ==
    ASSUME SyncInv, syncLeft'.mined \in Nat, syncLeft'.mined <= syncLeft.mined, UNCHANGED nodes,
           syncTrouble \subseteq syncTrouble'
    PROVE  NodesInv' /\ Known' = Known /\ Grows
<1>1. Known' = Known
  BY DEF Known
<1>2. \A b \in Known : b = Origin \/ b.id > syncLeft'.mined
  BY DEF SyncInv, NodesInv, Distinct, SyncBudgetType
<1>3. \A n \in SyncNode : nodes[n].tip.number \in Nat
  BY KnownClosed DEF SyncInv, HeightOf
<1> QED BY <1>1, <1>2, <1>3 DEF SyncInv, NodesInv, Grows

LEMMA SentWires ==
    ASSUME WiresInv, NEW w \in Way, NEW message \in MessageOf(Known), Send(w, message)
    PROVE  /\ wire' \in [Way -> Seq(MessageOf(Known))]
           /\ \A v \in Way : wire'[v] = IF v = w THEN Append(wire[v], message) ELSE wire[v]
<1> DEFINE M == MessageOf(Known)
<1>1. wire \in [Way -> Seq(M)] /\ message \in M
  BY DEF WiresInv
<1> HIDE DEF M
<1>2. wire' \in [Way -> Seq(M)]
      /\ \A v \in Way : wire'[v] = IF v = w THEN Append(wire[v], message) ELSE wire[v]
  BY <1>1 DEF Send
<1> QED BY <1>2 DEF M

LEMMA TakenWires ==
    ASSUME WiresInv, NEW w \in Way, wire[w] # <<>>, Take(w[1], w[2])
    PROVE  /\ wire' \in [Way -> Seq(MessageOf(Known))]
           /\ \A v \in Way : wire'[v] = IF v = w THEN Tail(wire[v]) ELSE wire[v]
<1> DEFINE M == MessageOf(Known)
<1>1. wire \in [Way -> Seq(M)] /\ w = <<w[1], w[2]>>
  BY WayNodes DEF WiresInv
<1> HIDE DEF M
<1>2. \A v \in Way : wire'[v] = IF v = w THEN Tail(wire[v]) ELSE wire[v]
  BY <1>1 DEF Take
<1>3. wire' \in [Way -> Seq(M)]
  <2>1. Tail(wire[w]) \in Seq(M)
    BY <1>1
  <2> QED BY <1>1, <2>1 DEF Take
<1> QED BY <1>2, <1>3 DEF M

LEMMA ArrivedMessage ==
    ASSUME WiresInv, NEW w \in Way, NEW kind, Arrives(w[1], w[2], kind)
    PROVE  /\ wire[w] \in Seq(MessageOf(Known)) /\ wire[w] # <<>>
           /\ Received(w[1], w[2]) = Head(wire[w]) /\ Head(wire[w]).kind = kind
           /\ kind = "block" => Head(wire[w]).block \in Known
           /\ kind = "blocks" => Head(wire[w]).blocks \in Seq(Known)
           /\ kind = "get_blocks" => Head(wire[w]).start \in Nat /\ Head(wire[w]).end \in Int
           /\ kind = "version" => Head(wire[w]).height \in Nat
<1> DEFINE M == MessageOf(Known)
<1>1. wire[w] \in Seq(M) /\ wire[w] # <<>> /\ w = <<w[1], w[2]>>
  BY WayNodes DEF WiresInv, Arrives
<1>2. Head(wire[w]) \in M
  <2> HIDE DEF M
  <2> QED BY <1>1
<1>3. Received(w[1], w[2]) = Head(wire[w]) /\ Head(wire[w]).kind = kind
  BY <1>1 DEF Received, Arrives
<1> QED BY <1>1, <1>2, <1>3 DEF MessageOf

-----------------------------------------------------------------------------
(* The actions. *)

\* A block that is known, or new and on a block that the node has.
LEMMA AddedKeeps ==
    ASSUME NodesInv, NEW n \in SyncNode, NEW b, NEW known, known = Known \cup {b},
           Distinct(known), Closed(known), b \in Known \/ HasParent(nodes[n], b),
           Added(n, AddBlock(nodes[n], n, b))
    PROVE  /\ Known' = known /\ DOMAIN nodes' = SyncNode
           /\ \A m \in SyncNode : GoodNode(nodes'[m], known)
           /\ \A m \in SyncNode \ {n} : nodes'[m] = nodes[m]
           /\ Grows
           /\ AddBlock(nodes[n], n, b).outcome = "longer" \/ HasParent(nodes[n], b) =>
                 b \in nodes'[n].stored
           /\ syncTrouble' = {} => /\ AddBlock(nodes[n], n, b).outcome \in Fine
                                   /\ b \in nodes'[n].stored
                                   /\ Announced(nodes[n], nodes'[n])
                                   /\ HasTop(nodes[n]) => HasTop(nodes'[n])
<1> PICK one : one = AddBlock(nodes[n], n, b)
  OBVIOUS
<1>1. nodes' = [nodes EXCEPT ![n] = one.node] /\ syncTrouble' = syncTrouble \cup ({one.outcome} \ Fine)
  BY DEF Added, Trouble
<1>2. GoodNode(nodes[n], known) /\ b \in known
  BY GoodNodeGrows DEF NodesInv
<1>3. /\ GoodNode(one.node, known) /\ nodes[n].stored \subseteq one.node.stored
      /\ one.node.tip.number >= nodes[n].tip.number
      /\ HasParent(nodes[n], b) => b \in one.node.stored
  BY <1>2, AddBlockKeeps
<1>4. one.outcome = "longer" => b \in one.node.stored
  BY <1>2, AddBlockType DEF GoodNode
<1>5. one.outcome \in Fine => /\ b \in one.node.stored /\ Announced(nodes[n], one.node)
                              /\ HasTop(nodes[n]) => HasTop(one.node)
  BY <1>2, AddBlockAnnounces
<1>6. nodes[n].stored \cup (known \ Known) \subseteq one.node.stored
  BY <1>3
<1>7. /\ Known' = known /\ DOMAIN nodes' = SyncNode
      /\ \A m \in SyncNode : GoodNode(nodes'[m], known)
      /\ \A m \in SyncNode : nodes'[m] = IF m = n THEN one.node ELSE nodes[m]
  BY <1>1, <1>3, <1>6, NodeReplaced
<1>8. Grows
  <2>1. \A m \in SyncNode : nodes[m].tip.number \in Nat
    BY KnownClosed DEF HeightOf
  <2> QED BY <1>1, <1>3, <1>7, <2>1 DEF Grows
<1> QED BY <1>1, <1>3, <1>4, <1>5, <1>7, <1>8

\* A block that is submitted is new and extends the tip.
LEMMA SubmitKeeps ==
    ASSUME SyncInv, NEW n \in SyncNode, SubmitBlock(n)
    PROVE  /\ SyncInv' /\ Grows /\ UNCHANGED <<up, wire, goroutines>>
           /\ \A m \in SyncNode \ {n} : nodes'[m] = nodes[m]
           /\ syncTrouble' = {} => /\ Announced(nodes[n], nodes'[n])
                                   /\ HasTop(nodes[n]) => HasTop(nodes'[n])
<1>1. PICK b : /\ b.id = syncLeft.mined /\ b.parent = nodes[n].tip.id /\ b.number = HeightOf(n) + 1
               /\ Added(n, AddBlock(nodes[n], n, b))
  BY DEF SubmitBlock
<1>2. Use("mined") /\ UNCHANGED <<up, wire, told, goroutines>> /\ syncLeft.mined \in Nat
  BY DEF SubmitBlock, SyncInv, SyncBudgetType
<1>3. syncLeft' \in SyncBudgetType /\ syncLeft.mined > 0 /\ syncLeft'.mined = syncLeft.mined - 1
  BY <1>2, UseType DEF SyncInv
<1>4. /\ NodesInv /\ Closed(Known) /\ HeightOf(n) \in Nat
      /\ nodes[n].tip \in Known /\ nodes[n].tip \in nodes[n].stored
  BY KnownClosed DEF SyncInv, NodesInv, GoodNode
<1> PICK known : known = Known \cup {b}
  OBVIOUS
<1>5. \A c \in Known : c.id # b.id
  BY <1>1, <1>2, <1>3, <1>4, OriginFields DEF NodesInv, Distinct
<1>6. Distinct(known)
  BY <1>1, <1>2, <1>4, <1>5 DEF NodesInv, Distinct
<1>7. Closed(known)
  <2>1. nodes[n].tip.number = b.number - 1
    BY <1>1, <1>4 DEF HeightOf
  <2> QED BY <1>1, <1>4, <2>1 DEF Closed
<1>8. HasParent(nodes[n], b)
  <2>1. b.number # nodes[n].tip.number
    BY <1>1, <1>4 DEF HeightOf
  <2> QED BY <1>1, <1>4, <2>1 DEF HasParent
<1>9. /\ Known' = known /\ DOMAIN nodes' = SyncNode /\ Grows
      /\ \A m \in SyncNode : GoodNode(nodes'[m], known)
      /\ \A m \in SyncNode \ {n} : nodes'[m] = nodes[m]
      /\ syncTrouble' = {} => /\ Announced(nodes[n], nodes'[n])
                              /\ HasTop(nodes[n]) => HasTop(nodes'[n])
  BY <1>1, <1>4, <1>6, <1>7, <1>8, AddedKeeps
<1>10. NodesInv'
  <2>1. \A c \in known : c = Origin \/ c.id > syncLeft'.mined
    BY <1>1, <1>2, <1>3, <1>4 DEF NodesInv, Distinct
  <2> QED BY <1>6, <1>9, <2>1 DEF NodesInv
<1>11. WiresInv' /\ JobsInv' /\ ReadingsInv'
  BY <1>2, <1>9, WiresStay, JobsStay, ReadingsStay DEF goroutines
<1> QED BY <1>2, <1>3, <1>9, <1>10, <1>11 DEF SyncInv

LEMMA BroadcastKeeps ==
    ASSUME SyncInv, NEW n \in SyncNode, BroadcastBlock(n)
    PROVE  /\ SyncInv' /\ Grows /\ UNCHANGED <<up, goroutines, syncTrouble>>
           /\ \A m \in SyncNode : /\ nodes'[m].stored = nodes[m].stored /\ nodes'[m].tip = nodes[m].tip
                                  /\ m # n => nodes'[m] = nodes[m]
           /\ nodes[n].events \in Seq(Known) /\ nodes[n].events # <<>>
           /\ nodes'[n].events = Tail(nodes[n].events)
           /\ LET message == [kind |-> "block", block |-> Head(nodes[n].events)]
              IN  \A w \in Way : wire'[w] = IF w[1] = n /\ {n, w[2]} \in up
                                            THEN Append(wire[w], message) ELSE wire[w]
<1> DEFINE old == nodes[n]
           node == [old EXCEPT !.events = Tail(@)]
           message == [kind |-> "block", block |-> Head(old.events)]
           M == MessageOf(Known)
<1>1. /\ NodesInv /\ old.events # <<>> /\ old \in NodeState(Known) /\ old.events \in Seq(Known)
      /\ DOMAIN nodes = SyncNode
  BY DEF BroadcastBlock, SyncInv, NodesInv, GoodNode, NodeState
<1>2. Tail(old.events) \in Seq(Known) /\ Head(old.events) \in Known
  BY <1>1
<1>3. /\ node \in NodeState(Known) /\ node.stored = old.stored /\ node.tip = old.tip
      /\ node.events = Tail(old.events)
  BY <1>1, <1>2 DEF NodeState
<1>4. nodes' = [nodes EXCEPT ![n] = node] /\ UNCHANGED <<up, told, goroutines, syncLeft, syncTrouble>>
      /\ wire' = [w \in Way |-> IF w[1] = n /\ {n, w[2]} \in up THEN Append(wire[w], message) ELSE wire[w]]
  BY DEF BroadcastBlock
<1>5. message \in M
  BY <1>2 DEF MessageOf
<1>6. wire \in [Way -> Seq(M)] /\ told \in [Way -> Nat]
  BY DEF SyncInv, WiresInv
<1> HIDE DEF node, M
<1>7. GoodNode(node, Known) /\ old.stored \cup (Known \ Known) \subseteq node.stored
  BY <1>1, <1>3 DEF NodesInv, GoodNode
<1>8. /\ Known' = Known /\ DOMAIN nodes' = SyncNode
      /\ \A m \in SyncNode : GoodNode(nodes'[m], Known)
      /\ \A m \in SyncNode : nodes'[m] = IF m = n THEN node ELSE nodes[m]
  BY <1>1, <1>4, <1>7, NodeReplaced DEF NodesInv
<1>9. NodesInv'
  BY <1>1, <1>4, <1>8 DEF NodesInv
<1>10. /\ \A m \in SyncNode : /\ nodes'[m].stored = nodes[m].stored /\ nodes'[m].tip = nodes[m].tip
                              /\ m # n => nodes'[m] = nodes[m]
       /\ nodes'[n].events = Tail(old.events)
  BY <1>3, <1>8
<1>11. Grows
  <2>1. \A m \in SyncNode : nodes[m].tip.number \in Nat
    BY <1>1, KnownClosed DEF HeightOf
  <2> QED BY <1>4, <1>10, <2>1 DEF Grows
<1> HIDE DEF message
<1>12. wire' \in [Way -> Seq(M)]
       /\ \A w \in Way : wire'[w] = IF w[1] = n /\ {n, w[2]} \in up THEN Append(wire[w], message) ELSE wire[w]
  BY <1>4, <1>5, <1>6
<1>13. WiresInv'
  BY <1>4, <1>6, <1>8, <1>12 DEF WiresInv, M
<1>14. JobsInv' /\ ReadingsInv'
  BY <1>4, <1>11, JobsStay, ReadingsStay DEF goroutines
<1>15. SyncInv'
  BY <1>4, <1>9, <1>13, <1>14 DEF SyncInv
<1> QED BY <1>1, <1>4, <1>10, <1>11, <1>12, <1>15 DEF message

LEMMA SetupKeeps ==
    ASSUME SyncInv, NEW n \in SyncNode, SetupP2PIntegration(n)
    PROVE  SyncInv' /\ Grows
<1>1. UNCHANGED <<nodes, wire, told, goroutines, syncLeft, syncTrouble>> /\ syncLeft.mined \in Nat
  BY DEF SetupP2PIntegration, SyncInv, SyncBudgetType
<1>2. NodesInv' /\ Grows
  BY <1>1, SameBlocks
<1>3. WiresInv' /\ JobsInv' /\ ReadingsInv'
  BY <1>1, <1>2, WiresStay, JobsStay, ReadingsStay DEF goroutines
<1> QED BY <1>1, <1>2, <1>3 DEF SyncInv

LEMMA RequestKeeps ==
    ASSUME SyncInv, NEW w \in Way, RequestBlocks(w[1], w[2])
    PROVE  /\ SyncInv' /\ Grows /\ UNCHANGED <<nodes, up, goroutines, syncTrouble>>
           /\ \E message \in MessageOf(Known) :
                 /\ message.kind = "get_blocks" /\ message.start = HeightOf(w[1]) + 1
                 /\ \A v \in Way : wire'[v] = IF v = w THEN Append(wire[v], message) ELSE wire[v]
<1> DEFINE n == w[1]
           m == w[2]
           start == FirstMissing(n)
           last == IF told[<<n, m>>] > HeightOf(n) THEN told[<<n, m>>] ELSE start
           end == IF last >= start + MaxBatch THEN start + MaxBatch - 1 ELSE last
           message == [kind |-> "get_blocks", start |-> start, end |-> end]
<1>1. syncLeft \in SyncBudgetType /\ WiresInv /\ told \in [Way -> Nat]
  BY DEF SyncInv, WiresInv
<1>2. n \in SyncNode /\ w = <<n, m>> /\ HeightOf(n) \in Nat /\ told[w] \in Nat
  BY <1>1, WayNodes, KnownClosed DEF SyncInv
<1>3. Use("requests") /\ Send(w, message) /\ UNCHANGED <<nodes, up, told, goroutines, syncTrouble>>
  BY <1>2 DEF RequestBlocks
<1>4. start \in Nat /\ start = HeightOf(n) + 1
  BY <1>2 DEF FirstMissing
<1>5. end \in Int
  <2>1. told[<<n, m>>] \in Nat
    BY <1>2
  <2> HIDE DEF n, m, start
  <2> QED BY <1>4, <2>1, SyncAssumption
<1> HIDE DEF start, end
<1>6. message \in MessageOf(Known)
  BY <1>4, <1>5 DEF MessageOf
<1>7. message.kind = "get_blocks" /\ message.start = HeightOf(n) + 1
  BY <1>4
<1>8. syncLeft' \in SyncBudgetType /\ syncLeft'.mined <= syncLeft.mined /\ syncLeft'.mined \in Nat
  BY <1>1, <1>3, UseType DEF SyncBudgetType
<1>9. NodesInv' /\ Known' = Known /\ Grows
  BY <1>3, <1>8, SameBlocks
<1> HIDE DEF message
<1>10. /\ wire' \in [Way -> Seq(MessageOf(Known))]
       /\ \A v \in Way : wire'[v] = IF v = w THEN Append(wire[v], message) ELSE wire[v]
  BY <1>1, <1>3, <1>6, SentWires
<1>11. WiresInv' /\ JobsInv' /\ ReadingsInv'
  BY <1>1, <1>3, <1>9, <1>10, JobsStay, ReadingsStay DEF WiresInv, goroutines
<1> QED BY <1>3, <1>6, <1>7, <1>8, <1>9, <1>10, <1>11 DEF SyncInv

LEMMA IgnoreKeeps ==
    ASSUME SyncInv, NEW w \in Way, IgnoreBlocks(w[1], w[2])
    PROVE  /\ SyncInv' /\ Grows /\ UNCHANGED <<nodes, goroutines>>
           /\ syncTrouble' = syncTrouble \cup {"early"}
           /\ wire[w] \in Seq(MessageOf(Known)) /\ wire[w] # <<>>
           /\ \A v \in Way : wire'[v] = IF v = w THEN Tail(wire[v]) ELSE wire[v]
<1>1. /\ Take(w[1], w[2]) /\ UNCHANGED <<nodes, told, goroutines, syncLeft>>
      /\ syncTrouble' = syncTrouble \cup {"early"}
      /\ syncLeft.mined \in Nat /\ WiresInv
  BY DEF IgnoreBlocks, Trouble, SyncInv, SyncBudgetType
<1>2. wire[w] \in Seq(MessageOf(Known)) /\ wire[w] # <<>>
  BY <1>1, ArrivedMessage DEF IgnoreBlocks
<1>3. NodesInv' /\ Known' = Known /\ Grows
  BY <1>1, SameBlocks
<1>4. /\ wire' \in [Way -> Seq(MessageOf(Known))]
      /\ \A v \in Way : wire'[v] = IF v = w THEN Tail(wire[v]) ELSE wire[v]
  BY <1>1, <1>2, TakenWires
<1>5. WiresInv' /\ JobsInv' /\ ReadingsInv'
  BY <1>1, <1>3, <1>4, JobsStay, ReadingsStay DEF WiresInv, goroutines
<1> QED BY <1>1, <1>2, <1>3, <1>4, <1>5 DEF SyncInv

\* A block that is to be added.
Due(jobs, b) == \E job \in jobs : \E i \in job.at..Len(job.blocks) : job.blocks[i] = b

\* What has arrived is to be added.
LEMMA ReceiveKeeps ==
    ASSUME SyncInv, NEW w \in Way, ReceiveBlock(w[1], w[2]) \/ ReceiveAnswer(w[1], w[2])
    PROVE  /\ SyncInv' /\ Grows /\ UNCHANGED <<nodes, up, answering, syncTrouble>>
           /\ wire[w] \in Seq(MessageOf(Known)) /\ wire[w] # <<>>
           /\ \A v \in Way : wire'[v] = IF v = w THEN Tail(wire[v]) ELSE wire[v]
           /\ \A v \in Way : handling[v] \subseteq handling'[v] /\ (v # w => handling'[v] = handling[v])
           /\ Head(wire[w]).kind = "block" => Due(handling'[w], Head(wire[w]).block)
           /\ \A job \in handling'[w] \ handling[w] :
                 /\ job.step = "add"
                 /\ job.fits => /\ Head(wire[w]).kind = "blocks" /\ job.blocks = Head(wire[w]).blocks
                                /\ job.blocks \in Seq(Known) /\ OneBranch(job.blocks)
                                /\ nodes[w[2]].tip \in PathTo(nodes[w[1]].stored, Last(job.blocks))
<1> DEFINE head == Head(wire[w])
           Fit(blocks) == /\ head.kind = "blocks" /\ blocks = head.blocks /\ OneBranch(blocks)
                          /\ nodes[w[2]].tip \in PathTo(nodes[w[1]].stored, Last(blocks))
<1>1. w[1] \in SyncNode /\ w[2] \in SyncNode /\ w = <<w[1], w[2]>>
  BY WayNodes
<1>2. WiresInv /\ syncLeft.mined \in Nat
  BY DEF SyncInv, SyncBudgetType
<1>3. PICK blocks \in Seq(Known), fits \in BOOLEAN :
         /\ StartAdding(w, blocks, fits) /\ Take(w[1], w[2])
         /\ wire[w] \in Seq(MessageOf(Known)) /\ wire[w] # <<>>
         /\ head.kind = "block" => blocks = <<head.block>>
         /\ fits => Fit(blocks)
  <2>1. CASE ReceiveBlock(w[1], w[2])
    <3>1. /\ Arrives(w[1], w[2], "block") /\ Take(w[1], w[2])
          /\ StartAdding(w, <<Received(w[1], w[2]).block>>, FALSE)
      BY <1>1, <2>1 DEF ReceiveBlock
    <3>2. /\ wire[w] \in Seq(MessageOf(Known)) /\ wire[w] # <<>>
          /\ Received(w[1], w[2]) = head /\ head.block \in Known
      BY <1>2, <3>1, ArrivedMessage
    <3>3. <<head.block>> \in Seq(Known)
      BY <3>2
    <3> QED BY <3>1, <3>2, <3>3
  <2>2. CASE ReceiveAnswer(w[1], w[2])
    <3>1. Arrives(w[1], w[2], "blocks") /\ Take(w[1], w[2])
      BY <2>2 DEF ReceiveAnswer
    <3>2. /\ wire[w] \in Seq(MessageOf(Known)) /\ wire[w] # <<>> /\ head.kind = "blocks"
          /\ Received(w[1], w[2]) = head /\ head.blocks \in Seq(Known)
      BY <1>2, <3>1, ArrivedMessage
    <3>3. PICK fits \in BOOLEAN :
             /\ fits <=> /\ OneBranch(head.blocks)
                         /\ nodes[w[2]].tip \in PathTo(nodes[w[1]].stored, Last(head.blocks))
             /\ StartAdding(w, head.blocks, fits)
      BY <1>1, <2>2, <3>2, Zenon DEF ReceiveAnswer
    <3> QED BY <3>1, <3>2, <3>3
  <2> QED BY <2>1, <2>2
<1>4. UNCHANGED <<nodes, up, told, answering, syncLeft, syncTrouble>>
  BY DEF ReceiveBlock, ReceiveAnswer
<1>5. NodesInv' /\ Known' = Known /\ Grows
  BY <1>2, <1>4, SameBlocks
<1>6. /\ wire' \in [Way -> Seq(MessageOf(Known))]
      /\ \A v \in Way : wire'[v] = IF v = w THEN Tail(wire[v]) ELSE wire[v]
  BY <1>2, <1>3, TakenWires
<1> PICK new : new = [blocks |-> blocks, at |-> 1, step |-> "add", fits |-> fits, cut |-> 0]
  OBVIOUS
<1> PICK jobs : jobs = IF blocks = <<>> THEN handling[w] ELSE handling[w] \cup {new}
  OBVIOUS
<1>7. handling' = [handling EXCEPT ![w] = jobs]
  BY <1>3 DEF StartAdding
<1>8. blocks # <<>> => new \in JobOf(Known) /\ GoodJob(new, nodes'[w[2]].stored)
  <2>1. new \in JobOf(Known)
    BY <1>3 DEF JobOf
  <2>2. blocks # <<>> => 1 \in DOMAIN blocks
    BY <1>3
  <2> QED BY <1>3, <2>1, <2>2 DEF GoodJob
<1>9. JobsInv' /\ \A v \in Way : handling'[v] = IF v = w THEN jobs ELSE handling[v]
  <2>1. MoveTo(w, jobs)
    BY <1>8, <1>7 DEF MoveTo
  <2> QED BY <1>5, <2>1, JobsMove
<1>10. ReadingsInv' /\ WiresInv'
  BY <1>2, <1>4, <1>5, <1>6, ReadingsStay DEF WiresInv
<1>11. head.kind = "block" => Due(handling'[w], head.block)
  <2> SUFFICES ASSUME head.kind = "block"
               PROVE  Due(handling'[w], head.block)
    OBVIOUS
  <2>1. blocks = <<head.block>> /\ Len(blocks) = 1 /\ blocks[1] = head.block /\ blocks # <<>>
    BY <1>3
  <2>2. new \in handling'[w] /\ new.at = 1 /\ new.blocks = blocks
    BY <1>9, <2>1
  <2>3. 1 \in new.at..Len(new.blocks) /\ new.blocks[1] = head.block
    BY <2>1, <2>2
  <2> QED BY <2>2, <2>3 DEF Due
<1>12. \A job \in handling'[w] \ handling[w] : /\ job.step = "add" /\ job.blocks \in Seq(Known)
                                               /\ job.fits => Fit(job.blocks)
  BY <1>3, <1>9
<1>13. SyncInv'
  BY <1>4, <1>5, <1>9, <1>10 DEF SyncInv
<1> QED BY <1>3, <1>4, <1>5, <1>6, <1>9, <1>11, <1>12, <1>13

\* A goroutine turns to the next block, if there is one.
LEMMA AfterGood ==
    ASSUME NEW job \in JobOf(Known), NEW stored, GoodJob(job, stored)
    PROVE  /\ job \notin After(job)
           /\ job.at < Len(job.blocks) => After(job) # {}
           /\ \A next \in After(job) :
                 /\ next \in JobOf(Known) /\ GoodJob(next, stored)
                 /\ next.blocks = job.blocks /\ next.at = job.at + 1
                 /\ next.step = "add" /\ next.fits = job.fits
<1>1. job.blocks \in Seq(Known) /\ job.at \in Nat /\ job.at \in DOMAIN job.blocks
  BY DEF GoodJob, JobOf
<1> PICK k \in Nat : k = job.at + 1
  BY <1>1
<1> PICK next : next = [job EXCEPT !.at = k, !.step = "add"]
  OBVIOUS
<1>2. After(job) = IF job.at = Len(job.blocks) THEN {} ELSE {next}
  BY DEF After
<1>3. /\ next \in JobOf(Known) /\ next.blocks = job.blocks /\ next.at = job.at + 1
      /\ next.step = "add" /\ next.fits = job.fits
  BY DEF JobOf
<1>4. next # job
  <2>1. job.at + 1 # job.at
    BY <1>1
  <2> QED BY <1>3, <2>1
<1>5. job.at # Len(job.blocks) => job.at + 1 \in DOMAIN job.blocks
  BY <1>1
<1>6. job.at # Len(job.blocks) => GoodJob(next, stored)
  BY <1>3, <1>5 DEF GoodJob
<1>7. job.at < Len(job.blocks) => job.at # Len(job.blocks)
  BY <1>1
<1> QED BY <1>2, <1>3, <1>4, <1>6, <1>7

LEMMA AddNextKeeps ==
    ASSUME SyncInv, NEW w \in Way, NEW job \in handling[w], AddNextBlock(w, job)
    PROVE  /\ SyncInv' /\ Grows /\ UNCHANGED <<up, wire, answering, syncLeft>>
           /\ \A m \in SyncNode \ {w[2]} : nodes'[m] = nodes[m]
           /\ \A v \in Way \ {w} : handling'[v] = handling[v]
           /\ \A other \in handling[w] \ {job} : other \in handling'[w]
           /\ \A other \in handling'[w] \ handling[w] :
                 other.blocks = job.blocks /\ other.fits = job.fits
           /\ HasParent(nodes[w[2]], job.blocks[job.at]) => job.blocks[job.at] \in nodes'[w[2]].stored
           /\ syncTrouble' = {} => /\ job.blocks[job.at] \in nodes'[w[2]].stored
                                   /\ Announced(nodes[w[2]], nodes'[w[2]])
                                   /\ HasTop(nodes[w[2]]) => HasTop(nodes'[w[2]])
                                   /\ handling'[w] = (handling[w] \ {job}) \cup After(job)
<1> DEFINE n == w[2]
           b == job.blocks[job.at]
<1> PICK outcome : outcome = AddBlock(nodes[n], n, b).outcome
  OBVIOUS
<1> PICK next : next = IF outcome = "longer" THEN {[job EXCEPT !.step = "reorganize"]} ELSE After(job)
  OBVIOUS
<1>1. /\ Added(n, AddBlock(nodes[n], n, b)) /\ GoesOn(w, job, next)
      /\ UNCHANGED <<up, wire, told, answering, syncLeft>>
  BY DEF AddNextBlock
<1>2. /\ n \in SyncNode /\ job \in JobOf(Known) /\ GoodJob(job, nodes[n].stored)
      /\ syncLeft.mined \in Nat /\ NodesInv
  BY WayNodes DEF SyncInv, JobsInv, SyncBudgetType
<1>3. b \in Known
  <2>1. job.blocks \in Seq(Known) /\ job.at \in DOMAIN job.blocks
    BY <1>2 DEF JobOf, GoodJob
  <2> QED BY <2>1
<1>4. Known = Known \cup {b} /\ Distinct(Known) /\ Closed(Known)
  BY <1>2, <1>3, KnownClosed DEF NodesInv
<1>5. /\ Known' = Known /\ DOMAIN nodes' = SyncNode
      /\ \A m \in SyncNode : GoodNode(nodes'[m], Known)
      /\ \A m \in SyncNode \ {n} : nodes'[m] = nodes[m]
      /\ Grows
      /\ outcome = "longer" \/ HasParent(nodes[n], b) => b \in nodes'[n].stored
      /\ syncTrouble' = {} => /\ outcome \in Fine
                              /\ b \in nodes'[n].stored
                              /\ Announced(nodes[n], nodes'[n])
                              /\ HasTop(nodes[n]) => HasTop(nodes'[n])
  BY <1>1, <1>2, <1>3, <1>4, AddedKeeps
<1> HIDE DEF b
<1>6. NodesInv'
  BY <1>1, <1>2, <1>4, <1>5 DEF NodesInv
<1>7. \A other \in next : /\ other \in JobOf(Known) /\ GoodJob(other, nodes'[n].stored)
                          /\ other.blocks = job.blocks /\ other.fits = job.fits
  <2>1. CASE outcome = "longer"
    <3>1. PICK other : other = [job EXCEPT !.step = "reorganize"]
      OBVIOUS
    <3>2. /\ other \in JobOf(Known) /\ other.blocks = job.blocks /\ other.at = job.at
          /\ other.fits = job.fits
      BY <1>2, <3>1 DEF JobOf
    <3>3. GoodJob(other, nodes'[n].stored)
      BY <1>2, <1>5, <2>1, <3>2 DEF GoodJob, b
    <3> QED BY <2>1, <3>1, <3>2, <3>3
  <2>2. CASE outcome # "longer"
    <3>1. \A other \in next : /\ other \in JobOf(Known) /\ GoodJob(other, nodes[n].stored)
                              /\ other.blocks = job.blocks /\ other.fits = job.fits
      BY <1>2, <2>2, AfterGood
    <3> QED BY <1>2, <1>5, <3>1 DEF GoodJob, Grows
  <2> QED BY <2>1, <2>2
<1> PICK jobs : jobs = (handling[w] \ {job}) \cup next
  OBVIOUS
<1>8. handling' = [handling EXCEPT ![w] = jobs]
  BY <1>1 DEF GoesOn
<1>9. JobsInv' /\ \A v \in Way : handling'[v] = IF v = w THEN jobs ELSE handling[v]
  <2>1. MoveTo(w, jobs)
    BY <1>7, <1>8 DEF MoveTo
  <2> QED BY <1>5, <2>1, JobsMove
<1>10. WiresInv' /\ ReadingsInv'
  BY <1>1, <1>5, WiresStay, ReadingsStay
<1>11. SyncInv'
  BY <1>1, <1>6, <1>9, <1>10 DEF SyncInv
<1>12. syncTrouble' = {} => next = After(job)
  BY <1>5 DEF Fine
<1> QED BY <1>1, <1>5, <1>7, <1>9, <1>11, <1>12 DEF b

LEMMA RefuseKeeps ==
    ASSUME SyncInv, NEW w \in Way, NEW job \in handling[w], RefuseNextBlock(w, job)
    PROVE  /\ SyncInv' /\ Grows /\ "refused" \in syncTrouble' /\ Use("refusals")
           /\ UNCHANGED <<nodes, wire, answering>>
           /\ \A v \in Way \ {w} : handling'[v] = handling[v]
           /\ \A other \in handling'[w] \ handling[w] :
                 other.blocks = job.blocks /\ other.fits = job.fits
<1>1. /\ Use("refusals") /\ GoesOn(w, job, After(job)) /\ UNCHANGED <<nodes, wire, told, answering>>
      /\ syncTrouble' = syncTrouble \cup {"refused"}
  BY DEF RefuseNextBlock, Trouble
<1>2. /\ job \in JobOf(Known) /\ GoodJob(job, nodes[w[2]].stored) /\ w[2] \in SyncNode
  BY WayNodes DEF SyncInv, JobsInv
<1>3. syncLeft' \in SyncBudgetType /\ syncLeft'.mined <= syncLeft.mined /\ syncLeft'.mined \in Nat
  BY <1>1, UseType DEF SyncInv, SyncBudgetType
<1>4. NodesInv' /\ Known' = Known /\ Grows
  BY <1>1, <1>3, SameBlocks
<1>5. \A other \in After(job) : /\ other \in JobOf(Known) /\ GoodJob(other, nodes'[w[2]].stored)
                                /\ other.blocks = job.blocks /\ other.fits = job.fits
  BY <1>1, <1>2, AfterGood
<1> PICK jobs : jobs = (handling[w] \ {job}) \cup After(job)
  OBVIOUS
<1>6. handling' = [handling EXCEPT ![w] = jobs]
  BY <1>1 DEF GoesOn
<1>7. JobsInv' /\ \A v \in Way : handling'[v] = IF v = w THEN jobs ELSE handling[v]
  <2>1. MoveTo(w, jobs)
    BY <1>5, <1>6 DEF MoveTo
  <2> QED BY <1>4, <2>1, JobsMove
<1>8. WiresInv' /\ ReadingsInv'
  BY <1>1, <1>4, WiresStay, ReadingsStay
<1> QED BY <1>1, <1>3, <1>4, <1>5, <1>7, <1>8 DEF SyncInv

LEMMA ReorganizeChainKeeps ==
    ASSUME SyncInv, NEW w \in Way, NEW job \in handling[w], ReorganizeChain(w, job)
    PROVE  /\ SyncInv' /\ Grows /\ job.step = "reorganize"
           /\ UNCHANGED <<up, wire, answering, syncLeft>>
           /\ job.blocks[job.at] \in nodes'[w[2]].stored
           /\ \A v \in Way \ {w} : handling'[v] = handling[v]
           /\ \A other \in handling[w] \ {job} : other \in handling'[w]
           /\ \A other \in handling'[w] \ handling[w] :
                 other.blocks = job.blocks /\ other.fits = job.fits
<1> DEFINE n == w[2]
           old == nodes[n]
           b == job.blocks[job.at]
           node == Reorganize(old, n, b)
<1>1. /\ job.step = "reorganize" /\ nodes' = [nodes EXCEPT ![n] = node]
      /\ syncTrouble' = syncTrouble \cup (IF b.number < HeightOf(n) THEN {"back"} ELSE {})
      /\ GoesOn(w, job, After(job)) /\ UNCHANGED <<up, wire, told, answering, syncLeft>>
  BY DEF ReorganizeChain, Trouble
<1>2. /\ n \in SyncNode /\ job \in JobOf(Known) /\ GoodJob(job, old.stored)
      /\ NodesInv /\ GoodNode(old, Known) /\ old.stored \subseteq Known
  BY WayNodes, KnownClosed DEF SyncInv, JobsInv, NodesInv
<1>3. b \in old.stored /\ b \in Known
  BY <1>1, <1>2 DEF GoodJob
<1>4. GoodNode(node, Known) /\ node.stored = old.stored /\ node.tip = b
  BY <1>2, <1>3, ReorganizeKeeps
<1> HIDE DEF node
<1>5. /\ Known' = Known /\ DOMAIN nodes' = SyncNode
      /\ \A m \in SyncNode : GoodNode(nodes'[m], Known)
      /\ \A m \in SyncNode : nodes'[m] = IF m = n THEN node ELSE nodes[m]
  <2>1. old.stored \cup (Known \ Known) \subseteq node.stored
    BY <1>4
  <2> QED BY <1>1, <1>2, <1>4, <2>1, NodeReplaced DEF NodesInv
<1>6. NodesInv'
  BY <1>1, <1>2, <1>5 DEF NodesInv
<1>7. Grows
  <2>1. b.number \in Nat /\ HeightOf(n) = old.tip.number /\ \A m \in SyncNode : nodes[m].tip.number \in Nat
    BY <1>2, <1>3, KnownClosed DEF NodesInv, Distinct, HeightOf
  <2>2. "back" \notin syncTrouble' => b.number >= old.tip.number
    <3>1. b.number < HeightOf(n) => "back" \in syncTrouble'
      BY <1>1
    <3>2. old.tip.number \in Nat
      BY <1>2, <2>1
    <3> HIDE DEF b, old, n
    <3> QED BY <2>1, <3>1, <3>2
  <2>3. \A m \in SyncNode : nodes[m].stored \subseteq nodes'[m].stored
    BY <1>4, <1>5
  <2>4. "back" \notin syncTrouble' => \A m \in SyncNode : nodes'[m].tip.number >= nodes[m].tip.number
    BY <1>4, <1>5, <2>1, <2>2
  <2> QED BY <1>1, <2>3, <2>4 DEF Grows
<1>8. \A other \in After(job) : /\ other \in JobOf(Known) /\ GoodJob(other, nodes'[n].stored)
                                /\ other.blocks = job.blocks /\ other.fits = job.fits
  BY <1>2, <1>4, <1>5, AfterGood
<1> PICK jobs : jobs = (handling[w] \ {job}) \cup After(job)
  OBVIOUS
<1>9. handling' = [handling EXCEPT ![w] = jobs]
  BY <1>1 DEF GoesOn
<1>10. JobsInv' /\ \A v \in Way : handling'[v] = IF v = w THEN jobs ELSE handling[v]
  <2>1. MoveTo(w, jobs)
    BY <1>8, <1>9 DEF MoveTo
  <2> QED BY <1>7, <2>1, JobsMove
<1>11. WiresInv' /\ ReadingsInv'
  BY <1>1, <1>7, WiresStay, ReadingsStay
<1>12. SyncInv'
  BY <1>1, <1>6, <1>10, <1>11 DEF SyncInv
<1> QED BY <1>1, <1>2, <1>3, <1>4, <1>5, <1>7, <1>8, <1>10, <1>12

\* A link has two ends.
LEMMA WayBack ==
    ASSUME NEW w \in Way
    PROVE  <<w[2], w[1]>> \in Way /\ w # <<w[2], w[1]>>
<1> DEFINE n == w[1]
           m == w[2]
<1>1. n \in SyncNode /\ m \in SyncNode /\ w = <<n, m>> /\ {n, m} \in Links
  BY WayNodes
<1> HIDE DEF n, m
<1>2. {m, n} = {n, m}
  OBVIOUS
<1>3. <<m, n>> \in Way
  BY <1>1, <1>2 DEF Way
<1>4. n # m
  <2> SUFFICES ASSUME n = m
               PROVE  FALSE
    OBVIOUS
  <2>1. Cardinality({n}) = 2
    <3>1. {n, m} = {n}
      OBVIOUS
    <3> QED BY <1>1, <3>1, SyncAssumption
  <2>2. Cardinality({n}) = 1
    BY FS_Singleton
  <2> QED BY <2>1, <2>2
<1> QED BY <1>1, <1>3, <1>4 DEF n, m

\* A reading starts with the height that was asked for, and ends at the chain's at most.
LEMMA ReceiveGetBlocksKeeps ==
    ASSUME SyncInv, NEW w \in Way, ReceiveGetBlocks(w[1], w[2])
    PROVE  /\ SyncInv' /\ Grows /\ UNCHANGED <<nodes, up, handling, syncTrouble>>
           /\ wire[w] \in Seq(MessageOf(Known)) /\ wire[w] # <<>> /\ Head(wire[w]).kind = "get_blocks"
           /\ \A v \in Way : wire'[v] = IF v = w THEN Tail(wire[v]) ELSE wire[v]
           /\ \A v \in Way \ {w} : answering'[v] = answering[v]
           /\ \A reading \in answering'[w] :
                 /\ reading.next = Head(wire[w]).start /\ reading.last <= HeightOf(w[2])
                 /\ reading.blocks = <<>>
<1> DEFINE n == w[1]
           m == w[2]
<1> PICK start, end : start = Received(n, m).start /\ end = Received(n, m).end
  OBVIOUS
<1> DEFINE last == IF end > HeightOf(m) THEN HeightOf(m) ELSE end
           most == IF last - start > MaxBatch THEN start + MaxBatch ELSE last
           reading == [next |-> start, last |-> most, blocks |-> <<>>]
<1>1. /\ WiresInv /\ syncLeft.mined \in Nat /\ w = <<n, m>> /\ HeightOf(m) \in Nat
  BY WayNodes, KnownClosed DEF SyncInv, SyncBudgetType
<1>2. /\ Arrives(n, m, "get_blocks") /\ Take(n, m)
      /\ UNCHANGED <<nodes, up, told, handling, syncLeft, syncTrouble>>
      /\ answering' = [answering EXCEPT ![w] = {reading}]
  BY <1>1 DEF ReceiveGetBlocks
<1>3. /\ wire[w] \in Seq(MessageOf(Known)) /\ wire[w] # <<>> /\ Head(wire[w]).kind = "get_blocks"
      /\ start = Head(wire[w]).start /\ start \in Nat /\ end \in Int
  BY <1>1, <1>2, ArrivedMessage
<1>4. most \in Int /\ most <= HeightOf(m)
  <2> HIDE DEF m
  <2> QED BY <1>1, <1>3, SyncAssumption
<1> HIDE DEF most
<1>5. reading \in ReadingOf(Known)
  BY <1>3, <1>4 DEF ReadingOf
<1>6. NodesInv' /\ Known' = Known /\ Grows
  BY <1>1, <1>2, SameBlocks
<1>7. /\ wire' \in [Way -> Seq(MessageOf(Known))]
      /\ \A v \in Way : wire'[v] = IF v = w THEN Tail(wire[v]) ELSE wire[v]
  BY <1>1, <1>2, <1>3, TakenWires
<1>8. WiresInv' /\ JobsInv'
  BY <1>1, <1>2, <1>6, <1>7, JobsStay DEF WiresInv
<1>9. /\ ReadingsInv'
      /\ \A v \in Way : answering'[v] = IF v = w THEN {reading} ELSE answering[v]
  <2>1. {reading} \in SUBSET ReadingOf(Known)
    BY <1>5
  <2> HIDE DEF reading
  <2> QED BY <1>2, <1>6, <2>1, ReadingsMove
<1>10. SyncInv'
  BY <1>2, <1>6, <1>8, <1>9 DEF SyncInv
<1> QED BY <1>2, <1>3, <1>4, <1>6, <1>7, <1>9, <1>10

\* A reading that goes on: a block of the next height, or none when that is above the chain.
LEMMA ReadKeeps ==
    ASSUME SyncInv, NEW w \in Way, NEW answer \in answering[w], ReadBlock(w, answer)
    PROVE  /\ SyncInv' /\ Grows /\ UNCHANGED <<nodes, up, wire, handling, syncTrouble>>
           /\ \A v \in Way \ {w} : answering'[v] = answering[v]
           /\ \A reading \in answering'[w] :
                 /\ reading.next = answer.next + 1 /\ reading.last = answer.last
                 /\ answer.next <= answer.last
                 /\ \/ \E b \in nodes[w[2]].stored :
                          reading.blocks = Append(answer.blocks, b) /\ b.number = answer.next
                    \/ reading.blocks = answer.blocks /\ answer.next > HeightOf(w[2])
<1> DEFINE m == w[2]
<1>1. PICK blocks :
         /\ \/ \E b \in BlocksAt(m, answer.next) : blocks = Append(answer.blocks, b)
            \/ blocks = answer.blocks /\ answer.next > HeightOf(m)
         /\ answering' = [answering EXCEPT ![w] = {[answer EXCEPT !.next = @ + 1, !.blocks = blocks]}]
  BY DEF ReadBlock
<1>2. /\ answer.next <= answer.last
      /\ UNCHANGED <<nodes, up, wire, told, handling, syncLeft, syncTrouble>>
  BY DEF ReadBlock
<1>3. /\ m \in SyncNode /\ answer \in ReadingOf(Known) /\ syncLeft.mined \in Nat
      /\ nodes[m].stored \subseteq Known /\ nodes[m].tip \in nodes[m].stored
  BY WayNodes, KnownClosed DEF SyncInv, ReadingsInv, SyncBudgetType, NodesInv, GoodNode
<1>4. \A b \in BlocksAt(m, answer.next) : b \in nodes[m].stored /\ b.number = answer.next
  BY <1>3, PathWithin DEF BlocksAt
<1>5. blocks \in Seq(Known)
  <2>1. PICK read : read = answer.blocks /\ read \in Seq(Known)
    BY <1>3 DEF ReadingOf
  <2>2. \A b \in Known : Append(read, b) \in Seq(Known)
    BY <2>1
  <2>3. \A b \in BlocksAt(m, answer.next) : b \in Known
    BY <1>3, <1>4
  <2> QED BY <1>1, <2>1, <2>2, <2>3
<1> PICK k \in Nat : k = answer.next + 1
  BY <1>3 DEF ReadingOf
<1>6. PICK reading : reading = [answer EXCEPT !.next = k, !.blocks = blocks]
  OBVIOUS
<1>7. /\ reading \in ReadingOf(Known) /\ reading.next = answer.next + 1
      /\ reading.last = answer.last /\ reading.blocks = blocks
  BY <1>3, <1>5, <1>6 DEF ReadingOf
<1>8. NodesInv' /\ Known' = Known /\ Grows
  BY <1>2, <1>3, SameBlocks
<1>9. WiresInv' /\ JobsInv'
  BY <1>2, <1>8, WiresStay, JobsStay
<1>10. /\ ReadingsInv'
       /\ \A v \in Way : answering'[v] = IF v = w THEN {reading} ELSE answering[v]
  <2>1. {reading} \in SUBSET ReadingOf(Known) /\ answering' = [answering EXCEPT ![w] = {reading}]
    BY <1>1, <1>6, <1>7
  <2> QED BY <1>8, <2>1, ReadingsMove
<1>11. SyncInv'
  BY <1>2, <1>8, <1>9, <1>10 DEF SyncInv
<1>12. \/ \E b \in nodes[m].stored : blocks = Append(answer.blocks, b) /\ b.number = answer.next
       \/ blocks = answer.blocks /\ answer.next > HeightOf(m)
  BY <1>1, <1>4
<1>13. \A other \in answering'[w] : other = reading
  BY <1>10
<1> QED BY <1>2, <1>6, <1>7, <1>8, <1>10, <1>11, <1>12, <1>13

LEMMA AnswerKeeps ==
    ASSUME SyncInv, NEW w \in Way, NEW answer \in answering[w], SendAnswer(w, answer)
    PROVE  /\ SyncInv' /\ Grows /\ UNCHANGED <<nodes, up, handling, syncTrouble>>
           /\ answer.blocks \in Seq(Known)
           /\ LET message == [kind |-> "blocks", blocks |-> answer.blocks]
                  back == <<w[2], w[1]>>
              IN  /\ message \in MessageOf(Known)
                  /\ \A v \in Way : wire'[v] = IF v = back THEN Append(wire[v], message) ELSE wire[v]
           /\ \A v \in Way : answering'[v] \subseteq answering[v]
<1> DEFINE message == [kind |-> "blocks", blocks |-> answer.blocks]
           back == <<w[2], w[1]>>
<1>1. /\ Send(back, message) /\ answering' = [answering EXCEPT ![w] = {}]
      /\ UNCHANGED <<nodes, up, told, handling, syncLeft, syncTrouble>>
  BY DEF SendAnswer
<1>2. /\ back \in Way /\ answer.blocks \in Seq(Known) /\ syncLeft.mined \in Nat /\ WiresInv
  BY WayBack DEF SyncInv, ReadingsInv, ReadingOf, SyncBudgetType
<1>3. message \in MessageOf(Known)
  BY <1>2 DEF MessageOf
<1>4. NodesInv' /\ Known' = Known /\ Grows
  BY <1>1, <1>2, SameBlocks
<1> HIDE DEF message, back
<1>5. /\ wire' \in [Way -> Seq(MessageOf(Known))]
      /\ \A v \in Way : wire'[v] = IF v = back THEN Append(wire[v], message) ELSE wire[v]
  BY <1>1, <1>2, <1>3, SentWires
<1>6. WiresInv' /\ JobsInv'
  BY <1>1, <1>2, <1>4, <1>5, JobsStay DEF WiresInv
<1>7. /\ ReadingsInv'
      /\ \A v \in Way : answering'[v] = IF v = w THEN {} ELSE answering[v]
  BY <1>1, <1>4, ReadingsMove
<1>8. SyncInv'
  BY <1>1, <1>4, <1>6, <1>7 DEF SyncInv
<1> QED BY <1>1, <1>2, <1>3, <1>4, <1>5, <1>7, <1>8 DEF message, back

LEMMA SendVersionKeeps ==
    ASSUME SyncInv, NEW w \in Way, SendVersion(w[1], w[2])
    PROVE  /\ SyncInv' /\ Grows /\ UNCHANGED <<nodes, up, goroutines, syncTrouble>>
           /\ \E message \in MessageOf(Known) :
                 /\ message.kind = "version"
                 /\ \A v \in Way : wire'[v] = IF v = w THEN Append(wire[v], message) ELSE wire[v]
<1> DEFINE message == [kind |-> "version", height |-> HeightOf(w[1])]
<1>1. /\ w = <<w[1], w[2]>> /\ HeightOf(w[1]) \in Nat /\ syncLeft.mined \in Nat /\ WiresInv
  BY WayNodes, KnownClosed DEF SyncInv, SyncBudgetType
<1>2. Send(w, message) /\ UNCHANGED <<nodes, up, told, goroutines, syncLeft, syncTrouble>>
  BY <1>1 DEF SendVersion
<1>3. message \in MessageOf(Known) /\ message.kind = "version"
  BY <1>1 DEF MessageOf
<1>4. NodesInv' /\ Known' = Known /\ Grows
  BY <1>1, <1>2, SameBlocks
<1> HIDE DEF message
<1>5. /\ wire' \in [Way -> Seq(MessageOf(Known))]
      /\ \A v \in Way : wire'[v] = IF v = w THEN Append(wire[v], message) ELSE wire[v]
  BY <1>1, <1>2, <1>3, SentWires
<1>6. WiresInv' /\ JobsInv' /\ ReadingsInv'
  BY <1>1, <1>2, <1>4, <1>5, JobsStay, ReadingsStay DEF WiresInv, goroutines
<1> QED BY <1>2, <1>3, <1>4, <1>5, <1>6 DEF SyncInv

LEMMA ReceiveVersionKeeps ==
    ASSUME SyncInv, NEW w \in Way, ReceiveVersion(w[1], w[2])
    PROVE  /\ SyncInv' /\ Grows /\ UNCHANGED <<nodes, up, goroutines, syncTrouble>>
           /\ wire[w] \in Seq(MessageOf(Known)) /\ wire[w] # <<>> /\ Head(wire[w]).kind = "version"
           /\ \A v \in Way : wire'[v] = IF v = w THEN Tail(wire[v]) ELSE wire[v]
<1> DEFINE m == w[1]
           n == w[2]
<1>1. /\ <<n, m>> \in Way /\ WiresInv /\ told \in [Way -> Nat] /\ syncLeft.mined \in Nat
  BY WayBack DEF SyncInv, SyncBudgetType, WiresInv
<1>2. /\ Arrives(m, n, "version") /\ Take(m, n)
      /\ UNCHANGED <<nodes, up, goroutines, syncLeft, syncTrouble>>
      /\ told' = [told EXCEPT ![<<n, m>>] = Received(m, n).height]
  BY DEF ReceiveVersion
<1>3. /\ wire[w] \in Seq(MessageOf(Known)) /\ wire[w] # <<>> /\ Head(wire[w]).kind = "version"
      /\ Received(m, n).height \in Nat
  BY <1>1, <1>2, ArrivedMessage
<1>4. told' \in [Way -> Nat]
  BY <1>1, <1>2, <1>3
<1>5. NodesInv' /\ Known' = Known /\ Grows
  BY <1>1, <1>2, SameBlocks
<1>6. /\ wire' \in [Way -> Seq(MessageOf(Known))]
      /\ \A v \in Way : wire'[v] = IF v = w THEN Tail(wire[v]) ELSE wire[v]
  BY <1>1, <1>2, <1>3, TakenWires
<1>7. WiresInv' /\ JobsInv' /\ ReadingsInv'
  BY <1>2, <1>4, <1>5, <1>6, JobsStay, ReadingsStay DEF WiresInv, goroutines
<1> QED BY <1>2, <1>3, <1>5, <1>6, <1>7 DEF SyncInv

\* Messages are lost with a connection, blocks that have arrived are not.
LEMMA LinksKeep ==
    ASSUME SyncInv, NEW link \in Links, Disconnect(link) \/ Reconnect(link)
    PROVE  /\ SyncInv' /\ Grows /\ UNCHANGED nodes
           /\ \A w \in Way : /\ wire'[w] \in {wire[w], <<>>} /\ answering'[w] \subseteq answering[w]
                             /\ \A job \in handling'[w] : \E old \in handling[w] :
                                   job.blocks = old.blocks /\ job.fits = old.fits
           /\ Disconnect(link) => "break" \in syncTrouble' /\ Use("breaks")
           /\ Reconnect(link) => UNCHANGED <<wire, goroutines>>
<1> DEFINE M == MessageOf(Known)
<1>1. /\ syncLeft' \in SyncBudgetType /\ syncLeft'.mined <= syncLeft.mined /\ UNCHANGED nodes
      /\ syncLeft'.mined \in Nat /\ syncTrouble \subseteq syncTrouble'
      /\ Disconnect(link) => "break" \in syncTrouble' /\ Use("breaks")
  <2>1. syncLeft \in SyncBudgetType /\ syncLeft.mined \in Nat
    BY DEF SyncInv, SyncBudgetType
  <2>2. CASE Disconnect(link)
    BY <2>1, <2>2, UseType DEF Disconnect, Trouble, SyncBudgetType
  <2>3. CASE Reconnect(link)
    BY <2>1, <2>3 DEF Reconnect, Disconnect
  <2> QED BY <2>2, <2>3
<1>2. NodesInv' /\ Known' = Known /\ Grows
  BY <1>1, SameBlocks
<1>3. CASE Reconnect(link)
  <2>1. UNCHANGED <<wire, told, goroutines>>
    BY <1>3 DEF Reconnect
  <2>2. WiresInv' /\ JobsInv' /\ ReadingsInv'
    BY <1>2, <2>1, WiresStay, JobsStay, ReadingsStay DEF goroutines
  <2> QED BY <1>1, <1>2, <2>1, <2>2 DEF SyncInv, goroutines
<1>4. CASE Disconnect(link)
  <2> DEFINE Cut(w, job) == IF {w[1], w[2]} = link /\ job.cut = 0
                            THEN [job EXCEPT !.cut = syncLeft.breaks] ELSE job
  <2>1. /\ wire' = [w \in Way |-> IF {w[1], w[2]} = link THEN <<>> ELSE wire[w]]
        /\ told' = [w \in Way |-> IF {w[1], w[2]} = link THEN 0 ELSE told[w]]
        /\ answering' = [w \in Way |-> IF {w[1], w[2]} = link THEN {} ELSE answering[w]]
        /\ handling' = [w \in Way |-> {Cut(w, job) : job \in handling[w]}]
    BY <1>4 DEF Disconnect
  <2>2. /\ wire \in [Way -> Seq(M)] /\ told \in [Way -> Nat]
        /\ answering \in [Way -> SUBSET ReadingOf(Known)]
        /\ handling \in [Way -> SUBSET JobOf(Known)]
        /\ \A w \in Way : \A job \in handling[w] : GoodJob(job, nodes[w[2]].stored)
        /\ syncLeft.breaks \in Nat
    BY DEF SyncInv, WiresInv, JobsInv, ReadingsInv, SyncBudgetType
  <2>3. ASSUME NEW w \in Way, NEW job \in handling[w]
        PROVE  /\ Cut(w, job) \in JobOf(Known) /\ GoodJob(Cut(w, job), nodes[w[2]].stored)
               /\ Cut(w, job).blocks = job.blocks /\ Cut(w, job).fits = job.fits
    <3>1. PICK new : new = [job EXCEPT !.cut = syncLeft.breaks]
      OBVIOUS
    <3>2. /\ new \in JobOf(Known) /\ new.blocks = job.blocks /\ new.at = job.at
          /\ new.step = job.step /\ new.fits = job.fits /\ job \in JobOf(Known)
      <4>1. job \in JobOf(Known) /\ syncLeft.breaks \in Nat
        BY <2>2
      <4> QED BY <3>1, <4>1 DEF JobOf
    <3>3. GoodJob(new, nodes[w[2]].stored) /\ GoodJob(job, nodes[w[2]].stored)
      BY <2>2, <3>2 DEF GoodJob
    <3> QED BY <3>1, <3>2, <3>3
  <2> HIDE DEF M, Cut
  <2>4. /\ wire' \in [Way -> Seq(M)] /\ told' \in [Way -> Nat]
        /\ \A w \in Way : wire'[w] \in {wire[w], <<>>}
    <3>1. <<>> \in Seq(M)
      OBVIOUS
    <3> QED BY <2>1, <2>2, <3>1
  <2>5. ReadingsInv' /\ \A w \in Way : answering'[w] \subseteq answering[w]
    BY <1>2, <2>1, <2>2 DEF ReadingsInv
  <2>6. JobsInv'
    <3>1. \A w \in Way : \A job \in handling'[w] : job \in JobOf(Known) /\ GoodJob(job, nodes[w[2]].stored)
      BY <2>1, <2>3
    <3>2. handling' \in [Way -> SUBSET JobOf(Known)]
      BY <2>1, <3>1
    <3> QED BY <1>1, <1>2, <3>1, <3>2 DEF JobsInv
  <2>7. \A w \in Way : \A job \in handling'[w] : \E old \in handling[w] :
           job.blocks = old.blocks /\ job.fits = old.fits
    BY <2>1, <2>3
  <2>8. WiresInv'
    BY <1>2, <2>4 DEF WiresInv, M
  <2>9. ~Reconnect(link)
    BY <1>4 DEF Disconnect, Reconnect
  <2> QED BY <1>1, <1>2, <2>4, <2>5, <2>6, <2>7, <2>8, <2>9 DEF SyncInv
<1> QED BY <1>3, <1>4

-----------------------------------------------------------------------------
\* Nodes, wires and goroutines hold blocks in the form AddBlockV2 and the handlers take them
\* in: each node's blocks with their parents, its tip among them, and a reorganization that
\* is waiting for bc.mu leads to a block that is kept.
THEOREM SyncInvHolds == SyncSpec => []SyncInv
<1>1. SyncInit => SyncInv
  <2> SUFFICES ASSUME SyncInit
               PROVE  SyncInv
    OBVIOUS
  <2>1. syncLeft \in SyncBudgetType
    BY SyncAssumption DEF SyncInit, SyncBudgetType
  <2>2. /\ nodes = [n \in SyncNode |->
                      [stored |-> {Origin}, tip |-> Origin, outputs |-> {}, events |-> <<>>]]
        /\ wire = [w \in Way |-> <<>>] /\ told = [w \in Way |-> 0]
        /\ handling = [w \in Way |-> {}] /\ answering = [w \in Way |-> {}]
    BY DEF SyncInit
  <2>3. Known \subseteq {Origin} /\ \A n \in SyncNode : nodes[n].stored = {Origin}
    BY <2>2 DEF Known
  <2>4. \A n \in SyncNode : GoodNode(nodes[n], Known)
    <3> SUFFICES ASSUME NEW n \in SyncNode
                 PROVE  GoodNode(nodes[n], Known)
      OBVIOUS
    <3>1. Origin \in Known
      BY <2>3 DEF Known
    <3>2. <<>> \in Seq(Known) /\ {} \in SUBSET {b.id : b \in Known} /\ {Origin} \in SUBSET Known
      BY <3>1
    <3>3. nodes[n] = [stored |-> {Origin}, tip |-> Origin, outputs |-> {}, events |-> <<>>]
      BY <2>2
    <3>4. nodes[n] \in NodeState(Known)
      BY <3>1, <3>2, <3>3 DEF NodeState
    <3> QED BY <3>3, <3>4, OriginFields DEF GoodNode, Closed
  <2>5. NodesInv
    <3>1. Distinct(Known)
      BY <2>3, OriginFields DEF Distinct
    <3>2. \A b \in Known : b = Origin
      BY <2>3
    <3> QED BY <2>2, <2>4, <3>1, <3>2 DEF NodesInv
  <2>6. WiresInv
    <3>1. <<>> \in Seq(MessageOf(Known))
      OBVIOUS
    <3> QED BY <2>2, <3>1 DEF WiresInv
  <2>7. JobsInv /\ ReadingsInv
    BY <2>2 DEF JobsInv, ReadingsInv
  <2> QED BY <2>1, <2>5, <2>6, <2>7 DEF SyncInv
<1>2. SyncInv /\ [SyncNext]_syncVars => SyncInv'
  <2> SUFFICES ASSUME SyncInv, [SyncNext]_syncVars
               PROVE  SyncInv'
    OBVIOUS
  <2>1. CASE UNCHANGED syncVars
    BY <2>1 DEF syncVars, SyncInv, NodesInv, WiresInv, JobsInv, ReadingsInv, Known
  <2>2. ASSUME NEW n \in SyncNode, SetupP2PIntegration(n) \/ SubmitBlock(n) \/ BroadcastBlock(n)
        PROVE  SyncInv'
    BY <2>2, SetupKeeps, SubmitKeeps, BroadcastKeeps
  <2>3. ASSUME NEW w \in Way, RequestBlocks(w[1], w[2]) \/ IgnoreBlocks(w[1], w[2])
                              \/ ReceiveBlock(w[1], w[2]) \/ ReceiveAnswer(w[1], w[2])
        PROVE  SyncInv'
    BY <2>3, RequestKeeps, IgnoreKeeps, ReceiveKeeps
  <2>4. ASSUME NEW w \in Way, NEW job \in handling[w],
               AddNextBlock(w, job) \/ RefuseNextBlock(w, job) \/ ReorganizeChain(w, job)
        PROVE  SyncInv'
    BY <2>4, AddNextKeeps, RefuseKeeps, ReorganizeChainKeeps
  <2>5. ASSUME NEW w \in Way, NEW answer \in answering[w], ReadBlock(w, answer) \/ SendAnswer(w, answer)
        PROVE  SyncInv'
    BY <2>5, ReadKeeps, AnswerKeeps
  <2>6. ASSUME NEW w \in Way, ReceiveGetBlocks(w[1], w[2]) \/ SendVersion(w[1], w[2])
                              \/ ReceiveVersion(w[1], w[2])
        PROVE  SyncInv'
    BY <2>6, ReceiveGetBlocksKeeps, SendVersionKeeps, ReceiveVersionKeeps
  <2>7. ASSUME NEW link \in Links, Disconnect(link) \/ Reconnect(link)
        PROVE  SyncInv'
    BY <2>7, LinksKeep
  <2> QED BY <2>1, <2>2, <2>3, <2>4, <2>5, <2>6, <2>7 DEF SyncNext
<1> QED BY <1>1, <1>2, PTL DEF SyncSpec

\* AddBlockV2 refuses an orphan, whoever sends it and in whatever order.
THEOREM ChainsAreClosedHolds == SyncSpec => []ChainsAreClosed
<1>1. SyncInv => ChainsAreClosed
  BY DEF SyncInv, NodesInv, GoodNode, Closed, ChainsAreClosed
<1> QED BY <1>1, SyncInvHolds, PTL

-----------------------------------------------------------------------------
(* What is added without trouble reaches the neighbours. *)

\* A message under way that brings a block.
Coming(messages, b) == \E i \in DOMAIN messages : messages[i].kind = "block" /\ messages[i].block = b

\* What a node has, its neighbour has too, or it is to be announced, on its way, or to be
\* added.
Passed(w) ==
    \A b \in nodes[w[1]].stored \ {Origin} :
        \/ b \in nodes[w[2]].stored \/ b \in ToSet(nodes[w[1]].events)
        \/ Coming(wire[w], b) \/ Due(handling[w], b)

Adding == \A w \in Way : \A job \in handling[w] : job.step = "add"

Calm ==
    syncTrouble = {} =>
       up = Links /\ (\A n \in SyncNode : HasTop(nodes[n])) /\ (\A w \in Way : Passed(w)) /\ Adding

LEMMA ComingAfterAppend ==
    ASSUME NEW M, NEW messages \in Seq(M), NEW x \in M
    PROVE  /\ \A b : Coming(messages, b) => Coming(Append(messages, x), b)
           /\ x.kind = "block" => Coming(Append(messages, x), x.block)
<1> DEFINE more == Append(messages, x)
           len == Len(messages)
<1>1. /\ len \in Nat /\ DOMAIN messages = 1..len /\ DOMAIN more = 1..(len + 1)
      /\ more[len + 1] = x /\ \A i \in 1..len : more[i] = messages[i]
  OBVIOUS
<1> HIDE DEF more, len
<1>2. len + 1 \in DOMAIN more /\ \A i \in 1..len : i \in DOMAIN more
  BY <1>1
<1>3. \A b : Coming(messages, b) => Coming(more, b)
  BY <1>1, <1>2 DEF Coming
<1>4. x.kind = "block" => Coming(more, x.block)
  BY <1>1, <1>2 DEF Coming
<1> QED BY <1>3, <1>4 DEF more

LEMMA ComingAfterTake ==
    ASSUME NEW M, NEW messages \in Seq(M), messages # <<>>, NEW b, Coming(messages, b)
    PROVE  Coming(Tail(messages), b) \/ (Head(messages).kind = "block" /\ Head(messages).block = b)
<1> DEFINE less == Tail(messages)
<1>1. PICK i \in DOMAIN messages : messages[i].kind = "block" /\ messages[i].block = b
  BY DEF Coming
<1>2. CASE i = 1
  BY <1>1, <1>2
<1>3. CASE i # 1
  <2>1. i - 1 \in DOMAIN less /\ less[i - 1] = messages[i]
    BY <1>3
  <2> HIDE DEF less
  <2>2. Coming(less, b)
    BY <1>1, <2>1 DEF Coming
  <2> QED BY <2>2 DEF less
<1> QED BY <1>2, <1>3

\* A step in which nodes announce what is new, and what was on its way to a node is on its
\* way still or there.
LEMMA CalmKept ==
    ASSUME Calm, syncTrouble = {}, up' = Links, Adding',
           \A n \in SyncNode : Announced(nodes[n], nodes'[n]) /\ (HasTop(nodes[n]) => HasTop(nodes'[n])),
           \A w \in Way : \A b : Coming(wire[w], b) \/ Due(handling[w], b) =>
              Coming(wire'[w], b) \/ Due(handling'[w], b) \/ b \in nodes'[w[2]].stored
    PROVE  Calm'
<1>1. \A n \in SyncNode : HasTop(nodes[n])
  BY DEF Calm
<1>2. \A n \in SyncNode : HasTop(nodes'[n])
  BY <1>1
<1>3. \A w \in Way : Passed(w)'
  <2> SUFFICES ASSUME NEW w \in Way, NEW b \in nodes'[w[1]].stored \ {Origin}
               PROVE  \/ b \in nodes'[w[2]].stored \/ b \in ToSet(nodes'[w[1]].events)
                      \/ Coming(wire'[w], b) \/ Due(handling'[w], b)
    BY DEF Passed
  <2>1. Announced(nodes[w[1]], nodes'[w[1]]) /\ Announced(nodes[w[2]], nodes'[w[2]])
    BY WayNodes
  <2>2. CASE b \notin nodes[w[1]].stored
    BY <2>1, <2>2 DEF Announced
  <2>3. CASE b \in nodes[w[1]].stored
    <3>1. \/ b \in nodes[w[2]].stored \/ b \in ToSet(nodes[w[1]].events)
          \/ Coming(wire[w], b) \/ Due(handling[w], b)
      BY <2>3 DEF Calm, Passed
    <3> QED BY <2>1, <3>1 DEF Announced
  <2> QED BY <2>2, <2>3
<1>4. up' = Links /\ (\A n \in SyncNode : HasTop(nodes[n])') /\ (\A w \in Way : Passed(w)')
  BY <1>2, <1>3 DEF HasTop
<1> QED BY <1>4 DEF Calm

LEMMA SameAnnounced ==
    ASSUME UNCHANGED nodes
    PROVE  \A n \in SyncNode : Announced(nodes[n], nodes'[n]) /\ (HasTop(nodes[n]) => HasTop(nodes'[n]))
  BY DEF Announced

\* Steps that leave the nodes and what they add alone, and lose no block.
LEMMA CalmWires ==
    ASSUME SyncInv, Calm, UNCHANGED <<nodes, up, handling, syncTrouble>>,
           \A v \in Way : \/ wire'[v] = wire[v]
                          \/ \E x \in MessageOf(Known) : wire'[v] = Append(wire[v], x)
                          \/ wire[v] # <<>> /\ Head(wire[v]).kind # "block" /\ wire'[v] = Tail(wire[v])
    PROVE  Calm'
<1> DEFINE M == MessageOf(Known)
<1>1. CASE syncTrouble # {}
  BY <1>1 DEF Calm
<1>2. CASE syncTrouble = {}
  <2>1. wire \in [Way -> Seq(M)]
    BY DEF SyncInv, WiresInv
  <2> HIDE DEF M
  <2>2. \A v \in Way : \A b : Coming(wire[v], b) => Coming(wire'[v], b)
    <3> SUFFICES ASSUME NEW v \in Way, NEW b, Coming(wire[v], b)
                 PROVE  Coming(wire'[v], b)
      OBVIOUS
    <3>1. wire[v] \in Seq(M)
      BY <2>1
    <3>2. CASE \E x \in M : wire'[v] = Append(wire[v], x)
      BY <3>1, <3>2, ComingAfterAppend
    <3>3. CASE wire[v] # <<>> /\ Head(wire[v]).kind # "block" /\ wire'[v] = Tail(wire[v])
      BY <3>1, <3>3, ComingAfterTake
    <3> QED BY <3>2, <3>3 DEF M
  <2>3. up' = Links /\ Adding'
    BY <1>2 DEF Calm, Adding
  <2> QED BY <1>2, <2>2, <2>3, SameAnnounced, CalmKept
<1> QED BY <1>1, <1>2

\* A block that arrives is not lost: it is to be added then.
LEMMA CalmReceive ==
    ASSUME SyncInv, Calm, NEW w \in Way, ReceiveBlock(w[1], w[2]) \/ ReceiveAnswer(w[1], w[2])
    PROVE  Calm'
<1> DEFINE M == MessageOf(Known)
<1>1. /\ UNCHANGED <<nodes, up, syncTrouble>>
      /\ wire[w] \in Seq(M) /\ wire[w] # <<>>
      /\ \A v \in Way : wire'[v] = IF v = w THEN Tail(wire[v]) ELSE wire[v]
      /\ \A v \in Way : handling[v] \subseteq handling'[v] /\ (v # w => handling'[v] = handling[v])
      /\ Head(wire[w]).kind = "block" => Due(handling'[w], Head(wire[w]).block)
      /\ \A job \in handling'[w] \ handling[w] : job.step = "add"
  BY ReceiveKeeps
<1> HIDE DEF M
<1>2. CASE syncTrouble # {}
  BY <1>1, <1>2 DEF Calm
<1>3. CASE syncTrouble = {}
  <2>1. up' = Links /\ Adding'
    BY <1>1, <1>3 DEF Calm, Adding
  <2>2. \A v \in Way : \A b : Due(handling[v], b) => Due(handling'[v], b)
    BY <1>1 DEF Due
  <2>3. \A v \in Way : \A b : Coming(wire[v], b) => Coming(wire'[v], b) \/ Due(handling'[v], b)
    <3> SUFFICES ASSUME NEW v \in Way, NEW b, Coming(wire[v], b)
                 PROVE  Coming(wire'[v], b) \/ Due(handling'[v], b)
      OBVIOUS
    <3>1. CASE v # w
      BY <1>1, <3>1
    <3>2. CASE v = w
      <4>1. Coming(Tail(wire[w]), b) \/ (Head(wire[w]).kind = "block" /\ Head(wire[w]).block = b)
        BY <1>1, <3>2, ComingAfterTake
      <4> QED BY <1>1, <3>2, <4>1
    <3> QED BY <3>1, <3>2
  <2> QED BY <1>1, <1>3, <2>1, <2>2, <2>3, SameAnnounced, CalmKept
<1> QED BY <1>2, <1>3

\* The block that is added is there then, and the goroutine goes on with those after it.
LEMMA CalmAdd ==
    ASSUME SyncInv, Calm, NEW w \in Way, NEW job \in handling[w], AddNextBlock(w, job)
    PROVE  Calm'
<1> DEFINE n == w[2]
           b0 == job.blocks[job.at]
<1>1. /\ Grows /\ UNCHANGED <<up, wire>>
      /\ \A m \in SyncNode \ {n} : nodes'[m] = nodes[m]
      /\ \A v \in Way \ {w} : handling'[v] = handling[v]
      /\ syncTrouble' = {} => /\ b0 \in nodes'[n].stored
                              /\ Announced(nodes[n], nodes'[n])
                              /\ HasTop(nodes[n]) => HasTop(nodes'[n])
                              /\ handling'[w] = (handling[w] \ {job}) \cup After(job)
  BY AddNextKeeps
<1>2. job \in JobOf(Known) /\ GoodJob(job, nodes[n].stored)
  BY DEF SyncInv, JobsInv
<1>3. CASE syncTrouble' # {}
  BY <1>3 DEF Calm
<1>4. CASE syncTrouble' = {}
  <2>1. syncTrouble = {} /\ up' = Links /\ Adding
    BY <1>1, <1>4 DEF Calm, Grows
  <2>2. Adding'
    <3>1. \A next \in After(job) : next.step = "add"
      BY <1>2, AfterGood
    <3> QED BY <1>1, <1>4, <2>1, <3>1 DEF Adding
  <2>3. \A m \in SyncNode : Announced(nodes[m], nodes'[m]) /\ (HasTop(nodes[m]) => HasTop(nodes'[m]))
    BY <1>1, <1>4 DEF Announced
  <2>4. \A b : Due(handling[w], b) => Due(handling'[w], b) \/ b \in nodes'[n].stored
    <3> SUFFICES ASSUME NEW b, Due(handling[w], b), b # b0
                 PROVE  Due(handling'[w], b)
      BY <1>1, <1>4
    <3> PICK other \in handling[w] : \E i \in other.at..Len(other.blocks) : other.blocks[i] = b
      BY DEF Due
    <3>1. PICK i \in other.at..Len(other.blocks) : other.blocks[i] = b
      OBVIOUS
    <3>2. CASE other # job
      <4>1. other \in handling'[w]
        BY <1>1, <1>4, <3>2
      <4> QED BY <3>1, <4>1 DEF Due
    <3>3. CASE other = job
      <4>1. job.at \in Nat /\ Len(job.blocks) \in Nat
        BY <1>2 DEF JobOf
      <4>2. i \in (job.at + 1)..Len(job.blocks) /\ job.at < Len(job.blocks)
        BY <3>1, <3>3, <4>1
      <4>3. PICK next \in After(job) : next.blocks = job.blocks /\ next.at = job.at + 1
        BY <1>2, <4>2, AfterGood
      <4>4. next \in handling'[w]
        BY <1>1, <1>4
      <4>5. i \in next.at..Len(next.blocks) /\ next.blocks[i] = b
        BY <3>1, <3>3, <4>2, <4>3
      <4> QED BY <4>4, <4>5 DEF Due
    <3> QED BY <3>2, <3>3
  <2> QED BY <1>1, <2>1, <2>2, <2>3, <2>4, CalmKept
<1> QED BY <1>3, <1>4

LEMMA CalmSubmit ==
    ASSUME SyncInv, Calm, NEW n \in SyncNode, SubmitBlock(n)
    PROVE  Calm'
<1>1. /\ Grows /\ UNCHANGED <<up, wire, handling>>
      /\ \A m \in SyncNode \ {n} : nodes'[m] = nodes[m]
      /\ syncTrouble' = {} => /\ Announced(nodes[n], nodes'[n])
                              /\ HasTop(nodes[n]) => HasTop(nodes'[n])
  BY SubmitKeeps DEF goroutines
<1>2. CASE syncTrouble' # {}
  BY <1>2 DEF Calm
<1>3. CASE syncTrouble' = {}
  <2>1. syncTrouble = {} /\ up' = Links /\ Adding'
    BY <1>1, <1>3 DEF Calm, Grows, Adding
  <2>2. \A m \in SyncNode : Announced(nodes[m], nodes'[m]) /\ (HasTop(nodes[m]) => HasTop(nodes'[m]))
    BY <1>1, <1>3 DEF Announced
  <2> QED BY <1>1, <2>1, <2>2, CalmKept
<1> QED BY <1>2, <1>3

\* What is taken from the channel goes to every neighbour, since all links are up.
LEMMA CalmBroadcast ==
    ASSUME SyncInv, Calm, NEW n \in SyncNode, BroadcastBlock(n)
    PROVE  Calm'
<1> DEFINE M == MessageOf(Known)
<1> PICK b0, message : b0 = Head(nodes[n].events) /\ message = [kind |-> "block", block |-> b0]
  OBVIOUS
<1>1. /\ UNCHANGED <<up, handling, syncTrouble>>
      /\ \A m \in SyncNode : /\ nodes'[m].stored = nodes[m].stored /\ nodes'[m].tip = nodes[m].tip
                             /\ m # n => nodes'[m] = nodes[m]
      /\ nodes[n].events \in Seq(Known) /\ nodes[n].events # <<>>
      /\ nodes'[n].events = Tail(nodes[n].events)
      /\ \A w \in Way : wire'[w] = IF w[1] = n /\ {n, w[2]} \in up THEN Append(wire[w], message)
                                   ELSE wire[w]
  BY BroadcastKeeps DEF goroutines
<1>2. wire \in [Way -> Seq(M)] /\ message \in M /\ message.kind = "block" /\ message.block = b0
  <2>1. b0 \in Known
    BY <1>1
  <2> QED BY <2>1 DEF SyncInv, WiresInv, MessageOf
<1>3. ToSet(nodes[n].events) \subseteq ToSet(nodes'[n].events) \cup {b0}
  <2>1. PICK events \in Seq(Known) : events = nodes[n].events /\ events # <<>>
    BY <1>1
  <2>2. \A i \in DOMAIN events : events[i] = Head(events) \/ \E j \in DOMAIN Tail(events) : Tail(events)[j] = events[i]
    <3> SUFFICES ASSUME NEW i \in DOMAIN events, i # 1
                 PROVE  \E j \in DOMAIN Tail(events) : Tail(events)[j] = events[i]
      OBVIOUS
    <3>1. i - 1 \in DOMAIN Tail(events) /\ Tail(events)[i - 1] = events[i]
      OBVIOUS
    <3> QED BY <3>1
  <2>3. ToSet(events) \subseteq ToSet(Tail(events)) \cup {Head(events)}
    BY <2>2 DEF ToSet
  <2> QED BY <1>1, <2>1, <2>3
<1>4. CASE syncTrouble # {}
  BY <1>1, <1>4 DEF Calm
<1>5. CASE syncTrouble = {}
  <2>1. up = Links /\ (\A m \in SyncNode : HasTop(nodes[m])) /\ (\A w \in Way : Passed(w)) /\ Adding
    BY <1>5 DEF Calm
  <2>2. (\A m \in SyncNode : HasTop(nodes'[m])) /\ Adding'
    BY <1>1, <2>1 DEF HasTop, Adding
  <2> HIDE DEF M
  <2>3. \A w \in Way : Passed(w)'
    <3> SUFFICES ASSUME NEW w \in Way, NEW b \in nodes'[w[1]].stored \ {Origin}
                 PROVE  \/ b \in nodes'[w[2]].stored \/ b \in ToSet(nodes'[w[1]].events)
                        \/ Coming(wire'[w], b) \/ Due(handling'[w], b)
      BY DEF Passed
    <3>1. w[1] \in SyncNode /\ w[2] \in SyncNode /\ {w[1], w[2]} \in up
      BY <2>1, WayNodes
    <3>2. \/ b \in nodes[w[2]].stored \/ b \in ToSet(nodes[w[1]].events)
          \/ Coming(wire[w], b) \/ Due(handling[w], b)
      BY <1>1, <2>1, <3>1 DEF Passed
    <3>3. wire[w] \in Seq(M)
      BY <1>2
    <3>4. CASE w[1] = n
      <4>1. wire'[w] = Append(wire[w], message)
        BY <1>1, <3>1, <3>4
      <4>2. (Coming(wire[w], b) => Coming(wire'[w], b)) /\ Coming(wire'[w], b0)
        BY <1>2, <3>3, <4>1, ComingAfterAppend
      <4> QED BY <1>1, <1>3, <3>1, <3>2, <3>4, <4>2
    <3>5. CASE w[1] # n
      BY <1>1, <3>1, <3>2, <3>5
    <3> QED BY <3>4, <3>5
  <2>4. up' = Links /\ (\A m \in SyncNode : HasTop(nodes[m])') /\ (\A w \in Way : Passed(w)') /\ Adding'
    BY <1>1, <2>1, <2>2, <2>3 DEF HasTop
  <2> QED BY <2>4 DEF Calm
<1> QED BY <1>4, <1>5

\* From every set of nodes that is not all of them a link leads out.
Connected ==
    \A some \in SUBSET SyncNode :
        some # {} /\ some # SyncNode => \E w \in Way : w[1] \in some /\ w[2] \notin some

\* While nothing keeps a block from its way, a node's neighbours have what it has, or it
\* is in the node's channel, under way to them or to be added there.
THEOREM CalmHolds == SyncSpec => []Calm
<1>1. SyncInit => Calm
  <2> SUFFICES ASSUME SyncInit
               PROVE  Calm
    OBVIOUS
  <2>1. /\ up = Links /\ \A n \in SyncNode : nodes[n].stored = {Origin} /\ nodes[n].tip = Origin
        /\ \A w \in Way : handling[w] = {}
    BY DEF SyncInit
  <2>2. \A n \in SyncNode : HasTop(nodes[n])
    BY <2>1, OriginFields DEF HasTop
  <2>3. \A w \in Way : Passed(w)
    BY <2>1, WayNodes DEF Passed
  <2> QED BY <2>1, <2>2, <2>3 DEF Calm, Adding
<1>2. SyncInv /\ Calm /\ [SyncNext]_syncVars => Calm'
  <2> SUFFICES ASSUME SyncInv, Calm, [SyncNext]_syncVars
               PROVE  Calm'
    OBVIOUS
  <2>1. CASE UNCHANGED syncVars
    BY <2>1 DEF syncVars, Calm, Passed, HasTop, Adding
  <2>2. ASSUME NEW n \in SyncNode, SetupP2PIntegration(n)
        PROVE  Calm'
    BY <2>2 DEF SetupP2PIntegration, goroutines, Calm, Passed, HasTop, Adding
  <2>3. ASSUME NEW n \in SyncNode, SubmitBlock(n) \/ BroadcastBlock(n)
        PROVE  Calm'
    BY <2>3, CalmSubmit, CalmBroadcast
  <2>4. ASSUME NEW w \in Way, RequestBlocks(w[1], w[2])
        PROVE  Calm'
    <3>1. /\ UNCHANGED <<nodes, up, handling, syncTrouble>>
          /\ \A v \in Way : wire'[v] = wire[v] \/ \E x \in MessageOf(Known) : wire'[v] = Append(wire[v], x)
      BY <2>4, RequestKeeps DEF goroutines
    <3> QED BY <3>1, CalmWires
  <2>5. ASSUME NEW w \in Way, IgnoreBlocks(w[1], w[2])
        PROVE  Calm'
    BY <2>5 DEF IgnoreBlocks, Trouble, Calm
  <2>6. ASSUME NEW w \in Way, ReceiveBlock(w[1], w[2]) \/ ReceiveAnswer(w[1], w[2])
        PROVE  Calm'
    BY <2>6, CalmReceive
  <2>7. ASSUME NEW w \in Way, NEW job \in handling[w], AddNextBlock(w, job)
        PROVE  Calm'
    BY <2>7, CalmAdd
  <2>8. ASSUME NEW w \in Way, NEW job \in handling[w], RefuseNextBlock(w, job)
        PROVE  Calm'
    BY <2>8 DEF RefuseNextBlock, Trouble, Calm
  <2>9. ASSUME NEW w \in Way, NEW job \in handling[w], ReorganizeChain(w, job)
        PROVE  Calm'
    <3>1. job.step = "reorganize" /\ Grows
      BY <2>9, ReorganizeChainKeeps
    <3>2. syncTrouble # {}
      BY <3>1 DEF Calm, Adding
    <3> QED BY <3>1, <3>2 DEF Calm, Grows
  <2>10. ASSUME NEW w \in Way, ReceiveGetBlocks(w[1], w[2])
         PROVE  Calm'
    <3>1. /\ UNCHANGED <<nodes, up, handling, syncTrouble>> /\ wire[w] # <<>>
          /\ Head(wire[w]).kind # "block"
          /\ \A v \in Way : wire'[v] = IF v = w THEN Tail(wire[v]) ELSE wire[v]
      BY <2>10, ReceiveGetBlocksKeeps
    <3> QED BY <3>1, CalmWires
  <2>11. ASSUME NEW w \in Way, NEW answer \in answering[w], ReadBlock(w, answer)
         PROVE  Calm'
    <3>1. UNCHANGED <<nodes, up, wire, handling, syncTrouble>>
      BY <2>11, ReadKeeps
    <3> QED BY <3>1, CalmWires
  <2>12. ASSUME NEW w \in Way, NEW answer \in answering[w], SendAnswer(w, answer)
         PROVE  Calm'
    <3>1. /\ UNCHANGED <<nodes, up, handling, syncTrouble>>
          /\ \A v \in Way : wire'[v] = wire[v] \/ \E x \in MessageOf(Known) : wire'[v] = Append(wire[v], x)
      BY <2>12, AnswerKeeps
    <3> QED BY <3>1, CalmWires
  <2>13. ASSUME NEW w \in Way, SendVersion(w[1], w[2])
         PROVE  Calm'
    <3>1. /\ UNCHANGED <<nodes, up, handling, syncTrouble>>
          /\ \A v \in Way : wire'[v] = wire[v] \/ \E x \in MessageOf(Known) : wire'[v] = Append(wire[v], x)
      BY <2>13, SendVersionKeeps DEF goroutines
    <3> QED BY <3>1, CalmWires
  <2>14. ASSUME NEW w \in Way, ReceiveVersion(w[1], w[2])
         PROVE  Calm'
    <3>1. /\ UNCHANGED <<nodes, up, handling, syncTrouble>> /\ wire[w] # <<>>
          /\ Head(wire[w]).kind # "block"
          /\ \A v \in Way : wire'[v] = IF v = w THEN Tail(wire[v]) ELSE wire[v]
      BY <2>14, ReceiveVersionKeeps DEF goroutines
    <3> QED BY <3>1, CalmWires
  <2>15. ASSUME NEW link \in Links, Disconnect(link)
         PROVE  Calm'
    BY <2>15 DEF Disconnect, Trouble, Calm
  <2>16. ASSUME NEW link \in Links, Reconnect(link)
         PROVE  Calm'
    <3>1. link \notin up /\ UNCHANGED syncTrouble
      BY <2>16 DEF Reconnect
    <3> QED BY <3>1 DEF Calm
  <2> QED BY <2>1, <2>2, <2>3, <2>4, <2>5, <2>6, <2>7, <2>8, <2>9, <2>10, <2>11, <2>12, <2>13,
             <2>14, <2>15, <2>16 DEF SyncNext
<1> QED BY <1>1, <1>2, SyncInvHolds, PTL DEF SyncSpec

LEMMA NeighboursAgree ==
    ASSUME SyncInv, Calm, Quiet, syncTrouble = {}, NEW w \in Way
    PROVE  nodes[w[1]].tip = nodes[w[2]].tip
<1> DEFINE Has(v) == nodes[v[1]].stored \subseteq nodes[v[2]].stored
<1>1. \A v \in Way : Has(v)
  <2> SUFFICES ASSUME NEW v \in Way, NEW b \in nodes[v[1]].stored
               PROVE  b \in nodes[v[2]].stored
    OBVIOUS
  <2>1. v[1] \in SyncNode /\ v[2] \in SyncNode
    BY WayNodes
  <2>2. CASE b = Origin
    BY <2>1, <2>2 DEF SyncInv, NodesInv, GoodNode, Closed
  <2>3. CASE b # Origin
    <3>1. /\ nodes[v[1]].events = <<>> /\ \A i \in DOMAIN wire[v] : wire[v][i].kind # "block"
          /\ handling[v] = {}
      BY <2>1 DEF Quiet
    <3>2. b \notin ToSet(nodes[v[1]].events) /\ ~Coming(wire[v], b) /\ ~Due(handling[v], b)
      BY <3>1 DEF ToSet, Coming, Due
    <3> QED BY <2>3, <3>2 DEF Calm, Passed
  <2> QED BY <2>2, <2>3
<1> DEFINE n == w[1]
           m == w[2]
<1>2. n \in SyncNode /\ m \in SyncNode /\ <<m, n>> \in Way
  BY WayNodes, WayBack
<1>3. nodes[n].stored \subseteq nodes[m].stored /\ nodes[m].stored \subseteq nodes[n].stored
  <2>1. Has(w) /\ Has(<<m, n>>)
    BY <1>1, <1>2
  <2> QED BY <2>1
<1> HIDE DEF n, m
<1>4. /\ HasTop(nodes[n]) /\ HasTop(nodes[m])
      /\ nodes[n].tip \in nodes[n].stored /\ nodes[m].tip \in nodes[m].stored
      /\ nodes[n].tip.number \in Nat /\ nodes[m].tip.number \in Nat
  BY <1>2, KnownClosed DEF Calm, SyncInv, NodesInv, GoodNode, HeightOf
<1>5. nodes[n].tip.number = nodes[m].tip.number
  BY <1>3, <1>4 DEF HasTop
<1>6. nodes[n].tip = nodes[m].tip
  BY <1>3, <1>4, <1>5 DEF HasTop
<1> QED BY <1>6 DEF n, m

\* Gossip alone brings all nodes to one chain, on any connected graph of nodes.
THEOREM QuietNodesAgreeHolds ==
    ASSUME Connected
    PROVE  SyncSpec => []QuietNodesAgree
<1>1. SyncInv /\ Calm => QuietNodesAgree
  <2> SUFFICES ASSUME SyncInv, Calm, Quiet, syncTrouble = {}, NEW n \in SyncNode, NEW m \in SyncNode
               PROVE  nodes[n].tip = nodes[m].tip
    BY DEF QuietNodesAgree
  <2> DEFINE some == {k \in SyncNode : nodes[k].tip = nodes[n].tip}
  <2>1. \A w \in Way : w[1] \in some => w[2] \in some
    BY WayNodes, NeighboursAgree
  <2>2. some \in SUBSET SyncNode /\ n \in some
    OBVIOUS
  <2>3. some = SyncNode
    <3> HIDE DEF some
    <3> QED BY <2>1, <2>2 DEF Connected
  <2> QED BY <2>3
<1> QED BY <1>1, SyncInvHolds, CalmHolds, PTL

-----------------------------------------------------------------------------
(* Answers. *)

LEMMA ParentBelow ==
    ASSUME NEW blocks, Distinct(blocks), Closed(blocks), NEW x \in blocks, NEW c \in blocks, c.id = x.parent
    PROVE  x # Origin /\ c.number = x.number - 1
<1>1. x # Origin
  BY OriginFields DEF Distinct
<1> QED BY <1>1, ClosedParent

LEMMA PathLeast ==
    ASSUME NEW blocks, NEW t \in blocks, NEW set \in SUBSET blocks, t \in set,
           \A x \in set : {c \in blocks : c.id = x.parent} \subseteq set
    PROVE  PathTo(blocks, t) \subseteq set
<1>1. blocks \cup {t} = blocks
  OBVIOUS
<1> QED BY <1>1 DEF PathTo

\* A branch has one block of each height.
LEMMA PathUnique ==
    ASSUME NEW blocks, Distinct(blocks), Closed(blocks), NEW t \in blocks,
           NEW x \in PathTo(blocks, t), NEW y \in PathTo(blocks, t), x.number = y.number
    PROVE  x = y
<1> DEFINE P == PathTo(blocks, t)
<1>1. P \subseteq blocks /\ t \in P
  BY PathWithin
<1>2. \A a, c \in blocks : c.id = a.parent => c.number = a.number - 1 /\ c.number \in Nat /\ a.number \in Nat
  BY ParentBelow DEF Distinct
<1>3. \A a \in P, c \in blocks : c.id = a.parent => c \in P
  BY PathHasParents
<1>4. \A a \in P : a = t \/ a.number < t.number
  <2> DEFINE set == {a \in P : a = t \/ a.number < t.number}
  <2>1. t \in set /\ set \in SUBSET blocks
    BY <1>1
  <2>2. \A a \in set : {c \in blocks : c.id = a.parent} \subseteq set
    <3> SUFFICES ASSUME NEW a \in set, NEW c \in blocks, c.id = a.parent
                 PROVE  c \in set
      OBVIOUS
    <3>1. a \in P /\ a \in blocks /\ c \in P /\ t.number \in Nat
      BY <1>1, <1>3 DEF Distinct
    <3>2. c.number = a.number - 1 /\ c.number \in Nat /\ a.number \in Nat
      BY <1>2, <3>1
    <3>3. c.number < t.number
      BY <3>1, <3>2
    <3> HIDE DEF P
    <3> QED BY <3>1, <3>3
  <2> HIDE DEF set
  <2>3. P \subseteq set
    BY <2>1, <2>2, PathLeast
  <2> QED BY <2>3 DEF set
<1>5. ASSUME NEW a \in P, a # t
      PROVE  \E z \in P : z.parent = a.id
  <2> SUFFICES ASSUME \A z \in P : z.parent # a.id
               PROVE  FALSE
    OBVIOUS
  <2> DEFINE set == P \ {a}
  <2>1. t \in set /\ set \in SUBSET blocks
    BY <1>1, <1>5
  <2>2. \A z \in set : {c \in blocks : c.id = z.parent} \subseteq set
    BY <1>3
  <2> HIDE DEF set
  <2>3. P \subseteq set
    BY <2>1, <2>2, PathLeast
  <2> QED BY <1>5, <2>3 DEF set
<1>6. \A a \in P : \A c \in P : c.number = a.number => c = a
  <2> DEFINE set == {a \in P : \A c \in P : c.number = a.number => c = a}
  <2> HIDE DEF P
  <2>1. t \in set
    BY <1>1, <1>4 DEF Distinct
  <2>2. set \in SUBSET blocks
    BY <1>1
  <2>3. \A a \in set : {c \in blocks : c.id = a.parent} \subseteq set
    <3> SUFFICES ASSUME NEW a \in set, NEW b \in blocks, b.id = a.parent, NEW c \in P, c.number = b.number
                 PROVE  c = b
      BY <1>3
    <3>1. a \in P /\ b.number = a.number - 1 /\ a.number \in Nat /\ b.number \in Nat /\ t.number \in Nat
      BY <1>1, <1>2 DEF Distinct
    <3>2. c # t
      BY <1>4, <3>1
    <3>3. PICK z \in P : z.parent = c.id
      BY <1>5, <3>2
    <3>4. c.number = z.number - 1 /\ z.number \in Nat
      BY <1>1, <1>2, <3>3
    <3>5. z = a
      BY <3>1, <3>4
    <3> QED BY <1>1, <3>3, <3>5 DEF Distinct
  <2>4. P \subseteq set
    <3> HIDE DEF set
    <3> QED BY <2>1, <2>2, <2>3, PathLeast DEF P
  <2> QED BY <2>4
<1> QED BY <1>6

LEMMA PathParent ==
    ASSUME NEW blocks, Distinct(blocks), Closed(blocks), NEW t \in blocks,
           NEW x \in PathTo(blocks, t), NEW y \in PathTo(blocks, t), y.number = x.number - 1
    PROVE  y.id = x.parent
<1>1. x \in blocks /\ y \in blocks
  BY PathWithin
<1>2. x # Origin
  <2>1. y.number \in Nat
    BY <1>1 DEF Distinct
  <2> QED BY <2>1, OriginFields
<1>3. PICK c \in blocks : c.id = x.parent /\ c.number = x.number - 1
  BY <1>1, <1>2 DEF Closed
<1>4. c \in PathTo(blocks, t)
  BY <1>3, PathHasParents
<1> QED BY <1>3, <1>4, PathUnique

\* What is on a branch below one of its blocks is on the branch of that block.
LEMMA PathBelow ==
    ASSUME NEW blocks, Distinct(blocks), Closed(blocks), NEW t \in blocks,
           NEW y \in PathTo(blocks, t), NEW x \in PathTo(blocks, t), x.number <= y.number
    PROVE  x \in PathTo(blocks, y)
<1>1. x \in blocks /\ y \in blocks /\ x.number \in Nat /\ y.number \in Nat
  BY PathWithin DEF Distinct
<1>2. PathTo(blocks, y) \subseteq PathTo(blocks, t)
  <2> DEFINE set == PathTo(blocks, t)
  <2>1. set \in SUBSET blocks /\ y \in set
    BY PathWithin
  <2>2. ASSUME NEW a \in set, NEW c \in blocks, c.id = a.parent
        PROVE  c \in set
    BY <2>2, PathHasParents
  <2> HIDE DEF set
  <2>3. PathTo(blocks, y) \subseteq set
    BY <1>1, <2>1, <2>2, PathLeast
  <2> QED BY <2>3 DEF set
<1>3. PICK z \in PathTo(blocks, y) : z.number = x.number
  <2>1. x.number \in 0..y.number
    BY <1>1
  <2> QED BY <1>1, <2>1, PathReaches
<1> QED BY <1>2, <1>3, PathUnique

\* Whoever has a block has its branch.
LEMMA PathShared ==
    ASSUME NEW known, Distinct(known), NEW mine \in SUBSET known, Closed(mine),
           NEW theirs \in SUBSET known, Closed(theirs), NEW t \in mine, t \in theirs
    PROVE  PathTo(theirs, t) \subseteq mine
<1> DEFINE set == mine \cap theirs
<1>1. t \in set /\ set \in SUBSET theirs
  OBVIOUS
<1>2. \A x \in set : {c \in theirs : c.id = x.parent} \subseteq set
  <2> SUFFICES ASSUME NEW x \in set, NEW c \in theirs, c.id = x.parent
               PROVE  c \in mine
    OBVIOUS
  <2>1. Distinct(theirs)
    BY DEF Distinct
  <2>2. x # Origin
    BY <2>1, ParentBelow
  <2>3. PICK d \in mine : d.id = x.parent
    BY <2>2 DEF Closed
  <2>4. d = c
    BY <2>3 DEF Distinct
  <2> QED BY <2>3, <2>4
<1> HIDE DEF set
<1>3. PathTo(theirs, t) \subseteq set
  BY <1>1, <1>2, PathLeast
<1> QED BY <1>3 DEF set

\* An answer that fits is a branch of its sender.
LEMMA AnswerOnPath ==
    ASSUME NEW theirs, NEW blocks \in Seq(theirs), blocks # <<>>,
           \A i \in DOMAIN blocks : i > 1 => blocks[i].parent = blocks[i - 1].id
    PROVE  \A i \in DOMAIN blocks : blocks[i] \in PathTo(theirs, Last(blocks))
<1> DEFINE m == Len(blocks)
           P == PathTo(theirs, Last(blocks))
           T == {j \in 0..(m - 1) : blocks[m - j] \in P}
<1>1. m \in Nat /\ m > 0 /\ m - 1 \in Nat /\ DOMAIN blocks = 1..m /\ \A i \in 1..m : blocks[i] \in theirs
  OBVIOUS
<1>2. blocks[m] \in P
  BY PathWithin DEF Last
<1>3. \A x \in P, c \in theirs : c.id = x.parent => c \in P
  BY PathHasParents
<1> HIDE DEF m, P
<1>4. 0 \in T
  <2>1. m - 0 = m /\ 0 \in 0..(m - 1)
    BY <1>1
  <2> QED BY <1>2, <2>1
<1>5. \A j \in 0..(m - 1) : j \in T /\ j < m - 1 => j + 1 \in T
  <2> SUFFICES ASSUME NEW j \in 0..(m - 1), j \in T, j < m - 1
               PROVE  j + 1 \in T
    OBVIOUS
  <2>1. /\ m - j \in 1..m /\ m - j > 1 /\ (m - j) - 1 = m - (j + 1) /\ (m - j) - 1 \in 1..m
        /\ j + 1 \in 0..(m - 1)
    BY <1>1
  <2>2. blocks[m - j].parent = blocks[(m - j) - 1].id
    BY <1>1, <2>1
  <2>3. blocks[(m - j) - 1] \in P
    BY <1>1, <1>3, <2>1, <2>2
  <2> QED BY <2>1, <2>3
<1>6. \A j \in 0..(m - 1) : j \in T
  <2>1. PICK k : k = m - 1
    OBVIOUS
  <2>2. k \in Nat /\ 0 \in T /\ \A j \in 0..k : j \in T /\ j < k => j + 1 \in T
    BY <1>1, <1>4, <1>5, <2>1
  <2> HIDE DEF T
  <2>3. \A j \in 0..k : j \in T
    BY <2>2, UpTo, Zenon
  <2> QED BY <2>1, <2>3
<1>7. \A i \in 1..m : blocks[i] \in P
  <2> SUFFICES ASSUME NEW i \in 1..m
               PROVE  blocks[i] \in P
    OBVIOUS
  <2>1. m - i \in 0..(m - 1) /\ m - (m - i) = i
    BY <1>1
  <2>2. m - i \in T
    BY <1>6, <2>1
  <2> QED BY <2>1, <2>2
<1> QED BY <1>1, <1>7 DEF P

\* The first block of such a branch is there, or follows one that is, when the node's tip is
\* on it and not more than one below its first block.
LEMMA AnswerStarts ==
    ASSUME NEW known, Distinct(known), NEW mine \in SUBSET known, Closed(mine),
           NEW theirs \in SUBSET known, Closed(theirs), NEW tip \in mine,
           NEW blocks \in Seq(theirs), OneBranch(blocks), tip \in PathTo(theirs, Last(blocks)),
           blocks[1].number <= tip.number + 1
    PROVE  blocks[1] \in mine \/ \E c \in mine : c.id = blocks[1].parent
<1>1. /\ blocks # <<>> /\ \A i \in DOMAIN blocks : i > 1 => blocks[i].parent = blocks[i - 1].id
      /\ 1 \in DOMAIN blocks /\ Len(blocks) \in DOMAIN blocks
  BY DEF OneBranch
<1> PICK u \in theirs : u = Last(blocks)
  BY <1>1 DEF Last
<1> PICK b \in theirs : b = blocks[1]
  BY <1>1
<1>2. b \in PathTo(theirs, u) /\ tip \in PathTo(theirs, u)
  BY <1>1, AnswerOnPath
<1>3. tip \in theirs /\ Distinct(theirs)
  BY <1>2, PathWithin DEF Distinct
<1>4. b.number \in Nat /\ tip.number \in Nat
  BY <1>3 DEF Distinct
<1>5. CASE b.number <= tip.number
  <2>1. b \in PathTo(theirs, tip)
    BY <1>2, <1>3, <1>5, PathBelow
  <2> QED BY <1>3, <2>1, PathShared
<1>6. CASE b.number > tip.number
  <2>1. tip.number = b.number - 1
    BY <1>4, <1>6
  <2> QED BY <1>2, <1>3, <2>1, PathParent
<1> QED BY <1>4, <1>5, <1>6

\* A request starts with the first block its sender lacks, or lower when that has grown
\* since.  An answer that is read and sent starts with what was asked for, and has only
\* blocks of its sender.  A goroutine can start to add what fits.
MessageFits(message, w) ==
    /\ message.kind = "get_blocks" => message.start <= nodes[w[1]].tip.number + 1
    /\ message.kind = "blocks" =>
          /\ message.blocks \in Seq(nodes[w[1]].stored)
          /\ message.blocks # <<>> => message.blocks[1].number <= nodes[w[2]].tip.number + 1

ReadingFits(answer, w) ==
    /\ answer.last <= nodes[w[2]].tip.number
    /\ answer.blocks \in Seq(nodes[w[2]].stored)
    /\ answer.blocks = <<>> => answer.next <= nodes[w[1]].tip.number + 1
    /\ answer.blocks # <<>> => answer.blocks[1].number <= nodes[w[1]].tip.number + 1

JobFits(job, w) ==
    job.fits => \/ job.blocks[1] \in nodes[w[2]].stored
                \/ \E c \in nodes[w[2]].stored : c.id = job.blocks[1].parent

AnswersFit ==
    "back" \notin syncTrouble =>
       \A w \in Way : /\ \A message \in ToSet(wire[w]) : MessageFits(message, w)
                      /\ \A answer \in answering[w] : ReadingFits(answer, w)
                      /\ \A job \in handling[w] : JobFits(job, w)

LEMMA ToSetOfTail ==
    ASSUME NEW M, NEW s \in Seq(M), s # <<>>
    PROVE  ToSet(Tail(s)) \subseteq ToSet(s) /\ Head(s) \in ToSet(s)
<1> DEFINE less == Tail(s)
<1>1. \A i \in DOMAIN less : i + 1 \in DOMAIN s /\ less[i] = s[i + 1]
  OBVIOUS
<1>2. 1 \in DOMAIN s /\ Head(s) = s[1]
  OBVIOUS
<1> HIDE DEF less
<1>3. ToSet(less) \subseteq ToSet(s)
  BY <1>1 DEF ToSet
<1> QED BY <1>2, <1>3 DEF ToSet, less

\* What fits goes on fitting when nodes have more blocks and higher tips.
LEMMA FitsKept ==
    ASSUME SyncInv, SyncInv', Grows, "back" \notin syncTrouble', NEW w \in Way
    PROVE  /\ \A message \in MessageOf(Known) : MessageFits(message, w) => MessageFits(message, w)'
           /\ \A answer \in ReadingOf(Known) : ReadingFits(answer, w) => ReadingFits(answer, w)'
           /\ \A job : JobFits(job, w) => JobFits(job, w)'
<1> DEFINE n == w[1]
           m == w[2]
<1>1. n \in SyncNode /\ m \in SyncNode
  BY WayNodes
<1>2. /\ \A k \in SyncNode : /\ nodes[k].stored \subseteq nodes'[k].stored
                             /\ nodes'[k].tip.number >= nodes[k].tip.number
                             /\ nodes[k].tip.number \in Nat /\ nodes'[k].tip.number \in Nat
                             /\ Seq(nodes[k].stored) \subseteq Seq(nodes'[k].stored)
  <2>1. \A k \in SyncNode : nodes[k].tip.number \in Nat
    BY KnownClosed DEF SyncInv, HeightOf
  <2>2. \A k \in SyncNode : nodes'[k].tip.number \in Nat
    BY DEF SyncInv, NodesInv, GoodNode, NodeState, Distinct
  <2> QED BY <2>1, <2>2 DEF Grows
<1>3. \A b \in Known : b.number \in Nat
  BY DEF SyncInv, NodesInv, Distinct
<1>4. \A s \in Seq(Known) : s # <<>> => s[1] \in Known
  OBVIOUS
<1> HIDE DEF n, m
<1>5. ASSUME NEW x \in Int, NEW k \in SyncNode, x <= nodes[k].tip.number + 1
      PROVE  x <= nodes'[k].tip.number + 1
  BY <1>2, <1>5
<1>6. ASSUME NEW message \in MessageOf(Known), MessageFits(message, w)
      PROVE  MessageFits(message, w)'
  <2>1. /\ message.kind = "get_blocks" => message.start \in Int
        /\ message.kind = "blocks" => message.blocks \in Seq(Known)
    BY DEF MessageOf
  <2>2. message.kind = "blocks" /\ message.blocks # <<>> => message.blocks[1].number \in Int
    BY <1>3, <1>4, <2>1
  <2> QED BY <1>1, <1>2, <1>5, <1>6, <2>1, <2>2 DEF MessageFits, n, m
<1>7. ASSUME NEW answer \in ReadingOf(Known), ReadingFits(answer, w)
      PROVE  ReadingFits(answer, w)'
  <2>1. answer.next \in Int /\ answer.last \in Int /\ answer.blocks \in Seq(Known)
    BY DEF ReadingOf
  <2>2. answer.blocks # <<>> => answer.blocks[1].number \in Int
    BY <1>3, <1>4, <2>1
  <2>3. answer.last <= nodes[m].tip.number => answer.last <= nodes'[m].tip.number
    BY <1>1, <1>2, <2>1
  <2> QED BY <1>1, <1>2, <1>5, <1>7, <2>1, <2>2, <2>3 DEF ReadingFits, n, m
<1>8. \A job : JobFits(job, w) => JobFits(job, w)'
  BY <1>1, <1>2 DEF JobFits, m
<1> QED BY <1>6, <1>7, <1>8

\* What fits a node after a step.
FitsNext(w) ==
    /\ \A message \in ToSet(wire'[w]) : message \in ToSet(wire[w]) \/ MessageFits(message, w)'
    /\ \A answer \in answering'[w] : answer \in answering[w] \/ ReadingFits(answer, w)'
    /\ \A job \in handling'[w] : \/ job \in handling[w] \/ JobFits(job, w)'
                                 \/ \E old \in handling[w] : job.blocks = old.blocks /\ job.fits = old.fits

LEMMA FitStep ==
    ASSUME SyncInv, SyncInv', Grows, AnswersFit,
           "back" \notin syncTrouble' => \A w \in Way : FitsNext(w)
    PROVE  AnswersFit'
<1> SUFFICES ASSUME "back" \notin syncTrouble', NEW w \in Way
             PROVE  /\ \A message \in ToSet(wire'[w]) : MessageFits(message, w)'
                    /\ \A answer \in answering'[w] : ReadingFits(answer, w)'
                    /\ \A job \in handling'[w] : JobFits(job, w)'
  BY DEF AnswersFit
<1>1. "back" \notin syncTrouble
  BY DEF Grows
<1>2. /\ \A message \in ToSet(wire[w]) : MessageFits(message, w) /\ message \in MessageOf(Known)
      /\ \A answer \in answering[w] : ReadingFits(answer, w) /\ answer \in ReadingOf(Known)
      /\ \A job \in handling[w] : JobFits(job, w)
  <2>1. wire[w] \in Seq(MessageOf(Known)) /\ answering[w] \subseteq ReadingOf(Known)
    BY DEF SyncInv, WiresInv, ReadingsInv
  <2> QED BY <1>1, <2>1, ToSetOfSeq DEF AnswersFit
<1>3. /\ \A message \in ToSet(wire[w]) : MessageFits(message, w)'
      /\ \A answer \in answering[w] : ReadingFits(answer, w)'
      /\ \A job \in handling[w] : JobFits(job, w)'
  BY <1>2, FitsKept
<1>4. FitsNext(w)
  OBVIOUS
<1>5. ASSUME NEW job, NEW old, JobFits(old, w)', job.blocks = old.blocks, job.fits = old.fits
      PROVE  JobFits(job, w)'
  BY <1>5 DEF JobFits
<1> QED BY <1>3, <1>4, <1>5 DEF FitsNext

\* A message is sent or taken.
LEMMA FitsSent ==
    ASSUME SyncInv, NEW w \in Way, NEW x \in MessageOf(Known), wire'[w] = Append(wire[w], x),
           MessageFits(x, w)'
    PROVE  \A message \in ToSet(wire'[w]) : message \in ToSet(wire[w]) \/ MessageFits(message, w)'
<1>1. wire[w] \in Seq(MessageOf(Known))
  BY DEF SyncInv, WiresInv
<1>2. ToSet(Append(wire[w], x)) = ToSet(wire[w]) \cup {x}
  BY <1>1, ToSetOfAppend
<1> QED BY <1>2

LEMMA FitsTaken ==
    ASSUME SyncInv, NEW w \in Way, wire[w] # <<>>, wire'[w] = Tail(wire[w])
    PROVE  \A message \in ToSet(wire'[w]) : message \in ToSet(wire[w])
<1>1. wire[w] \in Seq(MessageOf(Known))
  BY DEF SyncInv, WiresInv
<1> QED BY <1>1, ToSetOfTail

LEMMA ReceiveFits ==
    ASSUME SyncInv, SyncInv', AnswersFit, NEW w \in Way,
           ReceiveBlock(w[1], w[2]) \/ ReceiveAnswer(w[1], w[2])
    PROVE  AnswersFit'
<1> DEFINE theirs == nodes[w[1]].stored
           mine == nodes[w[2]].stored
           tip == nodes[w[2]].tip
<1> PICK head : head = Head(wire[w])
  OBVIOUS
<1>1. /\ Grows /\ UNCHANGED <<nodes, answering, syncTrouble>>
      /\ wire[w] \in Seq(MessageOf(Known)) /\ wire[w] # <<>>
      /\ \A v \in Way : wire'[v] = IF v = w THEN Tail(wire[v]) ELSE wire[v]
      /\ \A v \in Way : v # w => handling'[v] = handling[v]
      /\ \A job \in handling'[w] \ handling[w] :
            job.fits => /\ head.kind = "blocks" /\ job.blocks = head.blocks
                        /\ job.blocks \in Seq(Known) /\ OneBranch(job.blocks)
                        /\ tip \in PathTo(theirs, Last(job.blocks))
  BY ReceiveKeeps
<1>2. head \in ToSet(wire[w])
  BY <1>1, ToSetOfTail
<1>3. /\ Distinct(Known) /\ mine \in SUBSET Known /\ theirs \in SUBSET Known
      /\ Closed(mine) /\ Closed(theirs) /\ tip \in mine
  BY WayNodes, KnownClosed DEF SyncInv, NodesInv, GoodNode
<1>4. "back" \notin syncTrouble' => \A job \in handling'[w] \ handling[w] : JobFits(job, w)'
  <2> SUFFICES ASSUME "back" \notin syncTrouble, NEW job \in handling'[w] \ handling[w], job.fits
               PROVE  job.blocks[1] \in mine \/ \E c \in mine : c.id = job.blocks[1].parent
    BY <1>1 DEF JobFits
  <2>1. MessageFits(head, w) /\ head.kind = "blocks"
    BY <1>1, <1>2 DEF AnswersFit
  <2>2. /\ job.blocks \in Seq(theirs) /\ OneBranch(job.blocks) /\ job.blocks # <<>>
        /\ tip \in PathTo(theirs, Last(job.blocks))
        /\ job.blocks[1].number <= tip.number + 1
    BY <1>1, <2>1 DEF MessageFits, OneBranch
  <2> HIDE DEF theirs, mine, tip
  <2> QED BY <1>3, <2>2, AnswerStarts
<1>5. "back" \notin syncTrouble' => \A v \in Way : FitsNext(v)
  <2> SUFFICES ASSUME "back" \notin syncTrouble', NEW v \in Way
               PROVE  FitsNext(v)
    OBVIOUS
  <2>1. \A message \in ToSet(wire'[v]) : message \in ToSet(wire[v])
    BY <1>1, FitsTaken
  <2>2. \A job \in handling'[v] : job \in handling[v] \/ JobFits(job, v)'
    BY <1>1, <1>4
  <2> QED BY <1>1, <2>1, <2>2 DEF FitsNext
<1> QED BY <1>1, <1>5, FitStep

LEMMA ReadFits ==
    ASSUME SyncInv, SyncInv', AnswersFit, NEW w \in Way, NEW answer \in answering[w],
           ReadBlock(w, answer)
    PROVE  AnswersFit'
<1> DEFINE theirs == nodes[w[2]].stored
<1>1. /\ Grows /\ UNCHANGED <<nodes, wire, handling, syncTrouble>>
      /\ \A v \in Way \ {w} : answering'[v] = answering[v]
      /\ \A reading \in answering'[w] :
            /\ reading.next = answer.next + 1 /\ reading.last = answer.last
            /\ answer.next <= answer.last
            /\ \/ \E b \in theirs :
                     reading.blocks = Append(answer.blocks, b) /\ b.number = answer.next
               \/ reading.blocks = answer.blocks /\ answer.next > nodes[w[2]].tip.number
  BY ReadKeeps DEF HeightOf
<1>2. /\ answer.next \in Nat /\ answer.last \in Int /\ answer.blocks \in Seq(Known)
      /\ nodes[w[2]].tip.number \in Nat
  <2>1. answer \in ReadingOf(Known)
    BY DEF SyncInv, ReadingsInv
  <2>2. HeightOf(w[2]) \in Nat
    <3>1. w[2] \in SyncNode
      BY WayNodes
    <3> QED BY <3>1, KnownClosed DEF SyncInv
  <2>3. answer.next \in Nat /\ answer.last \in Int /\ answer.blocks \in Seq(Known)
    <3> HIDE DEF Known
    <3> QED BY <2>1 DEF ReadingOf
  <2> QED BY <2>2, <2>3 DEF HeightOf
<1>3. "back" \notin syncTrouble' => \A reading \in answering'[w] : ReadingFits(reading, w)'
  <2> SUFFICES ASSUME "back" \notin syncTrouble, NEW reading \in answering'[w]
               PROVE  ReadingFits(reading, w)
    BY <1>1 DEF ReadingFits
  <2>1. ReadingFits(answer, w)
    BY DEF AnswersFit
  <2>2. PICK b \in theirs : reading.blocks = Append(answer.blocks, b) /\ b.number = answer.next
    <3>1. ~(answer.next > nodes[w[2]].tip.number)
      BY <1>1, <1>2, <2>1 DEF ReadingFits
    <3> QED BY <1>1, <3>1
  <2>3. PICK old \in Seq(theirs) : old = answer.blocks
    BY <2>1 DEF ReadingFits
  <2> HIDE DEF theirs
  <2>4. /\ reading.blocks \in Seq(theirs) /\ reading.blocks # <<>>
        /\ reading.blocks[1] = IF old = <<>> THEN b ELSE old[1]
    BY <2>2, <2>3
  <2>5. reading.blocks[1].number <= nodes[w[1]].tip.number + 1
    <3>1. CASE old = <<>>
      BY <2>1, <2>2, <2>3, <2>4, <3>1 DEF ReadingFits
    <3>2. CASE old # <<>>
      BY <2>1, <2>3, <2>4, <3>2 DEF ReadingFits
    <3> QED BY <3>1, <3>2
  <2> QED BY <1>1, <2>1, <2>4, <2>5 DEF ReadingFits, theirs
<1>4. \A v \in Way : "back" \notin syncTrouble' => FitsNext(v)
  BY <1>1, <1>3 DEF FitsNext
<1> QED BY <1>1, <1>4, FitStep

\* Requests and answers fit the nodes at their ends, while they are sent, read and taken in.
THEOREM AnswersFitHolds == SyncSpec => []AnswersFit
<1>1. SyncInit => AnswersFit
  BY DEF SyncInit, AnswersFit, ToSet
<1>2. SyncInv /\ SyncInv' /\ AnswersFit /\ [SyncNext]_syncVars => AnswersFit'
  <2> SUFFICES ASSUME SyncInv, SyncInv', AnswersFit, [SyncNext]_syncVars
               PROVE  AnswersFit'
    OBVIOUS
  <2>1. CASE UNCHANGED syncVars
    BY <2>1 DEF syncVars, AnswersFit, MessageFits, ReadingFits, JobFits
  <2>2. ASSUME NEW n \in SyncNode, SetupP2PIntegration(n) \/ SubmitBlock(n)
        PROVE  AnswersFit'
    <3>1. Grows /\ UNCHANGED <<wire, handling, answering>>
      BY <2>2, SetupKeeps, SubmitKeeps DEF SetupP2PIntegration, goroutines
    <3>2. \A v \in Way : FitsNext(v)
      BY <3>1 DEF FitsNext
    <3> QED BY <3>1, <3>2, FitStep
  <2>3. ASSUME NEW n \in SyncNode, BroadcastBlock(n)
        PROVE  AnswersFit'
    <3> PICK message : message = [kind |-> "block", block |-> Head(nodes[n].events)]
      OBVIOUS
    <3>1. /\ Grows /\ UNCHANGED <<handling, answering>>
          /\ nodes[n].events \in Seq(Known) /\ nodes[n].events # <<>>
          /\ \A w \in Way : wire'[w] = IF w[1] = n /\ {n, w[2]} \in up THEN Append(wire[w], message)
                                       ELSE wire[w]
      BY <2>3, BroadcastKeeps DEF goroutines
    <3>2. message \in MessageOf(Known) /\ message.kind = "block"
      <4>1. Head(nodes[n].events) \in Known
        BY <3>1
      <4> QED BY <4>1 DEF MessageOf
    <3>3. \A w \in Way : MessageFits(message, w)'
      BY <3>2 DEF MessageFits
    <3>4. \A w \in Way : FitsNext(w)
      <4> SUFFICES ASSUME NEW w \in Way
                   PROVE  FitsNext(w)
        OBVIOUS
      <4>1. \A x \in ToSet(wire'[w]) : x \in ToSet(wire[w]) \/ MessageFits(x, w)'
        <5>1. CASE wire'[w] = wire[w]
          BY <5>1
        <5>2. CASE wire'[w] = Append(wire[w], message)
          BY <3>2, <3>3, <5>2, FitsSent
        <5> QED BY <3>1, <5>1, <5>2
      <4> QED BY <3>1, <4>1 DEF FitsNext
    <3> QED BY <3>1, <3>4, FitStep
  <2>4. ASSUME NEW w \in Way, RequestBlocks(w[1], w[2])
        PROVE  AnswersFit'
    <3>1. PICK x \in MessageOf(Known) :
             /\ x.kind = "get_blocks" /\ x.start = HeightOf(w[1]) + 1
             /\ \A v \in Way : wire'[v] = IF v = w THEN Append(wire[v], x) ELSE wire[v]
      BY <2>4, RequestKeeps
    <3>2. Grows /\ UNCHANGED <<nodes, handling, answering>>
      BY <2>4, RequestKeeps DEF goroutines
    <3>3. MessageFits(x, w)'
      <4>1. HeightOf(w[1]) \in Nat
        BY WayNodes, KnownClosed DEF SyncInv
      <4> QED BY <3>1, <3>2, <4>1 DEF MessageFits, HeightOf
    <3>4. \A v \in Way : FitsNext(v)
      BY <3>1, <3>2, <3>3, FitsSent DEF FitsNext
    <3> QED BY <3>2, <3>4, FitStep
  <2>5. ASSUME NEW w \in Way, IgnoreBlocks(w[1], w[2]) \/ ReceiveVersion(w[1], w[2])
        PROVE  AnswersFit'
    <3>1. /\ Grows /\ UNCHANGED <<handling, answering>> /\ wire[w] # <<>>
          /\ \A v \in Way : wire'[v] = IF v = w THEN Tail(wire[v]) ELSE wire[v]
      BY <2>5, IgnoreKeeps, ReceiveVersionKeeps DEF goroutines
    <3>2. \A v \in Way : FitsNext(v)
      BY <3>1, FitsTaken DEF FitsNext
    <3> QED BY <3>1, <3>2, FitStep
  <2>6. ASSUME NEW w \in Way, ReceiveBlock(w[1], w[2]) \/ ReceiveAnswer(w[1], w[2])
        PROVE  AnswersFit'
    BY <2>6, ReceiveFits
  <2>7. ASSUME NEW w \in Way, NEW job \in handling[w],
               AddNextBlock(w, job) \/ RefuseNextBlock(w, job) \/ ReorganizeChain(w, job)
        PROVE  AnswersFit'
    <3>1. /\ Grows /\ UNCHANGED <<wire, answering>>
          /\ \A v \in Way \ {w} : handling'[v] = handling[v]
          /\ \A other \in handling'[w] \ handling[w] : other.blocks = job.blocks /\ other.fits = job.fits
      BY <2>7, AddNextKeeps, RefuseKeeps, ReorganizeChainKeeps
    <3>2. \A v \in Way : FitsNext(v)
      BY <3>1 DEF FitsNext
    <3> QED BY <3>1, <3>2, FitStep
  <2>8. ASSUME NEW w \in Way, ReceiveGetBlocks(w[1], w[2])
        PROVE  AnswersFit'
    <3> PICK head : head = Head(wire[w])
      OBVIOUS
    <3>1. /\ Grows /\ UNCHANGED <<nodes, handling, syncTrouble>>
          /\ wire[w] \in Seq(MessageOf(Known)) /\ wire[w] # <<>> /\ head.kind = "get_blocks"
          /\ \A v \in Way : wire'[v] = IF v = w THEN Tail(wire[v]) ELSE wire[v]
          /\ \A v \in Way \ {w} : answering'[v] = answering[v]
          /\ \A reading \in answering'[w] :
                /\ reading.next = head.start /\ reading.last <= HeightOf(w[2])
                /\ reading.blocks = <<>>
      BY <2>8, ReceiveGetBlocksKeeps
    <3>2. "back" \notin syncTrouble => MessageFits(head, w)
      BY <3>1, ToSetOfTail DEF AnswersFit
    <3>3. "back" \notin syncTrouble' => \A reading \in answering'[w] : ReadingFits(reading, w)'
      <4>1. <<>> \in Seq(nodes'[w[2]].stored)
        OBVIOUS
      <4> QED BY <3>1, <3>2, <4>1 DEF ReadingFits, MessageFits, HeightOf
    <3>4. \A v \in Way : "back" \notin syncTrouble' => FitsNext(v)
      BY <3>1, <3>3, FitsTaken DEF FitsNext
    <3> QED BY <3>1, <3>4, FitStep
  <2>9. ASSUME NEW w \in Way, NEW answer \in answering[w], ReadBlock(w, answer)
        PROVE  AnswersFit'
    BY <2>9, ReadFits
  <2>10. ASSUME NEW w \in Way, NEW answer \in answering[w], SendAnswer(w, answer)
         PROVE  AnswersFit'
    <3> PICK x, back : x = [kind |-> "blocks", blocks |-> answer.blocks] /\ back = <<w[2], w[1]>>
      OBVIOUS
    <3>1. /\ Grows /\ UNCHANGED <<nodes, handling, syncTrouble>> /\ x \in MessageOf(Known)
          /\ \A v \in Way : wire'[v] = IF v = back THEN Append(wire[v], x) ELSE wire[v]
          /\ \A v \in Way : answering'[v] \subseteq answering[v]
      BY <2>10, AnswerKeeps
    <3>2. "back" \notin syncTrouble' => MessageFits(x, back)'
      <4>1. back[1] = w[2] /\ back[2] = w[1] /\ x.kind = "blocks" /\ x.blocks = answer.blocks
        OBVIOUS
      <4>2. "back" \notin syncTrouble' => ReadingFits(answer, w)
        BY <3>1 DEF AnswersFit
      <4> QED BY <3>1, <4>1, <4>2 DEF MessageFits, ReadingFits
    <3>3. \A v \in Way : "back" \notin syncTrouble' => FitsNext(v)
      BY <3>1, <3>2, FitsSent DEF FitsNext
    <3> QED BY <3>1, <3>3, FitStep
  <2>11. ASSUME NEW w \in Way, SendVersion(w[1], w[2])
         PROVE  AnswersFit'
    <3>1. PICK x \in MessageOf(Known) :
             /\ x.kind = "version"
             /\ \A v \in Way : wire'[v] = IF v = w THEN Append(wire[v], x) ELSE wire[v]
      BY <2>11, SendVersionKeeps
    <3>2. Grows /\ UNCHANGED <<handling, answering>> /\ MessageFits(x, w)'
      BY <2>11, <3>1, SendVersionKeeps DEF goroutines, MessageFits
    <3>3. \A v \in Way : FitsNext(v)
      BY <3>1, <3>2, FitsSent DEF FitsNext
    <3> QED BY <3>2, <3>3, FitStep
  <2>12. ASSUME NEW link \in Links, Disconnect(link) \/ Reconnect(link)
         PROVE  AnswersFit'
    <3>1. /\ Grows
          /\ \A w \in Way : /\ wire'[w] \in {wire[w], <<>>} /\ answering'[w] \subseteq answering[w]
                            /\ \A job \in handling'[w] : \E old \in handling[w] :
                                  job.blocks = old.blocks /\ job.fits = old.fits
      BY <2>12, LinksKeep
    <3>2. ToSet(<<>>) = {}
      BY DEF ToSet
    <3>3. \A w \in Way : FitsNext(w)
      BY <3>1, <3>2 DEF FitsNext
    <3> QED BY <3>1, <3>3, FitStep
  <2> QED BY <2>1, <2>2, <2>3, <2>4, <2>5, <2>6, <2>7, <2>8, <2>9, <2>10, <2>11, <2>12 DEF SyncNext
<1> QED BY <1>1, <1>2, SyncInvHolds, PTL DEF SyncSpec

\* An answer leaves no gap: it starts not above the block after the tip, though the tip may
\* have moved since the request, and each of its blocks follows the one before it, whatever
\* other goroutines add in between.
THEOREM AnswersCloseGapsHolds == SyncSpec => AnswersCloseGaps
<1>1. SyncInv /\ AnswersFit /\ [SyncNext]_syncVars =>
      [\A w \in Way : \A job \in handling[w] :
          LET node == nodes[w[2]]
              b == job.blocks[job.at]
          IN  /\ job.fits /\ "back" \notin syncTrouble
              /\ \A i \in 1..(job.at - 1) : job.blocks[i] \in node.stored
              /\ handling'[w] = (handling[w] \ {job}) \cup After(job) /\ syncLeft' = syncLeft
              => \/ b \in nodes'[w[2]].stored
                 \/ b.number = node.tip.number /\ b.parent # node.tip.parent]_syncVars
  <2> SUFFICES ASSUME SyncInv, AnswersFit, [SyncNext]_syncVars, NEW w \in Way, NEW job \in handling[w],
                      NEW b, b = job.blocks[job.at],
                      job.fits, "back" \notin syncTrouble,
                      \A i \in 1..(job.at - 1) : job.blocks[i] \in nodes[w[2]].stored,
                      handling'[w] = (handling[w] \ {job}) \cup After(job), syncLeft' = syncLeft
               PROVE  \/ b \in nodes'[w[2]].stored
                      \/ b.number = nodes[w[2]].tip.number /\ b.parent # nodes[w[2]].tip.parent
    OBVIOUS
  <2>1. job \in JobOf(Known) /\ GoodJob(job, nodes[w[2]].stored)
    BY DEF SyncInv, JobsInv
  <2>2. job \notin handling'[w]
    BY <2>1, AfterGood
  <2>3. \A what \in {"mined", "breaks", "refusals", "requests"} : ~Use(what)
    BY DEF Use, SyncInv, SyncBudgetType
  <2>4. b \in nodes[w[2]].stored \/ \E c \in nodes[w[2]].stored : c.id = b.parent
    <3>1. job.blocks \in Seq(Known) /\ job.at \in DOMAIN job.blocks /\ OneBranch(job.blocks)
      BY <2>1 DEF GoodJob, JobOf
    <3>2. JobFits(job, w)
      BY DEF AnswersFit
    <3>3. CASE job.at = 1
      BY <3>2, <3>3 DEF JobFits
    <3>4. CASE job.at # 1
      <4>1. job.at \in 2..Len(job.blocks) /\ job.at - 1 \in 1..(job.at - 1)
        BY <3>1, <3>4
      <4>2. b.parent = job.blocks[job.at - 1].id
        BY <3>1, <4>1 DEF OneBranch
      <4> QED BY <4>1, <4>2
    <3> QED BY <3>3, <3>4
  <2>5. ~(UNCHANGED handling)
    BY <2>2
  <2>6. ASSUME NEW n \in SyncNode
        PROVE  ~SetupP2PIntegration(n) /\ ~SubmitBlock(n) /\ ~BroadcastBlock(n)
    BY <2>5 DEF SetupP2PIntegration, SubmitBlock, BroadcastBlock, goroutines
  <2>7. ASSUME NEW v \in Way
        PROVE  ~RequestBlocks(v[1], v[2]) /\ ~IgnoreBlocks(v[1], v[2]) /\ ~ReceiveGetBlocks(v[1], v[2])
               /\ ~SendVersion(v[1], v[2]) /\ ~ReceiveVersion(v[1], v[2])
    BY <2>5 DEF RequestBlocks, IgnoreBlocks, ReceiveGetBlocks, SendVersion, ReceiveVersion, goroutines
  <2>8. ASSUME NEW v \in Way
        PROVE  ~ReceiveBlock(v[1], v[2]) /\ ~ReceiveAnswer(v[1], v[2])
    BY <2>2, ReceiveKeeps
  <2>9. ASSUME NEW v \in Way, NEW answer \in answering[v]
        PROVE  ~ReadBlock(v, answer) /\ ~SendAnswer(v, answer)
    BY <2>5 DEF ReadBlock, SendAnswer
  <2>10. ASSUME NEW link \in Links
         PROVE  ~Disconnect(link) /\ ~Reconnect(link)
    BY <2>3, <2>5 DEF Disconnect, Reconnect, goroutines
  <2>11. ASSUME NEW v \in Way, NEW other \in handling[v]
         PROVE  ~RefuseNextBlock(v, other)
    BY <2>3 DEF RefuseNextBlock
  <2>12. ~(UNCHANGED syncVars)
    BY <2>5 DEF syncVars
  <2>13. PICK v \in Way : \E other \in handling[v] : AddNextBlock(v, other) \/ ReorganizeChain(v, other)
    BY <2>6, <2>7, <2>8, <2>9, <2>10, <2>11, <2>12 DEF SyncNext
  <2>14. AddNextBlock(w, job) \/ ReorganizeChain(w, job)
    <3> PICK other \in handling[v] : AddNextBlock(v, other) \/ ReorganizeChain(v, other)
      BY <2>13
    <3>1. v = w /\ other = job
      BY <2>2, AddNextKeeps, ReorganizeChainKeeps
    <3> QED BY <3>1
  <2>15. CASE ReorganizeChain(w, job)
    BY <2>15, ReorganizeChainKeeps
  <2>16. CASE AddNextBlock(w, job)
    <3>1. /\ nodes[w[2]].stored \subseteq nodes'[w[2]].stored
          /\ HasParent(nodes[w[2]], b) => b \in nodes'[w[2]].stored
      BY <2>16, WayNodes, AddNextKeeps DEF Grows
    <3> QED BY <2>4, <3>1 DEF HasParent
  <2> QED BY <2>14, <2>15, <2>16
<1> QED BY <1>1, SyncInvHolds, AnswersFitHolds, PTL DEF SyncSpec, AnswersCloseGaps
=============================================================================
