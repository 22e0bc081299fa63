----------------------------- MODULE BlockTree -----------------------------
(***************************************************************************)
(* Blocks and their ancestors, and the walks of core/blockchain.go along   *)
(* ParentHash.  A walk looks every parent up in an index of blocks and     *)
(* stops at the first that is missing there.                               *)
(***************************************************************************)
EXTENDS Integers, SequencesExt

CONSTANTS Block,        \* blocks, by hash
          Genesis,      \* the genesis block
          Path          \* [Block -> Seq(Block)]: from Genesis to the block, along ParentHash

\* A block's ParentHash names one block, and following ParentHash ends at
\* genesis: a hash cannot be its own preimage.
ASSUME PathAssumption ==
    /\ Genesis \in Block
    /\ Path \in [Block -> Seq(Block)]
    /\ \A b \in Block : /\ Len(Path[b]) > 0
                        /\ Path[b][1] = Genesis
                        /\ Path[b][Len(Path[b])] = b
                        /\ \A i \in 1..Len(Path[b]) :
                               Path[Path[b][i]] = SubSeq(Path[b], 1, i)

-----------------------------------------------------------------------------
Number(b) == Len(Path[b]) - 1
Parent(b) == Path[b][Number(b)]

\* Positions on Path[b] below b that index lacks; the walk stops there.
Gaps(index, b) == {i \in 1..Number(b) : Path[b][i] \notin index}

\* Position on Path[b] of the last block the walk from b visits.
WalkEnd(index, b) == IF Gaps(index, b) = {} THEN 1 ELSE Max(Gaps(index, b)) + 1

calculateChainLength(index, b) == Len(Path[b]) - WalkEnd(index, b) + 1

\* The blocks the walk from b visits, b first.
Walk(index, b) == {Path[b][i] : i \in WalkEnd(index, b)..Len(Path[b])}

\* findCommonParent: the first block of the second walk that is on the first.
CommonParents(index, b1, b2) == Walk(index, b1) \cap Walk(index, b2)

findCommonParent(index, b1, b2) ==
    CHOOSE c \in CommonParents(index, b1, b2) :
        \A d \in CommonParents(index, b1, b2) : Number(d) <= Number(c)

\* The blocks after c on the way to b, lowest first.
BlocksAfter(c, b) == SubSeq(Path[b], Number(c) + 2, Len(Path[b]))
=============================================================================
