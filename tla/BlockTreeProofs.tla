--------------------------- MODULE BlockTreeProofs ---------------------------
(***************************************************************************)
(* Lemmas about the paths and the walks of BlockTree, for any tree.        *)
(***************************************************************************)
EXTENDS BlockTree, SequenceLemmas

-----------------------------------------------------------------------------
(* Paths *)

\* What PathAssumption says of one block.
LEMMA PathFacts ==
    ASSUME NEW b \in Block
    PROVE  /\ Path[b] \in Seq(Block)
           /\ Len(Path[b]) \in Nat \ {0}
           /\ Path[b][1] = Genesis /\ Path[b][Len(Path[b])] = b
           /\ Number(b) \in Nat /\ Len(Path[b]) = Number(b) + 1
<1>1. /\ Path[b] \in Seq(Block) /\ Len(Path[b]) > 0
      /\ Path[b][1] = Genesis /\ Path[b][Len(Path[b])] = b
  BY PathAssumption
<1>2. Len(Path[b]) \in Nat \ {0}
  BY <1>1
<1> QED  BY <1>1, <1>2 DEF Number

\* A block on b's path has for its path the part of b's path that ends in it.
LEMMA OnPath ==
    ASSUME NEW b \in Block, NEW i \in 1..Len(Path[b])
    PROVE  /\ Path[b][i] \in Block
           /\ Path[Path[b][i]] = SubSeq(Path[b], 1, i)
           /\ Number(Path[b][i]) = i - 1
<1>1. Path[b] \in Seq(Block) /\ Path[b][i] \in Block
  BY PathFacts
<1>2. Path[Path[b][i]] = SubSeq(Path[b], 1, i)
  BY PathAssumption
<1>3. Len(SubSeq(Path[b], 1, i)) = i
  BY <1>1
<1> QED  BY <1>1, <1>2, <1>3 DEF Number

LEMMA PathGenesis ==
    Path[Genesis] = <<Genesis>> /\ Number(Genesis) = 0 /\ Genesis \in Block
<1>1. Genesis \in Block
  BY PathAssumption
<1>2. Path[Genesis] \in Seq(Block) /\ Len(Path[Genesis]) \in Nat \ {0} /\ Path[Genesis][1] = Genesis
  BY <1>1, PathFacts
<1>3. Path[Genesis] = SubSeq(Path[Genesis], 1, 1)
  BY <1>1, <1>2, OnPath
<1>4. SubSeq(Path[Genesis], 1, 1) = <<Path[Genesis][1]>>
  BY <1>2, SubSeqOne
<1>5. Len(Path[Genesis]) = 1
  BY <1>3, <1>4
<1> QED  BY <1>1, <1>2, <1>3, <1>4, <1>5 DEF Number

LEMMA GenesisAlone ==
    ASSUME NEW b \in Block, Number(b) = 0
    PROVE  b = Genesis
  BY PathFacts

LEMMA ParentFacts ==
    ASSUME NEW b \in Block, b # Genesis
    PROVE  /\ Parent(b) \in Block
           /\ Number(b) \in Nat \ {0}
           /\ Number(Parent(b)) = Number(b) - 1
           /\ Path[Parent(b)] = SubSeq(Path[b], 1, Number(b))
           /\ Path[b] = Append(Path[Parent(b)], b)
<1>1. Number(b) \in Nat \ {0} /\ Number(b) \in 1..Len(Path[b])
  BY PathFacts, GenesisAlone
<1>2. /\ Parent(b) \in Block
      /\ Number(Parent(b)) = Number(b) - 1
      /\ Path[Parent(b)] = SubSeq(Path[b], 1, Number(b))
  BY <1>1, OnPath DEF Parent
<1>3. Path[b] \in Seq(Block) /\ Path[b] # <<>> /\ Len(Path[b]) = Number(b) + 1
  BY PathFacts
<1>4. Path[b][Len(Path[b])] = b /\ Len(Path[b]) - 1 = Number(b)
  BY <1>1, <1>3, PathFacts
<1>5. Path[b] = Append(SubSeq(Path[b], 1, Len(Path[b]) - 1), Path[b][Len(Path[b])])
  BY <1>3, AppendLast
<1> QED  BY <1>1, <1>2, <1>4, <1>5

\* Blocks with the same path up to position n have the same blocks there.
LEMMA SamePrefix ==
    ASSUME NEW b \in Block, NEW c \in Block, NEW n \in Nat,
           n <= Len(Path[b]), n <= Len(Path[c]),
           SubSeq(Path[b], 1, n) = SubSeq(Path[c], 1, n)
    PROVE  \A i \in 1..n : Path[b][i] = Path[c][i]
<1>1. Path[b] \in Seq(Block) /\ Path[c] \in Seq(Block)
  BY PathFacts
<1>2. \A i \in 1..n : SubSeq(Path[b], 1, n)[i] = Path[b][i] /\ SubSeq(Path[c], 1, n)[i] = Path[c][i]
  BY <1>1
<1> QED  BY <1>2

LEMMA BlocksAfterFacts ==
    ASSUME NEW b \in Block, NEW c \in Block
    PROVE  BlocksAfter(c, b) \in Seq(Block) /\ ToSet(BlocksAfter(c, b)) \subseteq ToSet(Path[b])
<1>1. Path[b] \in Seq(Block) /\ Number(c) \in Nat
  BY PathFacts
<1>2. BlocksAfter(c, b) \in Seq(Block)
  BY <1>1, SubSeqType DEF BlocksAfter
<1>3. \A i \in 1..Len(BlocksAfter(c, b)) :
          i + Number(c) + 1 \in 1..Len(Path[b]) /\ BlocksAfter(c, b)[i] = Path[b][i + Number(c) + 1]
  <2>1. Number(c) + 2 \in Nat \ {0}
    BY <1>1
  <2>2. \A i \in 1..Len(BlocksAfter(c, b)) :
            /\ i + (Number(c) + 2) - 1 \in 1..Len(Path[b])
            /\ BlocksAfter(c, b)[i] = Path[b][i + (Number(c) + 2) - 1]
    BY <1>1, <2>1, SubSeqToEnd DEF BlocksAfter
  <2>3. \A i \in 1..Len(BlocksAfter(c, b)) :
            i + (Number(c) + 2) - 1 = i + Number(c) + 1
    BY <1>1
  <2> QED BY <2>2, <2>3
<1>4. /\ ToSet(BlocksAfter(c, b)) = {BlocksAfter(c, b)[i] : i \in 1..Len(BlocksAfter(c, b))}
      /\ ToSet(Path[b]) = {Path[b][i] : i \in 1..Len(Path[b])}
  BY <1>1, <1>2, ToSetOfSeq
<1> QED  BY <1>2, <1>3, <1>4

-----------------------------------------------------------------------------
(* Walks along an index that may lack blocks *)

\* A walk ends on the path, and what it passed is indexed.
LEMMA WalkFacts ==
    ASSUME NEW index, NEW b \in Block
    PROVE  /\ WalkEnd(index, b) \in 1..Len(Path[b])
           /\ \A i \in WalkEnd(index, b)..Number(b) : Path[b][i] \in index
           /\ calculateChainLength(index, b) \in 1..Len(Path[b])
<1>1. Number(b) \in Nat /\ Len(Path[b]) = Number(b) + 1
  BY PathFacts
<1>2. Gaps(index, b) \in SUBSET Nat /\ Gaps(index, b) \subseteq 1..Number(b)
  BY <1>1 DEF Gaps
<1>3. CASE Gaps(index, b) = {}
  <2>1. WalkEnd(index, b) = 1
    BY <1>3 DEF WalkEnd
  <2> QED BY <1>1, <1>3, <2>1 DEF Gaps, calculateChainLength
<1>4. CASE Gaps(index, b) # {}
  <2>1. Max(Gaps(index, b)) \in Gaps(index, b) /\ \A x \in Gaps(index, b) : x <= Max(Gaps(index, b))
    <3> DEFINE G == Gaps(index, b)
    <3>1. G \in SUBSET Nat /\ G # {} /\ \A x \in G : x <= Number(b)
      BY <1>1, <1>2, <1>4
    <3> HIDE DEF G
    <3>2. Max(G) \in G /\ \A x \in G : x <= Max(G)
      BY <1>1, <3>1, MaxNat
    <3> QED BY <3>2 DEF G
  <2>2. WalkEnd(index, b) = Max(Gaps(index, b)) + 1
    BY <1>4 DEF WalkEnd
  <2>3. WalkEnd(index, b) \in 1..Len(Path[b])
    BY <1>1, <1>2, <2>1, <2>2
  <2>4. \A i \in WalkEnd(index, b)..Number(b) : i \in 1..Number(b) /\ i \notin Gaps(index, b)
    BY <1>1, <1>2, <2>1, <2>2
  <2>5. \A i \in WalkEnd(index, b)..Number(b) : Path[b][i] \in index
    BY <2>4 DEF Gaps
  <2> QED BY <1>1, <2>3, <2>5 DEF calculateChainLength
<1> QED BY <1>3, <1>4

\* A walk along indexed blocks only goes down to genesis.
LEMMA FullWalk ==
    ASSUME NEW index, NEW b \in Block, ToSet(Path[b]) \subseteq index
    PROVE  WalkEnd(index, b) = 1 /\ calculateChainLength(index, b) = Number(b) + 1
<1>1. Path[b] \in Seq(Block) /\ Number(b) \in Nat /\ Len(Path[b]) = Number(b) + 1
  BY PathFacts
<1>2. \A i \in 1..Number(b) : Path[b][i] \in index
  BY <1>1, ToSetOfSeq
<1>3. Gaps(index, b) = {}
  BY <1>2 DEF Gaps
<1>4. WalkEnd(index, b) = 1
  BY <1>3 DEF WalkEnd
<1> QED BY <1>1, <1>4 DEF calculateChainLength

\* A block that two walks visit is on both paths, and findCommonParent finds one.
LEMMA CommonParentOfWalks ==
    ASSUME NEW index, NEW b1 \in Block, NEW b2 \in Block,
           CommonParents(index, b1, b2) # {}
    PROVE  LET c == findCommonParent(index, b1, b2)
           IN  /\ c \in Block
               /\ Number(c) + 1 \in WalkEnd(index, b1)..Len(Path[b1]) /\ Path[b1][Number(c) + 1] = c
               /\ Number(c) + 1 \in WalkEnd(index, b2)..Len(Path[b2]) /\ Path[b2][Number(c) + 1] = c
<1>1. ASSUME NEW b \in Block, NEW d \in Walk(index, b)
      PROVE  /\ d \in Block /\ Number(d) \in Nat
             /\ Number(d) + 1 \in WalkEnd(index, b)..Len(Path[b]) /\ Path[b][Number(d) + 1] = d
  <2>1. PICK i \in WalkEnd(index, b)..Len(Path[b]) : d = Path[b][i]
    BY <1>1 DEF Walk
  <2>2. WalkEnd(index, b) \in 1..Len(Path[b]) /\ Len(Path[b]) \in Nat
    BY WalkFacts, PathFacts
  <2>3. i \in 1..Len(Path[b])
    BY <2>2
  <2>4. d \in Block /\ Number(d) = i - 1
    BY <2>1, <2>3, OnPath
  <2> QED BY <2>1, <2>2, <2>3, <2>4
<1> DEFINE N == {Number(d) : d \in CommonParents(index, b1, b2)}
<1>2. N \in SUBSET Nat /\ N # {}
  BY <1>1 DEF CommonParents
<1>3. Len(Path[b1]) \in Nat /\ \A n \in N : n <= Len(Path[b1])
  BY <1>1, PathFacts DEF CommonParents
<1>4. Max(N) \in N /\ \A n \in N : n <= Max(N)
  <2> HIDE DEF N
  <2> QED BY <1>2, <1>3, MaxNat
<1>5. \E e \in CommonParents(index, b1, b2) : \A d \in CommonParents(index, b1, b2) : Number(d) <= Number(e)
  BY <1>4
<1>6. findCommonParent(index, b1, b2) \in CommonParents(index, b1, b2)
  BY <1>5 DEF findCommonParent
<1> QED BY <1>1, <1>6 DEF CommonParents

\* A path is the part up to a block on it and the blocks after that.
LEMMA PathSplit ==
    ASSUME NEW b \in Block, NEW c \in Block,
           Number(c) + 1 \in 1..Len(Path[b]), Path[b][Number(c) + 1] = c
    PROVE  /\ Path[c] = SubSeq(Path[b], 1, Number(c) + 1)
           /\ Path[b] = Path[c] \o BlocksAfter(c, b)
<1> DEFINE n == Number(c) + 1
<1>1. Path[b] \in Seq(Block) /\ Len(Path[b]) \in Nat /\ Number(c) \in Nat
  BY PathFacts
<1>2. Path[c] = SubSeq(Path[b], 1, n)
  BY OnPath
<1>3. SubSeq(Path[b], 1, n) \o SubSeq(Path[b], n + 1, Len(Path[b])) = SubSeq(Path[b], 1, Len(Path[b]))
  <2>1. 1 \in 1..Len(Path[b]) + 1 /\ n \in (1 - 1)..Len(Path[b]) /\ Len(Path[b]) \in n..Len(Path[b])
    BY <1>1
  <2> HIDE DEF n
  <2> QED BY <1>1, <2>1, ConcatAdjacentSubSeq
<1>4. SubSeq(Path[b], 1, Len(Path[b])) = Path[b]
  BY <1>1, SubSeqFull
<1>5. n + 1 = Number(c) + 2
  BY <1>1
<1> HIDE DEF n
<1> QED BY <1>2, <1>3, <1>4, <1>5 DEF BlocksAfter, n

LEMMA ToSetOfConcat ==
    ASSUME NEW S, NEW s \in Seq(S), NEW t \in Seq(S)
    PROVE  ToSet(s \o t) = ToSet(s) \cup ToSet(t)
<1> DEFINE u == s \o t
<1>1. /\ u \in Seq(S) /\ Len(u) = Len(s) + Len(t) /\ Len(s) \in Nat /\ Len(t) \in Nat
      /\ \A i \in 1..Len(s) : u[i] = s[i]
      /\ \A i \in 1..Len(t) : u[i + Len(s)] = t[i]
  <2>1. /\ u \in Seq(S) /\ Len(u) = Len(s) + Len(t) /\ Len(s) \in Nat /\ Len(t) \in Nat
        /\ \A i \in 1..(Len(s) + Len(t)) : u[i] = IF i <= Len(s) THEN s[i] ELSE t[i - Len(s)]
    BY ConcatProperties
  <2> HIDE DEF u
  <2>2. \A i \in 1..Len(t) : /\ i + Len(s) \in 1..(Len(s) + Len(t))
                             /\ ~(i + Len(s) <= Len(s)) /\ (i + Len(s)) - Len(s) = i
    BY <2>1
  <2>3. \A i \in 1..Len(s) : i \in 1..(Len(s) + Len(t)) /\ i <= Len(s)
    BY <2>1
  <2>4. \A i \in 1..Len(t) : u[i + Len(s)] = t[i]
    BY <2>1, <2>2
  <2> QED BY <2>1, <2>3, <2>4
<1> HIDE DEF u
<1>2. /\ ToSet(u) = {u[i] : i \in 1..Len(u)} /\ ToSet(s) = {s[i] : i \in 1..Len(s)}
      /\ ToSet(t) = {t[i] : i \in 1..Len(t)}
  BY <1>1, ToSetOfSeq
<1>3. \A i \in 1..Len(u) : i \in 1..Len(s) \/ (i - Len(s) \in 1..Len(t) /\ (i - Len(s)) + Len(s) = i)
  BY <1>1
<1>4. ToSet(u) \subseteq ToSet(s) \cup ToSet(t)
  <2> SUFFICES ASSUME NEW i \in 1..Len(u) PROVE u[i] \in ToSet(s) \cup ToSet(t)
    BY <1>2
  <2>1. CASE i \in 1..Len(s)
    BY <1>1, <1>2, <2>1
  <2>2. CASE i - Len(s) \in 1..Len(t)
    <3>1. u[i] = t[i - Len(s)]
      BY <1>1, <1>3, <2>2
    <3> QED BY <1>2, <2>2, <3>1
  <2> QED BY <1>3, <2>1, <2>2
<1>5. \A i \in 1..Len(s) : i \in 1..Len(u)
  BY <1>1
<1>6. \A i \in 1..Len(t) : i + Len(s) \in 1..Len(u)
  BY <1>1
<1> QED BY <1>1, <1>2, <1>4, <1>5, <1>6 DEF u

\* The blocks up to one on the path and those after it.
LEMMA PathSplitSets ==
    ASSUME NEW b \in Block, NEW c \in Block,
           Number(c) + 1 \in 1..Len(Path[b]), Path[b][Number(c) + 1] = c
    PROVE  /\ ToSet(Path[b]) = ToSet(Path[c]) \cup ToSet(BlocksAfter(c, b))
           /\ ToSet(Path[c]) \cap ToSet(BlocksAfter(c, b)) = {}
           /\ ToSet(BlocksAfter(c, b)) = {Path[b][i] : i \in (Number(c) + 2)..Len(Path[b])}
<1>1. Path[b] \in Seq(Block) /\ Path[c] \in Seq(Block) /\ BlocksAfter(c, b) \in Seq(Block)
  BY PathFacts, BlocksAfterFacts
<1>2. /\ Len(Path[b]) \in Nat /\ Number(c) \in Nat /\ Len(Path[c]) = Number(c) + 1
  BY PathFacts
<1>3. ToSet(Path[b]) = ToSet(Path[c]) \cup ToSet(BlocksAfter(c, b))
  <2>1. Path[b] = Path[c] \o BlocksAfter(c, b)
    BY PathSplit
  <2>2. ToSet(Path[c] \o BlocksAfter(c, b)) = ToSet(Path[c]) \cup ToSet(BlocksAfter(c, b))
    BY <1>1, ToSetOfConcat
  <2> QED BY <2>1, <2>2
<1>4. /\ Len(BlocksAfter(c, b)) = Len(Path[b]) - (Number(c) + 1)
      /\ \A i \in 1..Len(BlocksAfter(c, b)) : BlocksAfter(c, b)[i] = Path[b][(Number(c) + 2) + i - 1]
  <2> DEFINE m == Number(c) + 2
  <2>1. m \in Int /\ m \in 1..(Len(Path[b]) + 1)
    BY <1>2
  <2> HIDE DEF m
  <2>2. \A i \in m..Len(Path[b]) : Path[b][i] \in Block
    BY <1>1, <1>2, <2>1
  <2>3. /\ Len(SubSeq(Path[b], m, Len(Path[b]))) = IF m <= Len(Path[b]) THEN Len(Path[b]) - m + 1 ELSE 0
        /\ \A i \in 1..(Len(Path[b]) - m + 1) : SubSeq(Path[b], m, Len(Path[b]))[i] = Path[b][m + i - 1]
    BY <1>2, <2>1, <2>2, SubSeqProperties
  <2>4. Len(SubSeq(Path[b], m, Len(Path[b]))) = Len(Path[b]) - m + 1
    BY <1>2, <2>1, <2>3
  <2>5. BlocksAfter(c, b) = SubSeq(Path[b], m, Len(Path[b]))
    BY DEF BlocksAfter, m
  <2>6. Len(Path[b]) - m + 1 = Len(Path[b]) - (Number(c) + 1)
    BY <1>2 DEF m
  <2> QED BY <2>3, <2>4, <2>5, <2>6 DEF m
<1>5. ToSet(BlocksAfter(c, b)) = {Path[b][i] : i \in (Number(c) + 2)..Len(Path[b])}
  <2>1. ToSet(BlocksAfter(c, b)) = {BlocksAfter(c, b)[i] : i \in 1..Len(BlocksAfter(c, b))}
    BY <1>1, ToSetOfSeq
  <2>2. \A i \in 1..Len(BlocksAfter(c, b)) : (Number(c) + 2) + i - 1 \in (Number(c) + 2)..Len(Path[b])
    BY <1>2, <1>4
  <2>3. \A i \in (Number(c) + 2)..Len(Path[b]) : /\ i - Number(c) - 1 \in 1..Len(BlocksAfter(c, b))
                                                 /\ (Number(c) + 2) + (i - Number(c) - 1) - 1 = i
    BY <1>2, <1>4
  <2>4. \A i \in 1..Len(BlocksAfter(c, b)) :
            BlocksAfter(c, b)[i] \in {Path[b][k] : k \in (Number(c) + 2)..Len(Path[b])}
    BY <1>4, <2>2
  <2>5. ASSUME NEW i \in (Number(c) + 2)..Len(Path[b])
        PROVE  Path[b][i] \in {BlocksAfter(c, b)[k] : k \in 1..Len(BlocksAfter(c, b))}
    <3>1. BlocksAfter(c, b)[i - Number(c) - 1] = Path[b][i]
      BY <1>4, <2>3
    <3> QED BY <2>3, <3>1
  <2> QED BY <2>1, <2>4, <2>5
<1>6. \A d \in ToSet(Path[c]) : Number(d) <= Number(c)
  <2>1. ToSet(Path[c]) = {Path[c][i] : i \in 1..Len(Path[c])}
    BY <1>1, ToSetOfSeq
  <2>2. \A i \in 1..Len(Path[c]) : Number(Path[c][i]) = i - 1
    BY OnPath
  <2> QED BY <1>2, <2>1, <2>2
<1>7. \A d \in ToSet(BlocksAfter(c, b)) : Number(d) > Number(c)
  <2>1. \A i \in (Number(c) + 2)..Len(Path[b]) : i \in 1..Len(Path[b]) /\ i - 1 > Number(c)
    BY <1>2
  <2> QED BY <1>5, <2>1, OnPath
<1>8. \A d \in ToSet(Path[c]) : Number(d) \in Nat
  BY <1>1, ToSetOfSeq, PathFacts
<1> QED BY <1>2, <1>3, <1>5, <1>6, <1>7, <1>8

\* A branch that is longer in an index that holds the main chain: its walk reaches the
\* main chain, so that the whole branch is indexed.
LEMMA LongerBranch ==
    ASSUME NEW index, NEW tip \in Block, NEW b \in Block, b \in index,
           ToSet(Path[tip]) \subseteq index,
           calculateChainLength(index, b) > calculateChainLength(index, tip),
           CommonParents(index, tip, b) # {}
    PROVE  LET c == findCommonParent(index, tip, b)
           IN  /\ c \in Block
               /\ Number(c) + 1 \in 1..Len(Path[tip]) /\ Path[tip][Number(c) + 1] = c
               /\ Number(c) + 1 \in 1..Len(Path[b]) /\ Path[b][Number(c) + 1] = c
               /\ Number(c) <= Number(tip) /\ Number(tip) < Number(b)
               /\ ToSet(Path[b]) \subseteq index
               /\ (ToSet(Path[tip]) \ ToSet(BlocksAfter(c, tip))) \cup ToSet(BlocksAfter(c, b)) = ToSet(Path[b])
<1> DEFINE c == findCommonParent(index, tip, b)
<1>1. /\ c \in Block
      /\ Number(c) + 1 \in WalkEnd(index, tip)..Len(Path[tip]) /\ Path[tip][Number(c) + 1] = c
      /\ Number(c) + 1 \in WalkEnd(index, b)..Len(Path[b]) /\ Path[b][Number(c) + 1] = c
  BY CommonParentOfWalks
<1> HIDE DEF c
<1>2. /\ Number(tip) \in Nat /\ Len(Path[tip]) = Number(tip) + 1
      /\ Number(b) \in Nat /\ Len(Path[b]) = Number(b) + 1 /\ Path[b][Len(Path[b])] = b
      /\ Number(c) \in Nat
  BY <1>1, PathFacts
<1>3. WalkEnd(index, tip) = 1 /\ calculateChainLength(index, tip) = Number(tip) + 1
  BY FullWalk
<1>4. /\ WalkEnd(index, b) \in 1..Len(Path[b]) /\ calculateChainLength(index, b) \in 1..Len(Path[b])
      /\ \A i \in WalkEnd(index, b)..Number(b) : Path[b][i] \in index
  BY WalkFacts
<1>5. /\ Number(c) + 1 \in 1..Len(Path[tip]) /\ Number(c) + 1 \in 1..Len(Path[b])
      /\ Number(c) <= Number(tip) /\ Number(tip) < Number(b)
  BY <1>1, <1>2, <1>3, <1>4
<1>6. /\ ToSet(Path[tip]) = ToSet(Path[c]) \cup ToSet(BlocksAfter(c, tip))
      /\ ToSet(Path[c]) \cap ToSet(BlocksAfter(c, tip)) = {}
      /\ ToSet(Path[b]) = ToSet(Path[c]) \cup ToSet(BlocksAfter(c, b))
      /\ ToSet(BlocksAfter(c, b)) = {Path[b][i] : i \in (Number(c) + 2)..Len(Path[b])}
  BY <1>1, <1>5, PathSplitSets
<1>7. \A i \in (Number(c) + 2)..Len(Path[b]) : Path[b][i] \in index
  <2> TAKE i \in (Number(c) + 2)..Len(Path[b])
  <2>1. CASE i = Len(Path[b])
    BY <1>2, <2>1
  <2>2. CASE i # Len(Path[b])
    <3>1. i \in WalkEnd(index, b)..Number(b)
      BY <1>1, <1>2, <1>4, <2>2
    <3> QED BY <1>4, <3>1
  <2> QED BY <2>1, <2>2
<1>8. ToSet(Path[b]) \subseteq index
  BY <1>6, <1>7
<1>9. (ToSet(Path[tip]) \ ToSet(BlocksAfter(c, tip))) \cup ToSet(BlocksAfter(c, b)) = ToSet(Path[b])
  BY <1>6
<1> QED BY <1>1, <1>5, <1>8, <1>9 DEF c
=============================================================================
