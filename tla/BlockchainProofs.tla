--------------------------- MODULE BlockchainProofs ---------------------------
(***************************************************************************)
(* Theorems about Blockchain, for every block tree, every assignment of    *)
(* transactions to blocks and every limit of the mempool.                  *)
(***************************************************************************)
EXTENDS Blockchain, BlockTreeProofs

-----------------------------------------------------------------------------
(* The index: walks along it end at genesis. *)

LEMMA WalkIsPath ==
    ASSUME blockIndex \subseteq Block, IndexIsClosed, NEW b \in blockIndex
    PROVE  /\ calculateChainLength(blockIndex, b) = Len(Path[b])
           /\ Walk(blockIndex, b) = {Path[b][i] : i \in 1..Len(Path[b])}
<1>1. b \in Block /\ Path[b] \in Seq(Block) /\ Len(Path[b]) \in Nat \ {0} /\ Number(b) = Len(Path[b]) - 1
  BY PathFacts
<1>2. \A i \in 1..Len(Path[b]) : Path[b][i] \in blockIndex
  BY <1>1, ToSetOfSeq DEF IndexIsClosed
<1>3. Gaps(blockIndex, b) = {}
  BY <1>1, <1>2 DEF Gaps
<1>4. WalkEnd(blockIndex, b) = 1
  BY <1>3 DEF WalkEnd
<1> QED  BY <1>1, <1>4 DEF calculateChainLength, Walk

\* findCommonParent finds a block for any two indexed blocks: "no common parent
\* found between chains" (1259) is never returned, and "no common parent" cannot
\* be the reason a reorganization fails.
THEOREM CommonParentExists ==
    ASSUME blockIndex \subseteq Block, IndexIsClosed,
           NEW b \in blockIndex, NEW c \in blockIndex
    PROVE  /\ findCommonParent(blockIndex, b, c) \in CommonParents(blockIndex, b, c)
           /\ \A d \in CommonParents(blockIndex, b, c) : Number(d) <= Number(findCommonParent(blockIndex, b, c))
<1>1. b \in Block /\ c \in Block
  OBVIOUS
<1>2. /\ Walk(blockIndex, b) = {Path[b][i] : i \in 1..Len(Path[b])}
      /\ Walk(blockIndex, c) = {Path[c][i] : i \in 1..Len(Path[c])}
  BY WalkIsPath
<1>3. /\ Len(Path[b]) \in Nat \ {0} /\ Len(Path[c]) \in Nat \ {0}
      /\ Path[b][1] = Genesis /\ Path[c][1] = Genesis
  BY <1>1, PathFacts
<1>4. Genesis \in CommonParents(blockIndex, b, c)
  BY <1>2, <1>3 DEF CommonParents
<1>5. \A d \in CommonParents(blockIndex, b, c) : d \in Block /\ Number(d) \in Nat /\ Number(d) <= Number(b)
  <2> TAKE d \in CommonParents(blockIndex, b, c)
  <2>1. PICK i \in 1..Len(Path[b]) : d = Path[b][i]
    BY <1>2 DEF CommonParents
  <2> QED  BY <1>1, <2>1, OnPath, PathFacts
<1> DEFINE N == {Number(d) : d \in CommonParents(blockIndex, b, c)}
<1>6. N \in SUBSET Nat /\ N # {} /\ Number(b) \in Nat /\ \A n \in N : n <= Number(b)
  BY <1>1, <1>4, <1>5, PathFacts
<1>7. Max(N) \in N /\ \A n \in N : n <= Max(N)
  <2> HIDE DEF N
  <2> QED  BY <1>6, MaxNat
<1>8. \E e \in CommonParents(blockIndex, b, c) : \A d \in CommonParents(blockIndex, b, c) : Number(d) <= Number(e)
  BY <1>7
<1> QED  BY <1>8 DEF findCommonParent

-----------------------------------------------------------------------------
(* Types of the operators that Next is built from. *)

LEMMA UTXOTypes ==
    ASSUME NEW us, IsUTXOMap(us), NEW S \in SUBSET OutPoint, NEW b \in Block
    PROVE  /\ IsUTXOMap(AddUTXOs(us, S, b)) /\ IsUTXOMap(RemoveUTXOs(us, b))
  BY DEF IsUTXOMap, AddUTXOs, RemoveUTXOs, UTXO

LEMMA SpendType ==
    ASSUME NEW us, IsUTXOMap(us), NEW S
    PROVE  /\ IsUTXOMap(SpendUTXOs(us, S)) /\ IsUTXOMap(RestoreUTXOs(us, S))
           /\ DOMAIN RestoreUTXOs(us, S) = DOMAIN us
  BY DEF IsUTXOMap, SpendUTXOs, RestoreUTXOs, UTXO

LEMMA TxFacts ==
    ASSUME NEW t \in Tx
    PROVE  /\ InputSet(t) \subseteq OutPoint /\ Outputs[t] \subseteq OutPoint
           /\ Sender[t] \in Address /\ Nonce[t] \in Nat
           /\ ~IsReward(t) => Nonce[t] - 1 \in Nat
<1>1. /\ Inputs[t] \in Seq(OutPoint) /\ Outputs[t] \subseteq OutPoint
      /\ Sender[t] \in Address /\ Nonce[t] \in Nat /\ (Inputs[t] # <<>> => Nonce[t] > 0)
  BY TxAssumption
<1>2. InputSet(t) \subseteq OutPoint
  BY <1>1, ToSetOfSeq DEF InputSet
<1> QED  BY <1>1, <1>2 DEF IsReward

LEMMA RestoreType ==
    ASSUME TypeOK, NEW t \in Tx
    PROVE  IsUTXOMap(RestoreInputs(t))
<1> DEFINE found == {o \in InputSet(t) : CreatedAt(o) # {}}
           back == RestoreUTXOs(utxos, found)
<1>1. IsUTXOMap(utxos) /\ blocks \in Seq(Block)
  BY DEF TypeOK
<1>2. IsUTXOMap(back) /\ DOMAIN back = DOMAIN utxos /\ found \subseteq OutPoint
  BY <1>1, SpendType, TxFacts
<1>3. \A o \in found : blocks[Min(CreatedAt(o))] \in Block
  <2> TAKE o \in found
  <2>1. CreatedAt(o) \in SUBSET Nat /\ CreatedAt(o) # {} /\ CreatedAt(o) \subseteq DOMAIN blocks
    BY <1>1 DEF CreatedAt
  <2>2. Min(CreatedAt(o)) \in CreatedAt(o)
    BY <2>1, MinNat
  <2> QED  BY <1>1, <2>1, <2>2
<1> HIDE DEF found, back
<1>4. IsUTXOMap([o \in DOMAIN utxos \cup found |->
                    IF o \in DOMAIN utxos THEN back[o]
                    ELSE [spent |-> FALSE, block |-> blocks[Min(CreatedAt(o))]]])
  BY <1>1, <1>2, <1>3 DEF IsUTXOMap, UTXO
<1> QED  BY <1>4 DEF RestoreInputs, found, back

LEMMA PoolType ==
    ASSUME NEW pool \in SUBSET Tx, NEW t \in Tx, NEW p \in AfterAdd(pool, t)
    PROVE  p \in SUBSET Tx
  BY DEF AfterAdd, AfterSizeCheck, AfterMemoryCheck, RemoveLowestFee, LowestFee

LEMMA LastNType ==
    ASSUME NEW s \in Seq(Block), NEW n \in Nat \ {0}
    PROVE  LastN(s, n) \in Seq(Block)
<1>1. Max({1, Len(s) - n + 1}) \in Nat \ {0}
  BY MaxOfPair
<1>2. Len(s) \in 0..Len(s)
  OBVIOUS
<1> QED  BY <1>1, <1>2, SubSeqType DEF LastN

-----------------------------------------------------------------------------
(* Types, the closed index and the indexed work, with any number of callers. *)

LEMMA InitBase == Init => BaseInv
<1> SUFFICES ASSUME Init PROVE BaseInv
  OBVIOUS
<1>1. Genesis \in Block /\ ToSet(Path[Genesis]) = {Genesis}
  BY PathGenesis DEF ToSet
<1>2. IsUTXOMap(NewUTXOSet)
  BY DEF IsUTXOMap, NewUTXOSet
<1>3. height = 0 /\ Genesis \in blockIndex /\ ToSet(adding) = {}
  BY DEF Init, ToSet
<1>4. TypeOK
  BY <1>1, <1>2 DEF Init, TypeOK, Phases
<1> QED  BY <1>1, <1>3, <1>4 DEF Init, BaseInv, IndexIsClosed, WorkIsIndexed

\* The blocks that a step of the processing loops works on.
LEMMA WorkBlock ==
    ASSUME TypeOK, adding # <<>>
    PROVE  /\ Head(adding) \in Block /\ Head(adding) \in ToSet(adding)
           /\ Tail(adding) \in Seq(Block) /\ ToSet(Tail(adding)) \subseteq ToSet(adding)
           /\ Number(Head(adding)) \in Nat
<1>1. adding \in Seq(Block)
  BY DEF TypeOK
<1>2. Head(adding) = adding[1] /\ 1 \in 1..Len(adding) /\ Head(adding) \in Block
  BY <1>1
<1>3. /\ Tail(adding) \in Seq(Block)
      /\ \A i \in 1..Len(Tail(adding)) : i + 1 \in 1..Len(adding) /\ Tail(adding)[i] = adding[i + 1]
  BY <1>1
<1>4. /\ ToSet(adding) = {adding[i] : i \in 1..Len(adding)}
      /\ ToSet(Tail(adding)) = {Tail(adding)[i] : i \in 1..Len(Tail(adding))}
  BY <1>1, <1>3, ToSetOfSeq
<1>5. Number(Head(adding)) \in Nat
  BY <1>2, PathFacts
<1> QED  BY <1>2, <1>3, <1>4, <1>5

LEMMA CurrentTx ==
    ASSUME TypeOK, NEW b \in Block, ~BlockDone(b)
    PROVE  Txs[b][txi] \in Tx
<1>1. Txs[b] \in Seq(Tx) /\ txi \in Nat \ {0}
  BY TxAssumption DEF TypeOK
<1> QED  BY <1>1 DEF BlockDone

\* A call accepts a block only if its parent's whole path is indexed.
LEMMA AcceptedBlock ==
    ASSUME BaseInv, NEW b \in Block, Accepts(b)
    PROVE  /\ b # Genesis /\ Parent(b) \in blockIndex
           /\ ToSet(Path[b]) \subseteq blockIndex \cup {b}
           /\ Parent(b) = ExpectedParent(b)
<1>1. b # Genesis
  BY DEF Accepts, BaseInv, IndexIsClosed
<1>2. Parent(b) = ExpectedParent(b) /\ Parent(b) \in blockIndex
  BY DEF Accepts, validateBlockV2WithParent
<1>3. ToSet(Path[Parent(b)]) \subseteq blockIndex
  BY <1>2 DEF BaseInv, IndexIsClosed
<1>4. Path[b] = Append(Path[Parent(b)], b) /\ Parent(b) \in Block
  BY <1>1, ParentFacts
<1>5. ToSet(Path[b]) = ToSet(Path[Parent(b)]) \cup {b}
  BY <1>4, PathFacts, ToSetOfAppend
<1> QED  BY <1>1, <1>2, <1>3, <1>5

LEMMA IndexedBlockFits ==
    ASSUME BaseInv, NEW b \in Block, ToSet(Path[b]) \subseteq blockIndex \cup {b},
           blockIndex' = blockIndex \cup {b}
    PROVE  IndexIsClosed'
  BY DEF BaseInv, IndexIsClosed

LEMMA BaseStep == BaseInv /\ [Next]_vars => BaseInv'
<1> SUFFICES ASSUME BaseInv, [Next]_vars PROVE BaseInv'
  OBVIOUS
<1>t. TypeOK /\ IndexIsClosed /\ WorkIsIndexed
  BY DEF BaseInv
<1>c. MaxHistory \in Nat \ {0} /\ UserTx \subseteq Tx
  BY TxAssumption
<1>1. ASSUME NEW b \in Block, ExtendBestBlock(b) PROVE BaseInv'
  <2>1. Accepts(b) /\ ToSet(Path[b]) \subseteq blockIndex \cup {b}
    BY <1>1, AcceptedBlock DEF ExtendBestBlock
  <2>2. <<b>> \in Seq(Block) /\ ToSet(<<b>>) = {b} /\ Len(<<b>>) = 1
    BY DEF ToSet
  <2>3. TypeOK'
    BY <1>t, <1>1, <2>2 DEF ExtendBestBlock, TypeOK, Phases, chainVars, indexVars, ledgerVars,
        poolVars, callVars
  <2>4. IndexIsClosed'
    BY <1>1, <2>1, IndexedBlockFits DEF ExtendBestBlock
  <2>5. WorkIsIndexed'
    BY <1>t, <1>1, <2>2 DEF ExtendBestBlock, WorkIsIndexed, chainVars
  <2> QED  BY <2>3, <2>4, <2>5 DEF BaseInv
<1>2. ASSUME NEW b \in Block, StoreForkBlock(b) PROVE BaseInv'
  <2>1. Accepts(b) /\ ToSet(Path[b]) \subseteq blockIndex \cup {b}
    BY <1>2, AcceptedBlock DEF StoreForkBlock
  <2>2. reorgWaiting' \subseteq reorgWaiting \cup {b}
    BY <1>2 DEF StoreForkBlock
  <2>3. TypeOK'
    BY <1>t, <1>2, <2>2 DEF StoreForkBlock, TypeOK, chainVars, ledgerVars, poolVars, callVars
  <2>4. IndexIsClosed'
    BY <1>2, <2>1, IndexedBlockFits DEF StoreForkBlock
  <2>5. WorkIsIndexed'
    BY <1>t, <1>2, <2>2 DEF StoreForkBlock, WorkIsIndexed, chainVars, callVars
  <2> QED  BY <2>3, <2>4, <2>5 DEF BaseInv
<1>3. CASE ProcessTransaction
  <2> DEFINE b == Head(adding)
             t == Txs[b][txi]
  <2>1. adding # <<>> /\ ~BlockDone(b) /\ b \in Block
    BY <1>t, <1>3, WorkBlock DEF ProcessTransaction, Processing
  <2>2. t \in Tx
    BY <1>t, <2>1, CurrentTx
  <2>3. IsUTXOMap(utxos')
    BY <1>t, <1>3, <2>1, <2>2, SpendType, UTXOTypes, TxFacts DEF ProcessTransaction, TypeOK
  <2>4. accountNonces' \in [Address -> Nat]
    BY <1>t, <1>3, <2>2, TxFacts DEF ProcessTransaction, updateAccountNonces, TypeOK
  <2>5. txi' \in Nat \ {0} /\ transactions' \subseteq Tx
    BY <1>t, <1>3 DEF ProcessTransaction, RemoveTransaction, TypeOK
  <2>6. TypeOK'
    BY <1>t, <1>3, <2>3, <2>4, <2>5 DEF ProcessTransaction, TypeOK, chainVars, indexVars
  <2> QED
    BY <1>t, <1>3, <2>6 DEF ProcessTransaction, BaseInv, IndexIsClosed, WorkIsIndexed, chainVars, indexVars
<1>4. CASE RefuseTransaction
  <2>1. IsUTXOMap(utxos')
    BY <1>t, <1>4, SpendType DEF RefuseTransaction, TypeOK
  <2>2. adding' = <<>> /\ phase' = "idle" /\ adding' \in Seq(Block) /\ ToSet(adding') = {}
    BY <1>4 DEF RefuseTransaction, ReturnError, ToSet
  <2>3. TypeOK'
    BY <1>t, <1>4, <2>1, <2>2 DEF RefuseTransaction, TypeOK, Phases, chainVars, indexVars, poolVars
  <2> QED
    BY <1>t, <1>4, <2>2, <2>3 DEF RefuseTransaction, BaseInv, IndexIsClosed, WorkIsIndexed, chainVars, indexVars
<1>5. CASE FinishExtend
  <2> DEFINE b == Head(adding)
  <2>1. adding # <<>>
    BY <1>t, <1>5 DEF FinishExtend, WorkIsIndexed
  <2>2. b \in Block /\ b \in blockIndex /\ Number(b) \in Nat
    BY <1>t, <2>1, WorkBlock DEF WorkIsIndexed
  <2>3. /\ adding' = <<>> /\ phase' = "idle" /\ adding' \in Seq(Block) /\ ToSet(adding') = {}
        /\ bestBlock' = b /\ height' = Number(b) /\ blocks' = Append(blocks, b)
    BY <1>5 DEF FinishExtend, AppendBlock, ToSet
  <2>4. blockHistory' \in Seq(Block)
    <3>1. Append(blockHistory, b) \in Seq(Block)
      BY <1>t, <2>2 DEF TypeOK
    <3>2. blockHistory' = LastN(Append(blockHistory, b), MaxHistory)
      BY <1>5 DEF FinishExtend, AddToHistory
    <3> HIDE DEF b
    <3> QED  BY <1>c, <3>1, <3>2, LastNType
  <2>5. TypeOK'
    BY <1>t, <1>5, <2>2, <2>3, <2>4 DEF FinishExtend, TypeOK, Phases, indexVars, ledgerVars, poolVars
  <2> QED
    BY <1>t, <1>5, <2>2, <2>3, <2>5 DEF FinishExtend, BaseInv, IndexIsClosed, WorkIsIndexed, indexVars
<1>6. ASSUME NEW b \in Block, reorganizeChain(b) PROVE BaseInv'
  <2> DEFINE c == findCommonParent(blockIndex, bestBlock, b)
  <2>1. b \in blockIndex /\ bestBlock \in blockIndex /\ bestBlock \in Block /\ blockIndex \subseteq Block
    BY <1>t, <1>6 DEF reorganizeChain, WorkIsIndexed, TypeOK
  <2>2. c \in Block
    <3>1. c \in Walk(blockIndex, b)
      BY <1>t, <2>1, CommonParentExists DEF CommonParents
    <3>2. PICK i \in 1..Len(Path[b]) : c = Path[b][i]
      BY <1>t, <2>1, <3>1, WalkIsPath
    <3> QED  BY <3>2, OnPath
  <2>3. /\ BlocksAfter(c, bestBlock) \in Seq(Block) /\ BlocksAfter(c, b) \in Seq(Block)
        /\ ToSet(BlocksAfter(c, b)) \subseteq blockIndex
    BY <1>t, <2>1, <2>2, BlocksAfterFacts DEF IndexIsClosed
  <2> HIDE DEF c
  <2>4. /\ commonParent' = c /\ removing' = BlocksAfter(c, bestBlock) /\ adding' = BlocksAfter(c, b)
        /\ oldBest' = bestBlock /\ phase' = "rollback" /\ txi' = 1 /\ reorgWaiting' = reorgWaiting \ {b}
    BY <1>6 DEF reorganizeChain, c
  <2>5. TypeOK'
    BY <1>t, <1>6, <2>1, <2>2, <2>3, <2>4
    DEF reorganizeChain, TypeOK, Phases, chainVars, indexVars, ledgerVars, poolVars
  <2> QED
    BY <1>t, <1>6, <2>1, <2>3, <2>4, <2>5
    DEF reorganizeChain, BaseInv, IndexIsClosed, WorkIsIndexed, chainVars, indexVars
<1>7. CASE RollbackTransaction
  <2> DEFINE t == Txs[Head(removing)][txi]
  <2>1. Head(removing) \in Block
    BY <1>t, <1>7 DEF RollbackTransaction, TypeOK
  <2>2. t \in Tx
    BY <1>t, <1>7, <2>1, CurrentTx DEF RollbackTransaction
  <2>3. IsUTXOMap(utxos')
    BY <1>t, <1>7, <2>2, RestoreType DEF RollbackTransaction
  <2>4. accountNonces' \in [Address -> Nat]
    BY <1>t, <1>7, <2>2, TxFacts DEF RollbackTransaction, RollbackNonce, TypeOK
  <2>5. txi' \in Nat \ {0}
    BY <1>t, <1>7 DEF RollbackTransaction, TypeOK
  <2>6. TypeOK'
    BY <1>t, <1>7, <2>3, <2>4, <2>5 DEF RollbackTransaction, TypeOK, chainVars, indexVars, poolVars
  <2> QED
    BY <1>t, <1>7, <2>6 DEF RollbackTransaction, BaseInv, IndexIsClosed, WorkIsIndexed, chainVars, indexVars
<1>8. CASE RollbackBlock
  <2>1. Head(removing) \in Block /\ Tail(removing) \in Seq(Block)
    BY <1>t, <1>8 DEF RollbackBlock, TypeOK
  <2>2. IsUTXOMap(utxos')
    BY <1>t, <1>8, <2>1, UTXOTypes DEF RollbackBlock, TypeOK
  <2>3. TypeOK'
    BY <1>t, <1>8, <2>1, <2>2 DEF RollbackBlock, TypeOK, chainVars, indexVars, poolVars
  <2> QED
    BY <1>t, <1>8, <2>3 DEF RollbackBlock, BaseInv, IndexIsClosed, WorkIsIndexed, chainVars, indexVars
<1>9. CASE TruncateBlocks
  <2> DEFINE at == {i \in DOMAIN blocks : blocks[i] = commonParent}
  <2>1. blocks \in Seq(Block) /\ height \in Nat /\ commonParent \in Block
    BY <1>t DEF TypeOK
  <2>2. at # {} => SubSeq(blocks, 1, Min(at)) \in Seq(Block)
    <3> SUFFICES ASSUME at # {} PROVE SubSeq(blocks, 1, Min(at)) \in Seq(Block)
      OBVIOUS
    <3>1. at \in SUBSET Nat /\ at \subseteq 1..Len(blocks)
      BY <2>1
    <3>2. Min(at) \in at
      <4> HIDE DEF at
      <4> QED  BY <3>1, MinNat
    <3>3. Min(at) \in 0..Len(blocks)
      BY <3>1, <3>2
    <3> HIDE DEF at
    <3> QED  BY <2>1, <3>3, SubSeqType
  <2>3. blocks' \in Seq(Block) /\ height' \in Nat
    BY <1>9, <2>1, <2>2, PathFacts DEF TruncateBlocks
  <2>4. TypeOK'
    BY <1>t, <1>9, <2>3 DEF TruncateBlocks, TypeOK, Phases, indexVars, ledgerVars, poolVars
  <2> QED
    BY <1>t, <1>9, <2>4 DEF TruncateBlocks, BaseInv, IndexIsClosed, WorkIsIndexed, indexVars
<1>10. CASE ApplyBlock
  <2> DEFINE b == Head(adding)
  <2>1. /\ b \in Block /\ b \in blockIndex /\ Number(b) \in Nat
        /\ Tail(adding) \in Seq(Block) /\ ToSet(Tail(adding)) \subseteq blockIndex
    BY <1>t, <1>10, WorkBlock DEF ApplyBlock, WorkIsIndexed
  <2>2. blockIndex' = blockIndex
    BY <1>10, <2>1 DEF ApplyBlock
  <2>3. bestBlock' = b /\ height' = Number(b) /\ blocks' = Append(blocks, b) /\ phase = "apply"
    BY <1>10 DEF ApplyBlock, AppendBlock
  <2>4. TypeOK'
    BY <1>t, <1>10, <2>1, <2>2, <2>3 DEF ApplyBlock, TypeOK, ledgerVars, poolVars
  <2> QED
    BY <1>t, <1>10, <2>1, <2>2, <2>3, <2>4 DEF ApplyBlock, BaseInv, IndexIsClosed, WorkIsIndexed
<1>11. CASE FinishReorganize
  <2>1. blockHistory' \in Seq(Block)
    BY <1>t, <1>c, <1>11, LastNType DEF FinishReorganize, RebuildHistory, TypeOK
  <2>2. TypeOK'
    BY <1>t, <1>11, <2>1 DEF FinishReorganize, TypeOK, Phases, chainVars, indexVars, ledgerVars, poolVars
  <2> QED
    BY <1>t, <1>11, <2>2 DEF FinishReorganize, BaseInv, IndexIsClosed, WorkIsIndexed, chainVars, indexVars
<1>12. ASSUME NEW t \in UserTx, CheckNonce(t) PROVE BaseInv'
  BY <1>t, <1>c, <1>12 DEF CheckNonce, BaseInv, TypeOK, IndexIsClosed, WorkIsIndexed,
      chainVars, indexVars, ledgerVars, callVars
<1>13. ASSUME NEW t \in UserTx, AddToPool(t) PROVE BaseInv'
  <2>1. transactions' \subseteq Tx /\ admitted' \subseteq Tx
    BY <1>t, <1>c, <1>13, PoolType DEF AddToPool, AddTransaction, TypeOK
  <2> QED
    BY <1>t, <1>13, <2>1 DEF AddToPool, BaseInv, TypeOK, IndexIsClosed, WorkIsIndexed,
        chainVars, indexVars, ledgerVars, callVars
<1>14. CASE UNCHANGED vars
  BY <1>t, <1>14 DEF BaseInv, TypeOK, IndexIsClosed, WorkIsIndexed,
      vars, chainVars, indexVars, ledgerVars, poolVars, callVars
<1> QED
  BY <1>1, <1>2, <1>3, <1>4, <1>5, <1>6, <1>7, <1>8, <1>9, <1>10, <1>11, <1>12, <1>13, <1>14
  DEF Next, AddBlockV2, CallStep

\* The type invariant holds, with any number of callers: no nonce is rolled
\* back below zero, and every block and output a step looks up is there.
THEOREM TypeCorrect == Spec => []TypeOK
<1>1. BaseInv => TypeOK
  BY DEF BaseInv
<1> QED  BY <1>1, InitBase, BaseStep, PTL DEF Spec

\* The index is closed under parents, with any number of callers.
THEOREM IndexCorrect == Spec => []BaseInv
  BY InitBase, BaseStep, PTL DEF Spec

-----------------------------------------------------------------------------
(* The window of timestamps *)

LEMMA LastNFacts ==
    ASSUME NEW s \in Seq(Block), NEW n \in Nat \ {0}
    PROVE  LET l == IF Len(s) <= n THEN Len(s) ELSE n
           IN  /\ Len(LastN(s, n)) = l
               /\ \A i \in 1..l : LastN(s, n)[i] = s[Len(s) - l + i]
<1> DEFINE m == Max({1, Len(s) - n + 1})
           l == IF Len(s) <= n THEN Len(s) ELSE n
<1>1. m = Len(s) - l + 1 /\ m \in Nat \ {0} /\ l \in Nat /\ Len(s) \in Nat
  <2>1. Len(s) \in Nat /\ 1 \in Int /\ Len(s) - n + 1 \in Int
    OBVIOUS
  <2>2. m = IF 1 >= Len(s) - n + 1 THEN 1 ELSE Len(s) - n + 1
    BY <2>1, MaxOfPair
  <2> HIDE DEF m
  <2> QED  BY <2>1, <2>2
<1>2. \A i \in m..Len(s) : s[i] \in Block
  BY <1>1
<1>3. /\ Len(SubSeq(s, m, Len(s))) = IF m <= Len(s) THEN Len(s) - m + 1 ELSE 0
      /\ \A i \in 1..(Len(s) - m + 1) : SubSeq(s, m, Len(s))[i] = s[m + i - 1]
  <2> DEFINE k == Len(s)
  <2> HIDE DEF m
  <2>1. m \in Int /\ k \in Int /\ \A i \in m..k : s[i] \in Block
    BY <1>1, <1>2
  <2> HIDE DEF k
  <2>2. /\ Len(SubSeq(s, m, k)) = IF m <= k THEN k - m + 1 ELSE 0
        /\ \A i \in 1..(k - m + 1) : SubSeq(s, m, k)[i] = s[m + i - 1]
    BY ONLY <2>1, SubSeqProperties
  <2> QED  BY <2>2 DEF k
<1>4. LastN(s, n) = SubSeq(s, m, Len(s))
  BY DEF LastN
<1> HIDE DEF m, l
<1>5. Len(LastN(s, n)) = l
  BY <1>1, <1>3, <1>4
<1>6. \A i \in 1..l : LastN(s, n)[i] = s[Len(s) - l + i]
  <2> TAKE i \in 1..l
  <2>1. i \in 1..(Len(s) - m + 1) /\ m + i - 1 = Len(s) - l + i
    BY <1>1
  <2> QED  BY <1>3, <1>4, <2>1
<1> QED  BY <1>5, <1>6 DEF l

\* The window of the window and a block is the window of the chain and the block.
LEMMA WindowOfAppend ==
    ASSUME NEW s \in Seq(Block), NEW b \in Block, NEW n \in Nat \ {0}
    PROVE  LastN(Append(LastN(s, n), b), n) = LastN(Append(s, b), n)
<1> DEFINE w == LastN(s, n)
           x == Append(w, b)
           y == Append(s, b)
<1>1. w \in Seq(Block)
  BY LastNType
<1>2. /\ Len(w) = IF Len(s) <= n THEN Len(s) ELSE n
      /\ \A i \in 1..Len(w) : w[i] = s[Len(s) - Len(w) + i]
  <2> DEFINE j == IF Len(s) <= n THEN Len(s) ELSE n
  <2>1. Len(w) = j /\ \A i \in 1..j : w[i] = s[Len(s) - j + i]
    BY LastNFacts
  <2> HIDE DEF w, j
  <2>2. Len(w) = j /\ \A i \in 1..Len(w) : w[i] = s[Len(s) - Len(w) + i]
    BY <2>1
  <2> QED  BY <2>2 DEF j
<1> HIDE DEF w
<1>3. /\ x \in Seq(Block) /\ Len(x) = Len(w) + 1 /\ x[Len(w) + 1] = b
      /\ \A i \in 1..Len(w) : x[i] = w[i]
      /\ y \in Seq(Block) /\ Len(y) = Len(s) + 1 /\ y[Len(s) + 1] = b
      /\ \A i \in 1..Len(s) : y[i] = s[i]
  BY <1>1
<1> HIDE DEF x, y
<1>4. \A i \in 1..Len(x) : x[i] = y[Len(y) - Len(x) + i]
  <2> TAKE i \in 1..Len(x)
  <2>0. Len(s) \in Nat /\ Len(w) \in Nat /\ Len(w) <= Len(s)
    BY <1>1, <1>2
  <2>1. CASE i = Len(w) + 1
    BY <1>3, <2>0, <2>1
  <2>2. CASE i # Len(w) + 1
    <3>1. i \in 1..Len(w) /\ Len(s) - Len(w) + i \in 1..Len(s)
      BY <1>3, <2>0, <2>2
    <3>2. Len(y) - Len(x) + i = Len(s) - Len(w) + i
      BY <1>3, <2>0, <3>1
    <3> QED  BY <1>2, <1>3, <3>1, <3>2
  <2> QED  BY <2>1, <2>2
<1> DEFINE l == IF Len(y) <= n THEN Len(y) ELSE n
<1>5. /\ Len(LastN(y, n)) = l /\ LastN(y, n) \in Seq(Block)
      /\ \A i \in 1..l : LastN(y, n)[i] = y[Len(y) - l + i]
  BY <1>3, LastNFacts, LastNType
<1> DEFINE k == IF Len(x) <= n THEN Len(x) ELSE n
<1>6. /\ Len(LastN(x, n)) = k /\ LastN(x, n) \in Seq(Block)
      /\ \A i \in 1..k : LastN(x, n)[i] = x[Len(x) - k + i]
  BY <1>3, LastNFacts, LastNType
<1>7. /\ k = l /\ k \in Nat /\ k <= Len(x) /\ Len(x) \in Nat /\ Len(y) \in Nat
      /\ Len(x) <= Len(y)
  BY <1>1, <1>2, <1>3
<1> HIDE DEF k, l
<1>8. \A i \in 1..l : LastN(x, n)[i] = LastN(y, n)[i]
  <2> TAKE i \in 1..l
  <2>1. /\ Len(x) - k + i \in 1..Len(x)
        /\ Len(y) - Len(x) + (Len(x) - k + i) = Len(y) - l + i
    BY <1>7
  <2>2. LastN(x, n)[i] = x[Len(x) - k + i] /\ LastN(y, n)[i] = y[Len(y) - l + i]
    BY <1>5, <1>6, <1>7
  <2> QED  BY <1>4, <2>1, <2>2
<1> QED  BY <1>5, <1>6, <1>7, <1>8, SeqEqual DEF x, y, w

LEMMA HistoryStep == BaseInv /\ HistoryInv /\ [Next]_vars => HistoryInv'
<1> SUFFICES ASSUME BaseInv, HistoryInv, [Next]_vars PROVE HistoryInv'
  OBVIOUS
<1>t. TypeOK /\ WorkIsIndexed /\ MaxHistory \in Nat \ {0}
  BY TxAssumption DEF BaseInv
<1>1. CASE FinishExtend
  <2> DEFINE b == Head(adding)
  <2>1. /\ phase = "extend" /\ failed' = failed /\ blocks' = Append(blocks, b)
        /\ blockHistory' = LastN(Append(blockHistory, b), MaxHistory)
    BY <1>1 DEF FinishExtend, AppendBlock, AddToHistory
  <2>2. b \in Block /\ blocks \in Seq(Block)
    <3>1. adding # <<>>
      BY <1>t, <1>1 DEF FinishExtend, WorkIsIndexed
    <3> QED  BY <1>t, <3>1, WorkBlock DEF TypeOK
  <2> HIDE DEF b
  <2> QED  BY <1>t, <2>1, <2>2, WindowOfAppend DEF HistoryInv
<1>2. CASE FinishReorganize
  BY <1>2 DEF FinishReorganize, RebuildHistory, HistoryInv, chainVars
<1>3. CASE RefuseTransaction
  BY <1>3 DEF RefuseTransaction, Processing, HistoryInv, chainVars
<1>4. CASE TruncateBlocks \/ ApplyBlock
  BY <1>4 DEF TruncateBlocks, ApplyBlock, HistoryInv
<1>5. ASSUME NEW b \in Block, ExtendBestBlock(b) PROVE HistoryInv'
  BY <1>5 DEF ExtendBestBlock, Accepts, CanTakeLock, HistoryInv, chainVars
<1>6. ASSUME NEW b \in Block, StoreForkBlock(b) PROVE HistoryInv'
  BY <1>6 DEF StoreForkBlock, HistoryInv, chainVars, callVars
<1>7. ASSUME NEW b \in Block, reorganizeChain(b) PROVE HistoryInv'
  BY <1>7 DEF reorganizeChain, HistoryInv
<1>8. CASE ProcessTransaction \/ RollbackTransaction \/ RollbackBlock
  BY <1>8 DEF ProcessTransaction, RollbackTransaction, RollbackBlock, HistoryInv, chainVars
<1>9. ASSUME NEW t \in UserTx, CheckNonce(t) \/ AddToPool(t) PROVE HistoryInv'
  BY <1>9 DEF CheckNonce, AddToPool, HistoryInv, chainVars, callVars
<1>10. CASE UNCHANGED vars
  BY <1>10 DEF vars, HistoryInv, chainVars, callVars
<1> QED
  BY <1>1, <1>2, <1>3, <1>4, <1>5, <1>6, <1>7, <1>8, <1>9, <1>10 DEF Next, AddBlockV2, CallStep

\* The timestamps that the next difficulty is computed from are those of the
\* last blocks of the main chain, with any number of callers.
THEOREM HistoryIsWindowHolds == Spec => []HistoryIsWindow
<1>1. Init => HistoryInv
  <2> SUFFICES ASSUME Init PROVE blockHistory = LastN(blocks, MaxHistory)
    BY DEF HistoryInv
  <2>1. <<Genesis>> \in Seq(Block) /\ MaxHistory \in Nat \ {0} /\ Len(<<Genesis>>) = 1
    BY PathGenesis, TxAssumption
  <2>2. LastN(<<Genesis>>, MaxHistory) = SubSeq(<<Genesis>>, 1, 1)
    BY <2>1, MaxOfPair DEF LastN
  <2>3. SubSeq(<<Genesis>>, 1, 1) = <<Genesis>>
    BY <2>1, SubSeqFull
  <2> QED  BY <2>2, <2>3 DEF Init
<1>2. HistoryInv => HistoryIsWindow
  BY DEF HistoryInv, HistoryIsWindow
<1> QED  BY <1>1, <1>2, InitBase, BaseStep, HistoryStep, PTL DEF Spec

-----------------------------------------------------------------------------
(* The mempool's limit *)

PoolInv == IsFiniteSet(transactions) /\ PoolIsBounded

LEMMA RemoveOne ==
    ASSUME NEW S, IsFiniteSet(S), NEW x
    PROVE  /\ IsFiniteSet(S \ {x}) /\ Cardinality(S \ {x}) \in Nat
           /\ Cardinality(S \ {x}) <= Cardinality(S)
           /\ x \in S => Cardinality(S \ {x}) = Cardinality(S) - 1
<1>1. /\ IsFiniteSet(S \ {x})
      /\ Cardinality(S \ {x}) = IF x \in S THEN Cardinality(S) - 1 ELSE Cardinality(S)
  BY FS_RemoveElement
<1>2. Cardinality(S) \in Nat /\ Cardinality(S \ {x}) \in Nat
  BY <1>1, FS_CardinalityType
<1> QED  BY <1>1, <1>2

LEMMA AfterAddIsBounded ==
    ASSUME NEW pool, IsFiniteSet(pool), Cardinality(pool) <= MaxSize,
           NEW t, NEW p \in AfterAdd(pool, t)
    PROVE  IsFiniteSet(p) /\ Cardinality(p) <= MaxSize
<1>1. MaxSize \in Nat \ {0} /\ Cardinality(pool) \in Nat
  BY MempoolAssumption, FS_CardinalityType
<1>2. ASSUME NEW q \in AfterSizeCheck(pool)
      PROVE  IsFiniteSet(q) /\ Cardinality(q) \in Nat /\ Cardinality(q) < MaxSize
  <2>1. CASE Cardinality(pool) >= MaxSize
    <3>1. PICK u \in pool : q = pool \ {u}
      BY <1>2, <2>1 DEF AfterSizeCheck, AtSizeLimit, RemoveLowestFee, LowestFee
    <3>2. IsFiniteSet(q) /\ Cardinality(q) \in Nat /\ Cardinality(q) = Cardinality(pool) - 1
      BY <3>1, RemoveOne
    <3> QED  BY <1>1, <3>2
  <2>2. CASE ~(Cardinality(pool) >= MaxSize)
    BY <1>1, <1>2, <2>2 DEF AfterSizeCheck, AtSizeLimit
  <2> QED  BY <2>1, <2>2
<1>3. ASSUME NEW q \in AfterSizeCheck(pool), NEW r, r \in AfterMemoryCheck(q, t)
      PROVE  IsFiniteSet(r) /\ Cardinality(r) \in Nat /\ Cardinality(r) < MaxSize
  <2>1. IsFiniteSet(q) /\ Cardinality(q) \in Nat /\ Cardinality(q) < MaxSize
    BY <1>2
  <2>2. r = q \/ \E u \in q : r = q \ {u}
    BY <1>3 DEF AfterMemoryCheck, RemoveLowestFee, LowestFee
  <2>3. ASSUME NEW u, r = q \ {u}
        PROVE  IsFiniteSet(r) /\ Cardinality(r) \in Nat /\ Cardinality(r) <= Cardinality(q)
    BY <2>1, <2>3, RemoveOne
  <2> QED  BY <1>1, <2>1, <2>2, <2>3
<1>4. \/ p = pool \/ p \in AfterSizeCheck(pool)
      \/ \E q \in AfterSizeCheck(pool) : \E r \in AfterMemoryCheck(q, t) : p = r \cup {t}
  BY DEF AfterAdd
<1>5. CASE p = pool
  BY <1>5
<1>6. CASE p \in AfterSizeCheck(pool)
  BY <1>1, <1>2, <1>6
<1>7. CASE \E q \in AfterSizeCheck(pool) : \E r \in AfterMemoryCheck(q, t) : p = r \cup {t}
  <2>0. PICK q \in AfterSizeCheck(pool) : \E r \in AfterMemoryCheck(q, t) : p = r \cup {t}
    BY <1>7
  <2>1. PICK r \in AfterMemoryCheck(q, t) : p = r \cup {t}
    BY <2>0
  <2>2. IsFiniteSet(r) /\ Cardinality(r) \in Nat /\ Cardinality(r) < MaxSize
    BY <1>3
  <2>3. /\ IsFiniteSet(r \cup {t})
        /\ Cardinality(r \cup {t}) = IF t \in r THEN Cardinality(r) ELSE Cardinality(r) + 1
    BY <2>2, FS_AddElement
  <2> QED  BY <1>1, <2>1, <2>2, <2>3
<1> QED  BY <1>4, <1>5, <1>6, <1>7

LEMMA PoolStep == PoolInv /\ [Next]_vars => PoolInv'
<1> SUFFICES ASSUME PoolInv, [Next]_vars PROVE PoolInv'
  OBVIOUS
<1>c. MaxSize \in Nat \ {0} /\ IsFiniteSet(transactions) /\ Cardinality(transactions) <= MaxSize
      /\ Cardinality(transactions) \in Nat
  BY MempoolAssumption, FS_CardinalityType DEF PoolInv, PoolIsBounded
<1>1. CASE ProcessTransaction
  <2>1. PICK t : transactions' = transactions \ {t}
    BY <1>1 DEF ProcessTransaction, RemoveTransaction
  <2>2. IsFiniteSet(transactions') /\ Cardinality(transactions') <= Cardinality(transactions)
        /\ Cardinality(transactions') \in Nat
    BY <1>c, <2>1, RemoveOne
  <2> QED  BY <1>c, <2>2 DEF PoolInv, PoolIsBounded
<1>2. ASSUME NEW t \in UserTx, AddToPool(t) PROVE PoolInv'
  BY <1>c, <1>2, AfterAddIsBounded DEF AddToPool, AddTransaction, PoolInv, PoolIsBounded
<1>3. CASE UNCHANGED transactions
  BY <1>3 DEF PoolInv, PoolIsBounded
<1> QED
  BY <1>1, <1>2, <1>3 DEF Next, AddBlockV2, CallStep, ExtendBestBlock, StoreForkBlock,
      RefuseTransaction, FinishExtend, reorganizeChain, RollbackTransaction, RollbackBlock,
      TruncateBlocks, ApplyBlock, FinishReorganize, CheckNonce, vars, poolVars

\* The mempool never holds more than maxSize transactions.
THEOREM PoolBounded == Spec => []PoolIsBounded
<1>1. Init => PoolInv
  BY FS_EmptySet, MempoolAssumption DEF Init, PoolInv, PoolIsBounded
<1>2. PoolInv => PoolIsBounded
  BY DEF PoolInv
<1> QED  BY <1>1, <1>2, PoolStep, PTL DEF Spec

-----------------------------------------------------------------------------
(* With one AddBlockV2 at a time.  With two callers what follows does not  *)
(* hold: a second call may run between the decision to reorganize and the  *)
(* reorganization (run chain_race).                                        *)

-----------------------------------------------------------------------------
(* Heights and forks *)

\* IsLonger compares heights, once the block is indexed.
LEMMA LongerIsHigher ==
    ASSUME BaseInv', NEW b \in Block, b \in blockIndex'
    PROVE  IsLonger(b)' <=> Number(b) > Number(bestBlock')
<1>1. /\ bestBlock' \in Block /\ bestBlock' \in blockIndex' /\ IndexIsClosed'
  BY DEF BaseInv, TypeOK, WorkIsIndexed
<1>2. ASSUME NEW c \in Block, c \in blockIndex'
      PROVE  calculateChainLength(blockIndex', c) = Len(Path[c])
  <2>1. /\ Path[c] \in Seq(Block) /\ Len(Path[c]) \in Nat \ {0}
        /\ Number(c) = Len(Path[c]) - 1
    <3>1. /\ Path[c] \in Seq(Block) /\ Len(Path[c]) \in Nat \ {0}
          /\ Number(c) \in Nat /\ Len(Path[c]) = Number(c) + 1
      BY <1>2, PathFacts
    <3> QED  BY <3>1
  <2>2. \A i \in 1..Len(Path[c]) : Path[c][i] \in blockIndex'
    BY <1>1, <1>2, <2>1, ToSetOfSeq DEF IndexIsClosed
  <2>3. Gaps(blockIndex', c) = {}
    BY <2>1, <2>2 DEF Gaps
  <2>4. WalkEnd(blockIndex', c) = 1
    BY <2>3 DEF WalkEnd
  <2> QED  BY <2>1, <2>4 DEF calculateChainLength
<1>3. calculateChainLength(blockIndex', b) = Len(Path[b]) /\ calculateChainLength(blockIndex', bestBlock') = Len(Path[bestBlock'])
  BY <1>1, <1>2
<1>4. Len(Path[b]) = Number(b) + 1 /\ Len(Path[bestBlock']) = Number(bestBlock') + 1
      /\ Number(b) \in Nat /\ Number(bestBlock') \in Nat
  BY <1>1, PathFacts
<1> QED  BY <1>3, <1>4 DEF IsLonger

\* A child of a block that forks at the tip forks at the tip, if the parent is
\* as high as the tip; so does a child of the tip.
LEMMA ChildForksAtTip ==
    ASSUME NEW best \in Block, NEW b \in Block, b # Genesis,
           ForksAtTip(Parent(b), best), Number(Parent(b)) >= Number(best)
    PROVE  ForksAtTip(b, best)
<1> DEFINE p == Parent(b)
           n == Number(best)
<1>1. p \in Block /\ Path[b] = Append(Path[p], b)
  BY ParentFacts
<1>2. Path[p] \in Seq(Block) /\ n \in Nat /\ n \in 0..Len(Path[p])
  BY <1>1, PathFacts
<1>3. SubSeq(Path[p], 1, n) = SubSeq(Path[best], 1, n)
  BY DEF ForksAtTip
<1>4. SubSeq(Path[b], 1, n) = SubSeq(Path[p], 1, n)
  <2> HIDE DEF n, p
  <2> QED  BY <1>1, <1>2, PrefixOfAppend
<1> QED  BY <1>3, <1>4 DEF ForksAtTip

\* A sibling of the tip forks at the tip.
LEMMA SiblingForksAtTip ==
    ASSUME NEW best \in Block, NEW b \in Block, b # Genesis,
           Parent(b) = Parent(best), Number(b) = Number(best)
    PROVE  ForksAtTip(b, best)
<1>1. Number(b) \in Nat \ {0} /\ Path[Parent(b)] = SubSeq(Path[b], 1, Number(b))
  BY ParentFacts
<1>2. best # Genesis
  BY <1>1, PathGenesis
<1>3. Path[Parent(best)] = SubSeq(Path[best], 1, Number(best))
  BY <1>2, ParentFacts
<1> QED  BY <1>1, <1>3 DEF ForksAtTip

LEMMA SelfForksAtTip == \A b \in Block : ForksAtTip(b, b)
  BY DEF ForksAtTip

\* A block lower than the tip does not count.
LEMMA LowerForksAtTip ==
    ASSUME NEW b \in Block, NEW c \in Block, Number(c) < Number(b)
    PROVE  ForksAtTip(c, b)
  BY PathFacts DEF ForksAtTip

\* When a higher block becomes the tip, everything that was not above the old
\* tip is below the new one.
LEMMA OutgrownByHigher ==
    ASSUME TypeOK, NEW best \in Block, NEW b \in Block, Number(b) > Number(best),
           Outgrown(best, {b})
    PROVE  Outgrown(b, {})
<1> SUFFICES ASSUME failed = {}, NEW c \in blockIndex
             PROVE  ForksAtTip(c, b) /\ Number(c) <= Number(b)
  BY DEF Outgrown
<1>1. c \in Block /\ Number(c) \in Nat /\ Number(b) \in Nat /\ Number(best) \in Nat
  BY PathFacts DEF TypeOK
<1>2. CASE c = b
  BY <1>1, <1>2, SelfForksAtTip
<1>3. CASE c # b
  <2>1. Number(c) <= Number(best)
    BY <1>3 DEF Outgrown
  <2> QED  BY <1>1, <2>1, LowerForksAtTip
<1> QED  BY <1>2, <1>3

-----------------------------------------------------------------------------
(* The invariant of a single caller *)

LEMMA InitSingle == Init => SingleInv
<1> SUFFICES ASSUME Init PROVE SingleInv
  OBVIOUS
<1>1. Genesis \in Block /\ Path[Genesis] = <<Genesis>> /\ Number(Genesis) = 0
  BY PathGenesis
<1>2. ForksAtTip(Genesis, Genesis)
  BY <1>1, SelfForksAtTip
<1>3. IdleInv
  BY <1>1, <1>2 DEF Init, IdleInv, Outgrown
<1> QED
  BY <1>1, <1>3 DEF Init, SingleInv, OneCall, ExtendInv, AdoptInv, MainChainInv, OneBlockRollback

\* A block that was accepted: where it is with respect to the tip.
LEMMA AcceptedHeight ==
    ASSUME BaseInv, SingleInv, ~Concurrent, NEW b \in Block, Accepts(b)
    PROVE  /\ phase = "idle" /\ reorgWaiting = {}
           /\ Outgrown(bestBlock, {})
           /\ failed = {} => ForksAtTip(b, bestBlock)
           /\ Parent(b) = bestBlock => Path[b] = Append(Path[bestBlock], b)
<1>1. phase = "idle" /\ reorgWaiting = {}
  BY DEF Accepts, CanTakeLock
<1>2. Outgrown(bestBlock, {})
  BY <1>1 DEF SingleInv, IdleInv
<1>3. /\ b # Genesis /\ Parent(b) \in blockIndex /\ Parent(b) = ExpectedParent(b)
      /\ bestBlock \in Block
  BY AcceptedBlock DEF BaseInv, TypeOK
<1>4. /\ Parent(b) \in Block /\ Path[b] = Append(Path[Parent(b)], b)
      /\ Number(Parent(b)) = Number(b) - 1 /\ Number(b) \in Nat \ {0}
  BY <1>3, ParentFacts
<1>5. ASSUME failed = {} PROVE ForksAtTip(b, bestBlock)
  <2>1. CASE Number(b) = Number(bestBlock)
    BY <1>3, <2>1, SiblingForksAtTip DEF ExpectedParent
  <2>2. CASE Number(b) < Number(bestBlock)
    BY <1>3, <2>2, LowerForksAtTip
  <2>3. CASE Number(b) > Number(bestBlock)
    <3>1. ForksAtTip(Parent(b), bestBlock)
      BY <1>2, <1>3, <1>5 DEF Outgrown
    <3>2. Number(Parent(b)) >= Number(bestBlock)
      BY <1>3, <1>4, <2>3, PathFacts
    <3> QED  BY <1>3, <3>1, <3>2, ChildForksAtTip
  <2> QED  BY <1>3, <1>4, <2>1, <2>2, <2>3, PathFacts
<1> QED  BY <1>1, <1>2, <1>4, <1>5

\* What reorganizeChain works out when it has the lock.
LEMMA ReorganizationFacts ==
    ASSUME BaseInv, NEW b \in blockIndex, Number(b) > Number(bestBlock)
    PROVE  LET c == findCommonParent(blockIndex, bestBlock, b)
               k == Len(BlocksAfter(c, b))
           IN  /\ c \in ToSet(Path[bestBlock])
               /\ k \in 1..(Len(Path[b]) - 1)
               /\ c = Path[b][Len(Path[b]) - k]
               /\ BlocksAfter(c, b) = SubSeq(Path[b], Len(Path[b]) - k + 1, Len(Path[b]))
               /\ ForksAtTip(b, bestBlock) => Len(BlocksAfter(c, bestBlock)) <= 1
<1> DEFINE c == findCommonParent(blockIndex, bestBlock, b)
<1>1. bestBlock \in blockIndex /\ bestBlock \in Block /\ b \in Block /\ blockIndex \subseteq Block
  BY DEF BaseInv, TypeOK, WorkIsIndexed
<1>2. /\ Path[b] \in Seq(Block) /\ Len(Path[b]) = Number(b) + 1 /\ Number(b) \in Nat
      /\ Path[bestBlock] \in Seq(Block) /\ Len(Path[bestBlock]) = Number(bestBlock) + 1
      /\ Number(bestBlock) \in Nat
  BY <1>1, PathFacts
<1>3. /\ Walk(blockIndex, b) = {Path[b][i] : i \in 1..Len(Path[b])}
      /\ Walk(blockIndex, bestBlock) = {Path[bestBlock][i] : i \in 1..Len(Path[bestBlock])}
  BY <1>1, WalkIsPath DEF BaseInv
<1>4. /\ c \in CommonParents(blockIndex, bestBlock, b)
      /\ \A d \in CommonParents(blockIndex, bestBlock, b) : Number(d) <= Number(c)
  BY <1>1, CommonParentExists DEF BaseInv
<1>5. PICK j \in 1..Len(Path[b]) : c = Path[b][j]
  BY <1>3, <1>4 DEF CommonParents
<1>6. PICK i \in 1..Len(Path[bestBlock]) : c = Path[bestBlock][i]
  BY <1>3, <1>4 DEF CommonParents
<1>7. Number(c) = j - 1 /\ Number(c) = i - 1
  BY <1>1, <1>5, <1>6, OnPath
<1>8. c \in ToSet(Path[bestBlock])
  BY <1>2, <1>6, ToSetOfSeq
<1>9. BlocksAfter(c, b) = SubSeq(Path[b], j + 1, Len(Path[b])) /\ j + 1 <= Len(Path[b])
  BY <1>2, <1>7 DEF BlocksAfter
<1>10. Len(BlocksAfter(c, b)) = Len(Path[b]) - j
  <2>1. j \in 0..Len(Path[b])
    OBVIOUS
  <2> QED  BY <1>2, <1>9, <2>1, SuffixLen
<1>11. ASSUME ForksAtTip(b, bestBlock) PROVE Len(BlocksAfter(c, bestBlock)) <= 1
  <2>1. i >= Number(bestBlock)
    <3>1. CASE Number(bestBlock) = 0
      BY <3>1
    <3>2. CASE Number(bestBlock) # 0
      <4> DEFINE n == Number(bestBlock)
      <4>1. SubSeq(Path[b], 1, n) = SubSeq(Path[bestBlock], 1, n)
        BY <1>2, <1>11 DEF ForksAtTip
      <4>2. n \in 1..Len(Path[b]) /\ n \in 1..Len(Path[bestBlock])
        BY <1>2, <3>2
      <4>3. Path[b][n] = Path[bestBlock][n]
        <5>1. n \in Nat /\ n <= Len(Path[b]) /\ n <= Len(Path[bestBlock]) /\ n \in 1..n
          BY <4>2
        <5> HIDE DEF n
        <5> QED  BY <1>1, <4>1, <5>1, SamePrefix
      <4>4. Path[b][n] \in CommonParents(blockIndex, bestBlock, b) /\ Number(Path[b][n]) = n - 1
        BY <1>1, <1>3, <4>2, <4>3, OnPath DEF CommonParents
      <4> QED  BY <1>2, <1>4, <1>7, <4>4
    <3> QED  BY <3>1, <3>2
  <2>2. BlocksAfter(c, bestBlock) = SubSeq(Path[bestBlock], i + 1, Len(Path[bestBlock]))
    BY <1>7 DEF BlocksAfter
  <2>3. Len(BlocksAfter(c, bestBlock)) = Len(Path[bestBlock]) - i
    <3>1. i \in 0..Len(Path[bestBlock])
      OBVIOUS
    <3> QED  BY <1>2, <2>2, <3>1, SuffixLen
  <2> QED  BY <1>2, <2>1, <2>3
<1> DEFINE k == Len(BlocksAfter(c, b))
<1>12. /\ k \in 1..(Len(Path[b]) - 1)
       /\ Len(Path[b]) - k = j /\ Len(Path[b]) - k + 1 = j + 1
  <2>1. Len(Path[b]) \in Nat /\ j \in 1..Len(Path[b]) /\ k = Len(Path[b]) - j /\ j + 1 <= Len(Path[b])
    BY <1>2, <1>9, <1>10
  <2> HIDE DEF k
  <2> QED  BY <2>1
<1> HIDE DEF c
<1>13. c = Path[b][Len(Path[b]) - k]
  BY <1>5, <1>12
<1>14. BlocksAfter(c, b) = SubSeq(Path[b], Len(Path[b]) - k + 1, Len(Path[b]))
  <2> HIDE DEF k
  <2> QED  BY <1>9, <1>12
<1> QED  BY <1>8, <1>11, <1>12, <1>13, <1>14 DEF c

\* How the variables of the invariant are left alone.
quietVars == <<blockIndex, blocks, height, bestBlock, reorgWaiting, phase, adding,
               commonParent, oldBest, failed>>

LEMMA QuietStep ==
    ASSUME SingleInv, TypeOK, TypeOK', UNCHANGED quietVars,
           removing' = removing \/ (phase = "rollback" /\ Len(removing') <= Len(removing))
    PROVE  SingleInv'
<1>1. UNCHANGED <<blockIndex, blocks, height, bestBlock, reorgWaiting, phase, adding,
                  commonParent, oldBest, failed>>
  BY DEF quietVars
<1>2. OneCall' /\ IdleInv' /\ ExtendInv' /\ MainChainInv'
  BY <1>1 DEF SingleInv, OneCall, IdleInv, ExtendInv, MainChainInv, Outgrown
<1>3. AdoptInv'
  BY <1>1 DEF SingleInv, AdoptInv, Outgrown
<1>4. OneBlockRollback'
  <2>1. Len(removing) \in Nat /\ Len(removing') \in Nat
    BY DEF TypeOK
  <2> QED  BY <1>1, <2>1 DEF SingleInv, OneBlockRollback
<1> QED  BY <1>2, <1>3, <1>4 DEF SingleInv

LEMMA SingleStep == IndInv /\ [Next]_vars /\ ~Concurrent => SingleInv'
<1> SUFFICES ASSUME IndInv, [Next]_vars, ~Concurrent PROVE SingleInv'
  OBVIOUS
<1>t. /\ BaseInv /\ SingleInv /\ TypeOK /\ IndexIsClosed /\ WorkIsIndexed
      /\ OneCall /\ IdleInv /\ ExtendInv /\ AdoptInv /\ MainChainInv /\ OneBlockRollback
  BY DEF IndInv, BaseInv, SingleInv
<1>p. BaseInv' /\ TypeOK'
  BY <1>t, BaseStep DEF BaseInv
<1>b. bestBlock \in Block /\ bestBlock \in blockIndex /\ oldBest \in Block /\ blockIndex \subseteq Block
  BY <1>t DEF TypeOK, WorkIsIndexed
<1>1. ASSUME NEW b \in Block, ExtendBestBlock(b) PROVE SingleInv'
  <2>1. Accepts(b) /\ Parent(b) = bestBlock
    BY <1>1 DEF ExtendBestBlock, IsFork
  <2>2. /\ phase = "idle" /\ reorgWaiting = {} /\ Outgrown(bestBlock, {})
        /\ failed = {} => ForksAtTip(b, bestBlock)
        /\ Path[b] = Append(Path[bestBlock], b)
    BY <1>t, <2>1, AcceptedHeight
  <2>3. /\ blockIndex' = blockIndex \cup {b} /\ phase' = "extend" /\ adding' = <<b>>
        /\ blocks' = blocks /\ height' = height /\ bestBlock' = bestBlock
        /\ reorgWaiting' = reorgWaiting /\ failed' = failed /\ oldBest' = bestBlock
    BY <1>1 DEF ExtendBestBlock, chainVars
  <2>4. Head(adding') = b
    BY <2>3
  <2>5. Outgrown(bestBlock, {b})'
    BY <2>2, <2>3 DEF Outgrown, ForksAtTip
  <2>6. ExtendInv'
    BY <2>2, <2>3, <2>4, <2>5 DEF ExtendInv, Outgrown
  <2>7. OneCall' /\ IdleInv' /\ AdoptInv' /\ OneBlockRollback' /\ MainChainInv'
    BY <1>t, <2>2, <2>3 DEF OneCall, IdleInv, AdoptInv, OneBlockRollback, MainChainInv
  <2> QED  BY <2>6, <2>7 DEF SingleInv
<1>2. ASSUME NEW b \in Block, StoreForkBlock(b) PROVE SingleInv'
  <2>1. Accepts(b)
    BY <1>2 DEF StoreForkBlock
  <2>2. /\ phase = "idle" /\ reorgWaiting = {} /\ Outgrown(bestBlock, {})
        /\ failed = {} => ForksAtTip(b, bestBlock)
    BY <1>t, <2>1, AcceptedHeight
  <2>3. /\ blockIndex' = blockIndex \cup {b} /\ phase' = phase /\ adding' = adding
        /\ blocks' = blocks /\ height' = height /\ bestBlock' = bestBlock /\ failed' = failed
        /\ reorgWaiting' = IF IsLonger(b)' THEN {b} ELSE {}
    BY <1>2, <2>2 DEF StoreForkBlock, chainVars, callVars
  <2>4. IsLonger(b)' <=> Number(b) > Number(bestBlock)
    BY <1>p, <2>3, LongerIsHigher
  <2>5. Number(b) \in Nat /\ Number(bestBlock) \in Nat
    BY <1>b, PathFacts
  <2>6. \A c \in reorgWaiting' : Number(c) > Number(bestBlock)
    BY <2>3, <2>4
  <2>7. b \notin reorgWaiting' => Number(b) <= Number(bestBlock)
    BY <2>3, <2>4, <2>5
  <2>8. Outgrown(bestBlock, reorgWaiting)'
    BY <2>2, <2>3, <2>7 DEF Outgrown, ForksAtTip
  <2>9. IdleInv'
    BY <2>3, <2>6, <2>8 DEF IdleInv, Outgrown
  <2>10. OneCall' /\ ExtendInv' /\ AdoptInv' /\ OneBlockRollback' /\ MainChainInv'
    BY <1>t, <2>2, <2>3 DEF OneCall, ExtendInv, AdoptInv, OneBlockRollback, MainChainInv
  <2> QED  BY <2>9, <2>10 DEF SingleInv
<1>3. CASE ProcessTransaction
  <2>1. UNCHANGED <<quietVars, removing>>
    BY <1>3 DEF ProcessTransaction, quietVars, chainVars, indexVars
  <2> QED  BY <1>t, <1>p, <2>1, QuietStep
<1>4. CASE RefuseTransaction
  <2>1. /\ phase \in {"extend", "apply"} /\ phase' = "idle" /\ failed' = failed \cup {phase}
        /\ reorgWaiting' = reorgWaiting /\ blockIndex' = blockIndex
        /\ blocks' = blocks /\ height' = height /\ bestBlock' = bestBlock
    BY <1>4 DEF RefuseTransaction, Processing, ReturnError, chainVars, indexVars
  <2>2. reorgWaiting = {} /\ failed' # {}
    BY <1>t, <2>1 DEF OneCall
  <2>3. IdleInv'
    BY <2>1, <2>2 DEF IdleInv, Outgrown
  <2>4. OneCall' /\ ExtendInv' /\ AdoptInv' /\ OneBlockRollback' /\ MainChainInv'
    BY <1>t, <2>1, <2>2 DEF OneCall, ExtendInv, AdoptInv, OneBlockRollback, MainChainInv
  <2> QED  BY <2>3, <2>4 DEF SingleInv
<1>5. CASE FinishExtend
  <2> DEFINE b == Head(adding)
  <2>1. /\ phase = "extend" /\ phase' = "idle" /\ failed' = failed
        /\ reorgWaiting' = reorgWaiting /\ blockIndex' = blockIndex
        /\ blocks' = Append(blocks, b) /\ height' = Number(b) /\ bestBlock' = b
    BY <1>5 DEF FinishExtend, AppendBlock, indexVars
  <2>2. /\ reorgWaiting = {} /\ Path[b] = Append(Path[bestBlock], b)
        /\ Outgrown(bestBlock, {b})
    BY <1>t, <2>1 DEF OneCall, ExtendInv
  <2>3. b \in Block
    BY <1>t, <2>1, WorkBlock DEF WorkIsIndexed
  <2>4. Number(b) = Number(bestBlock) + 1
    <3>1. Path[bestBlock] \in Seq(Block) /\ Len(Path[bestBlock]) = Number(bestBlock) + 1
          /\ Number(bestBlock) \in Nat /\ Len(Path[b]) = Number(b) + 1 /\ Number(b) \in Nat
      BY <1>b, <2>3, PathFacts
    <3>2. Len(Path[b]) = Len(Path[bestBlock]) + 1
      BY <2>2, <2>3, <3>1, AppendProperties
    <3> QED  BY <3>1, <3>2
  <2>5. Outgrown(b, {})
    <3>1. Number(b) > Number(bestBlock)
      BY <1>b, <2>4, PathFacts
    <3> HIDE DEF b
    <3> QED  BY <1>t, <1>b, <2>2, <2>3, <3>1, OutgrownByHigher
  <2>6. IdleInv'
    BY <2>1, <2>2, <2>5 DEF IdleInv, Outgrown
  <2>7. MainChainInv'
    BY <1>t, <2>1, <2>2 DEF MainChainInv
  <2>8. OneCall' /\ ExtendInv' /\ AdoptInv' /\ OneBlockRollback'
    BY <2>1, <2>2 DEF OneCall, ExtendInv, AdoptInv, OneBlockRollback
  <2> QED  BY <2>6, <2>7, <2>8 DEF SingleInv
<1>6. ASSUME NEW b \in Block, reorganizeChain(b) PROVE SingleInv'
  <2> DEFINE c == findCommonParent(blockIndex, bestBlock, b)
             k == Len(BlocksAfter(c, b))
  <2>1. /\ phase = "idle" /\ b \in reorgWaiting /\ b \in blockIndex
        /\ phase' = "rollback" /\ oldBest' = bestBlock /\ failed' = failed
        /\ reorgWaiting' = reorgWaiting \ {b} /\ blockIndex' = blockIndex
        /\ blocks' = blocks /\ height' = height /\ bestBlock' = bestBlock
        /\ commonParent' = c /\ adding' = BlocksAfter(c, b)
        /\ removing' = BlocksAfter(c, bestBlock)
    BY <1>t, <1>6 DEF reorganizeChain, CanTakeLock, WorkIsIndexed, chainVars, indexVars
  <2>2. /\ reorgWaiting = {b} /\ reorgWaiting' = {} /\ Number(b) > Number(bestBlock)
        /\ Outgrown(bestBlock, {b})
    <3>1. reorgWaiting = {b}
      BY <1>t, <2>1 DEF OneCall
    <3> QED  BY <1>t, <2>1, <3>1 DEF IdleInv
  <2>3. /\ c \in ToSet(Path[bestBlock]) /\ k \in 1..(Len(Path[b]) - 1)
        /\ c = Path[b][Len(Path[b]) - k]
        /\ BlocksAfter(c, b) = SubSeq(Path[b], Len(Path[b]) - k + 1, Len(Path[b]))
        /\ ForksAtTip(b, bestBlock) => Len(BlocksAfter(c, bestBlock)) <= 1
    BY <1>t, <2>1, <2>2, ReorganizationFacts
  <2> HIDE DEF c
  <2>4. OneBlockRollback'
    BY <2>1, <2>2, <2>3 DEF OneBlockRollback, Outgrown
  <2>5. /\ Len(adding') = k /\ Len(adding') < Len(Path[b]) /\ adding' # <<>>
    <3>1. adding' \in Seq(Block) /\ Len(adding') = k /\ Len(Path[b]) \in Nat
      BY <1>p, <2>1, PathFacts DEF TypeOK
    <3> QED  BY <2>3, <3>1
  <2>6. Outgrown(bestBlock, {b})'
    BY <2>1, <2>2 DEF Outgrown
  <2>7. /\ adding' = SubSeq(Path[b], Len(Path[b]) - Len(adding') + 1, Len(Path[b]))
        /\ commonParent' = Path[b][Len(Path[b]) - Len(adding')]
    <3>1. adding' = SubSeq(Path[b], Len(Path[b]) - k + 1, Len(Path[b])) /\ commonParent' = Path[b][Len(Path[b]) - k]
      BY <2>1, <2>3
    <3> HIDE DEF k
    <3> QED  BY <2>5, <3>1
  <2>8. AdoptInv'
    BY <2>1, <2>2, <2>3, <2>5, <2>6, <2>7 DEF AdoptInv, Outgrown
  <2>9. OneCall' /\ IdleInv' /\ ExtendInv' /\ MainChainInv'
    BY <1>t, <2>1, <2>2 DEF OneCall, IdleInv, ExtendInv, MainChainInv
  <2> QED  BY <2>4, <2>8, <2>9 DEF SingleInv
<1>7. CASE RollbackTransaction
  <2>1. UNCHANGED <<quietVars, removing>>
    BY <1>7 DEF RollbackTransaction, quietVars, chainVars, indexVars
  <2> QED  BY <1>t, <1>p, <2>1, QuietStep
<1>8. CASE RollbackBlock
  <2>1. /\ UNCHANGED quietVars /\ phase = "rollback"
        /\ removing # <<>> /\ removing' = Tail(removing)
    BY <1>8 DEF RollbackBlock, quietVars, chainVars, indexVars
  <2>2. Len(removing') <= Len(removing)
    BY <1>t, <2>1 DEF TypeOK
  <2> QED  BY <1>t, <1>p, <2>1, <2>2, QuietStep
<1>9. CASE TruncateBlocks
  <2>1. /\ phase = "rollback" /\ phase' = "apply" /\ failed' = failed
        /\ reorgWaiting' = reorgWaiting /\ blockIndex' = blockIndex
        /\ bestBlock' = bestBlock /\ oldBest' = oldBest /\ adding' = adding
    BY <1>9 DEF TruncateBlocks, indexVars
  <2>2. PICK b \in blockIndex :
            /\ Number(b) > Number(oldBest) /\ Len(adding) < Len(Path[b])
            /\ adding = SubSeq(Path[b], Len(Path[b]) - Len(adding) + 1, Len(Path[b]))
            /\ adding # <<>> /\ Outgrown(oldBest, {b}) /\ bestBlock = oldBest
            /\ commonParent = Path[b][Len(Path[b]) - Len(adding)]
            /\ commonParent \in ToSet(Path[oldBest])
    BY <1>t, <2>1 DEF AdoptInv
  <2> DEFINE m == Len(Path[b]) - Len(adding)
  <2>3. /\ b \in Block /\ Path[b] \in Seq(Block) /\ Len(Path[b]) \in Nat /\ Len(adding) \in Nat
        /\ Path[oldBest] \in Seq(Block) /\ commonParent \in Block
    <3>1. b \in Block /\ commonParent \in Block /\ adding \in Seq(Block)
      BY <1>t, <1>b DEF TypeOK
    <3>2. Path[b] \in Seq(Block) /\ Path[oldBest] \in Seq(Block)
      BY <1>b, <3>1, PathFacts
    <3> QED  BY <3>1, <3>2
  <2>4. m \in 1..Len(Path[b]) /\ m \in Nat
    BY <2>2, <2>3
  <2>5. Path[commonParent] = SubSeq(Path[b], 1, m) /\ Number(commonParent) = m - 1
    <3>1. commonParent = Path[b][m]
      BY <2>2
    <3> HIDE DEF m
    <3> QED  BY <2>3, <2>4, <3>1, OnPath
  <2>6. ASSUME "apply" \notin failed
        PROVE  blocks' = SubSeq(Path[b], 1, m) /\ height' = m - 1 /\ Len(blocks') = m
    <3>1. blocks = Path[oldBest]
      BY <1>t, <2>1, <2>2, <2>6 DEF MainChainInv
    <3> DEFINE at == {i \in DOMAIN blocks : blocks[i] = commonParent}
    <3>2. \A i \in at : i = m
      <4> TAKE i \in at
      <4>1. i \in 1..Len(Path[oldBest]) /\ commonParent = Path[oldBest][i]
        BY <2>3, <3>1
      <4>2. Number(commonParent) = i - 1
        BY <1>b, <4>1, OnPath
      <4> QED  BY <2>4, <2>5, <4>1, <4>2
    <3>3. at # {}
      <4>1. ToSet(Path[oldBest]) = {Path[oldBest][i] : i \in 1..Len(Path[oldBest])}
        BY <2>3, ToSetOfSeq
      <4>2. PICK i \in 1..Len(Path[oldBest]) : commonParent = Path[oldBest][i]
        BY <2>2, <4>1
      <4> QED  BY <2>3, <3>1, <4>2
    <3>4. at = {m} /\ m \in at
      BY <3>2, <3>3
    <3>5. Min(at) = m
      <4> HIDE DEF at, m
      <4>1. at \in SUBSET Nat
        BY <2>4, <3>4
      <4> QED  BY <3>3, <3>4, <4>1, MinNat
    <3>6. blocks' = SubSeq(blocks, 1, Min(at)) /\ height' = Number(commonParent)
      BY <1>9, <3>3 DEF TruncateBlocks
    <3>7. m \in 1..Len(Path[oldBest]) /\ commonParent = Path[oldBest][m]
      BY <2>3, <3>1, <3>4
    <3>8. Path[commonParent] = SubSeq(Path[oldBest], 1, m)
      <4> HIDE DEF m
      <4> QED  BY <1>b, <3>7, OnPath
    <3> HIDE DEF at, m
    <3>9. blocks' = SubSeq(Path[b], 1, m) /\ height' = m - 1
      BY <2>5, <3>1, <3>5, <3>6, <3>8
    <3>10. Len(SubSeq(Path[b], 1, m)) = m
      BY <2>3, <2>4
    <3> QED  BY <3>9, <3>10
  <2>7. AdoptInv'
    <3>1. Outgrown(oldBest, {b})'
      BY <2>1, <2>2 DEF Outgrown
    <3>2. "apply" \notin failed' =>
            /\ blocks' = SubSeq(Path[b], 1, Len(Path[b]) - Len(adding'))
            /\ height' = Len(blocks') - 1
      BY <2>1, <2>6
    <3> QED  BY <2>1, <2>2, <3>1, <3>2 DEF AdoptInv, Outgrown
  <2>8. OneCall' /\ IdleInv' /\ ExtendInv' /\ MainChainInv' /\ OneBlockRollback'
    BY <1>t, <2>1 DEF OneCall, IdleInv, ExtendInv, MainChainInv, OneBlockRollback
  <2> QED  BY <2>7, <2>8 DEF SingleInv
<1>10. CASE ApplyBlock
  <2> DEFINE h == Head(adding)
  <2>1. /\ phase = "apply" /\ phase' = "apply" /\ failed' = failed /\ adding # <<>>
        /\ reorgWaiting' = reorgWaiting /\ blockIndex' = blockIndex \cup {h}
        /\ bestBlock' = h /\ oldBest' = oldBest /\ adding' = Tail(adding)
        /\ blocks' = Append(blocks, h) /\ height' = Number(h)
    BY <1>10 DEF ApplyBlock, AppendBlock
  <2>2. PICK b \in blockIndex :
            /\ Number(b) > Number(oldBest) /\ Len(adding) < Len(Path[b])
            /\ adding = SubSeq(Path[b], Len(Path[b]) - Len(adding) + 1, Len(Path[b]))
            /\ Outgrown(oldBest, {b})
            /\ "apply" \notin failed =>
                  /\ blocks = SubSeq(Path[b], 1, Len(Path[b]) - Len(adding))
                  /\ height = Len(blocks) - 1
    BY <1>t, <2>1 DEF AdoptInv
  <2> DEFINE k == Len(adding)
  <2>3. /\ b \in Block /\ Path[b] \in Seq(Block) /\ Len(Path[b]) \in Nat
        /\ Path[b][Len(Path[b])] = b /\ k \in 1..Len(Path[b]) /\ h \in blockIndex
        /\ k < Len(Path[b])
    <3>1. adding \in Seq(Block) /\ k \in Nat \ {0}
      BY <1>t, <2>1 DEF TypeOK
    <3>2. h \in blockIndex
      BY <1>t, <2>1, WorkBlock DEF WorkIsIndexed
    <3>3. /\ b \in Block /\ Path[b] \in Seq(Block) /\ Len(Path[b]) \in Nat
          /\ Path[b][Len(Path[b])] = b
      BY <1>b, PathFacts
    <3>4. k < Len(Path[b])
      BY <2>2
    <3> HIDE DEF k, h
    <3> QED  BY <3>1, <3>2, <3>3, <3>4
  <2>4. /\ h = Path[b][Len(Path[b]) - k + 1]
        /\ Tail(adding) = SubSeq(Path[b], Len(Path[b]) - (k - 1) + 1, Len(Path[b]))
        /\ Len(Tail(adding)) = k - 1
        /\ Append(SubSeq(Path[b], 1, Len(Path[b]) - k), h) = SubSeq(Path[b], 1, Len(Path[b]) - (k - 1))
    <3> DEFINE r == SubSeq(Path[b], Len(Path[b]) - k + 1, Len(Path[b]))
    <3>1. /\ Head(r) = Path[b][Len(Path[b]) - k + 1]
          /\ Tail(r) = SubSeq(Path[b], Len(Path[b]) - (k - 1) + 1, Len(Path[b]))
          /\ Len(Tail(r)) = k - 1
          /\ Append(SubSeq(Path[b], 1, Len(Path[b]) - k), Head(r)) = SubSeq(Path[b], 1, Len(Path[b]) - (k - 1))
      <4> HIDE DEF k
      <4> QED  BY <2>3, TakeNext
    <3>2. adding = r
      BY <2>2
    <3> HIDE DEF r, k
    <3> QED  BY <3>1, <3>2
  <2>5. Len(adding') = k - 1 /\ blockIndex' = blockIndex /\ bestBlock' = h
    BY <2>1, <2>3, <2>4
  <2>6. adding' = <<>> => bestBlock' = b
    <3> SUFFICES ASSUME adding' = <<>> PROVE h = b
      BY <2>5
    <3>1. k - 1 = 0 /\ k \in Nat /\ Len(Path[b]) \in Nat
      BY <2>3, <2>5
    <3>2. Len(Path[b]) - k + 1 = Len(Path[b])
      <4> HIDE DEF k
      <4> QED  BY <3>1
    <3> HIDE DEF k, h
    <3> QED  BY <2>3, <2>4, <3>2
  <2>7. ASSUME "apply" \notin failed
        PROVE  /\ blocks' = SubSeq(Path[b], 1, Len(Path[b]) - Len(adding'))
               /\ height' = Len(blocks') - 1
    <3>1. blocks' = SubSeq(Path[b], 1, Len(Path[b]) - (k - 1))
      BY <2>1, <2>2, <2>4, <2>7
    <3>2. Len(Path[b]) - (k - 1) \in 1..Len(Path[b]) /\ Len(Path[b]) - k + 1 = Len(Path[b]) - (k - 1)
      BY <2>3
    <3>3. Len(blocks') = Len(Path[b]) - (k - 1)
      BY <2>3, <3>1, <3>2
    <3>4. Number(h) = Len(Path[b]) - (k - 1) - 1
      <4> DEFINE j == Len(Path[b]) - (k - 1)
      <4>1. j \in 1..Len(Path[b]) /\ h = Path[b][j]
        BY <2>4, <3>2
      <4>2. Number(h) = j - 1
        <5> HIDE DEF j, h
        <5> QED  BY <2>3, <4>1, OnPath
      <4> QED  BY <4>2
    <3> QED  BY <2>1, <2>5, <3>1, <3>3, <3>4
  <2>8. AdoptInv'
    <3>1. Outgrown(oldBest, {b})'
      BY <2>1, <2>2, <2>5 DEF Outgrown
    <3>2. /\ Len(adding') < Len(Path[b])
          /\ adding' = SubSeq(Path[b], Len(Path[b]) - Len(adding') + 1, Len(Path[b]))
      <4>1. adding' = Tail(adding)
        BY <2>1
      <4>2. Len(adding') = k - 1 /\ k - 1 < Len(Path[b])
        <5> HIDE DEF k, h
        <5> QED  BY <2>3, <2>5
      <4> HIDE DEF k, h
      <4> QED  BY <2>4, <4>1, <4>2
    <3>3. b \in blockIndex' /\ Number(b) > Number(oldBest')
      BY <2>1, <2>2, <2>5
    <3> HIDE DEF h, k
    <3> QED  BY <2>1, <2>6, <2>7, <3>1, <3>2, <3>3 DEF AdoptInv
  <2>9. OneCall' /\ IdleInv' /\ ExtendInv' /\ MainChainInv' /\ OneBlockRollback'
    BY <1>t, <2>1 DEF OneCall, IdleInv, ExtendInv, MainChainInv, OneBlockRollback
  <2> QED  BY <2>8, <2>9 DEF SingleInv
<1>11. CASE FinishReorganize
  <2>1. /\ phase = "apply" /\ phase' = "idle" /\ failed' = failed /\ adding = <<>>
        /\ reorgWaiting' = reorgWaiting /\ blockIndex' = blockIndex
        /\ bestBlock' = bestBlock /\ blocks' = blocks /\ height' = height
    BY <1>11 DEF FinishReorganize, chainVars, indexVars
  <2>2. PICK b \in blockIndex :
            /\ Number(b) > Number(oldBest) /\ bestBlock = b /\ Outgrown(oldBest, {b})
            /\ "apply" \notin failed =>
                  /\ blocks = SubSeq(Path[b], 1, Len(Path[b]) - Len(adding))
                  /\ height = Len(blocks) - 1
    BY <1>t, <2>1 DEF AdoptInv
  <2>3. /\ b \in Block /\ Path[b] \in Seq(Block) /\ Len(Path[b]) - Len(adding) = Len(Path[b])
        /\ Len(Path[b]) = Number(b) + 1 /\ Number(b) \in Nat
    BY <1>b, <2>1, PathFacts, EmptySeq
  <2>4. reorgWaiting = {}
    BY <1>t, <2>1 DEF OneCall
  <2>5. Outgrown(b, {})
    BY <1>t, <1>b, <2>2, <2>3, OutgrownByHigher
  <2>6. IdleInv'
    BY <2>1, <2>2, <2>4, <2>5 DEF IdleInv, Outgrown
  <2>7. MainChainInv'
    <3> SUFFICES ASSUME "apply" \notin failed PROVE blocks = Path[b] /\ height = Number(b)
      BY <2>1, <2>2 DEF MainChainInv
    <3>1. blocks = SubSeq(Path[b], 1, Len(Path[b])) /\ height = Len(blocks) - 1
      BY <2>2, <2>3
    <3>2. SubSeq(Path[b], 1, Len(Path[b])) = Path[b]
      BY <2>3, SubSeqFull
    <3> QED  BY <2>3, <3>1, <3>2
  <2>8. OneCall' /\ ExtendInv' /\ AdoptInv' /\ OneBlockRollback'
    BY <2>1, <2>4 DEF OneCall, ExtendInv, AdoptInv, OneBlockRollback
  <2> QED  BY <2>6, <2>7, <2>8 DEF SingleInv
<1>12. ASSUME NEW t \in UserTx, CheckNonce(t) PROVE SingleInv'
  <2>1. UNCHANGED <<quietVars, removing>>
    BY <1>12 DEF CheckNonce, quietVars, chainVars, indexVars, callVars
  <2> QED  BY <1>t, <1>p, <2>1, QuietStep
<1>13. ASSUME NEW t \in UserTx, AddToPool(t) PROVE SingleInv'
  <2>1. UNCHANGED <<quietVars, removing>>
    BY <1>13 DEF AddToPool, quietVars, chainVars, indexVars, callVars
  <2> QED  BY <1>t, <1>p, <2>1, QuietStep
<1>14. CASE UNCHANGED vars
  <2>1. UNCHANGED <<quietVars, removing>>
    BY <1>14 DEF vars, quietVars, chainVars, indexVars, callVars
  <2> QED  BY <1>t, <1>p, <2>1, QuietStep
<1> QED
  BY <1>1, <1>2, <1>3, <1>4, <1>5, <1>6, <1>7, <1>8, <1>9, <1>10, <1>11, <1>12, <1>13, <1>14
  DEF Next, AddBlockV2, CallStep

-----------------------------------------------------------------------------
(* The theorems *)

\* The inductive invariant: the index and the types with any number of callers,
\* the main chain and the reorganizations with one.
THEOREM IndInvHolds == Spec => []IndInv
<1>1. Init => IndInv
  BY InitBase, InitSingle DEF IndInv
<1>2. IndInv /\ [Next]_vars => IndInv'
  <2> SUFFICES ASSUME IndInv, [Next]_vars PROVE IndInv'
    OBVIOUS
  <2>1. BaseInv'
    BY BaseStep DEF IndInv
  <2>2. ~Concurrent => SingleInv'
    BY SingleStep
  <2> QED  BY <2>1, <2>2 DEF IndInv
<1> QED  BY <1>1, <1>2, PTL DEF Spec

\* With one caller at a time the main chain is the path of bestBlock between
\* calls, through extensions, forks, refused blocks and reorganizations.
THEOREM ChainIsPathHolds ==
    ASSUME ~Concurrent
    PROVE  Spec => []ChainIsPath
<1>1. IndInv => ChainIsPath
  BY DEF IndInv, SingleInv, MainChainInv, ChainIsPath
<1> QED  BY <1>1, IndInvHolds, PTL

\* With one caller at a time the tip is a longest indexed block, until a block
\* is refused.
THEOREM BestIsLongestHolds ==
    ASSUME ~Concurrent
    PROVE  Spec => []BestIsLongest
<1>1. IndInv => BestIsLongest
  BY DEF IndInv, SingleInv, IdleInv, Outgrown, BestIsLongest
<1> QED  BY <1>1, IndInvHolds, PTL

\* With one caller at a time a reorganization has at most one block to undo,
\* so the order of its rollback loop does not matter.
THEOREM OneBlockRollbackHolds ==
    ASSUME ~Concurrent
    PROVE  Spec => []OneBlockRollback
<1>1. IndInv => OneBlockRollback
  BY DEF IndInv, SingleInv
<1> QED  BY <1>1, IndInvHolds, PTL

\* With one caller at a time a reorganization that completes ends on a longer
\* chain; the run chain_race shows that it need not with several.
THEOREM ReorganizationsGrowHolds ==
    ASSUME ~Concurrent
    PROVE  Spec => ReorganizationsGrow
<1>1. IndInv /\ [Next]_vars
        => [phase = "apply" /\ adding = <<>> /\ phase' = "idle"
                => Number(bestBlock') > Number(oldBest)]_vars
  <2> SUFFICES ASSUME IndInv, [Next]_vars,
                      phase = "apply", adding = <<>>, phase' = "idle"
               PROVE  Number(bestBlock') > Number(oldBest)
    OBVIOUS
  <2>1. Number(bestBlock) > Number(oldBest)
    BY DEF IndInv, SingleInv, AdoptInv
  <2>2. bestBlock' = bestBlock
    BY DEF Next, AddBlockV2, CallStep, ExtendBestBlock, StoreForkBlock, Accepts, CanTakeLock,
       ProcessTransaction, RefuseTransaction, FinishExtend, reorganizeChain,
       RollbackTransaction, RollbackBlock, TruncateBlocks, ApplyBlock, FinishReorganize,
       CheckNonce, AddToPool, vars, chainVars
  <2> QED  BY <2>1, <2>2
<1> QED  BY <1>1, IndInvHolds, PTL DEF Spec, ReorganizationsGrow

-----------------------------------------------------------------------------
(* Refinement: with one caller at a time Blockchain implements LongestChain.  A block that
   enters the index is learnt, the end of an extension or of a reorganization adopts a
   chain, and every other step stutters. *)

absVars == <<blockIndex, mainChain, failed = {}>>

\* A refused block ends the abstract promise for good.
LEMMA AfterRefusal ==
    ASSUME failed # {}, failed \subseteq failed'
    PROVE  Abstract!Next
<1>1. (failed = {}) = FALSE /\ (failed' = {}) = FALSE
  OBVIOUS
<1> QED  BY <1>1 DEF Abstract!Next

\* An accepted block has its ancestors in the index.
LEMMA IndexedIsLearnt ==
    ASSUME BaseInv, NEW b \in Block, Accepts(b), failed = {}, failed' = failed,
           blockIndex' = blockIndex \cup {b}, mainChain' = mainChain
    PROVE  Abstract!Next
<1>1. b # Genesis /\ Parent(b) \in blockIndex /\ b \notin blockIndex
  BY AcceptedBlock DEF Accepts
<1>2. Front(Path[b]) = Path[Parent(b)]
  BY <1>1, ParentFacts, PathFacts DEF Front
<1>3. ToSet(Front(Path[b])) \subseteq blockIndex
  BY <1>1, <1>2 DEF BaseInv, IndexIsClosed
<1>4. Abstract!Learn(b)
  <2>1. Abstract!ToSet(Abstract!Front(Path[b])) = ToSet(Front(Path[b]))
    BY DEF Abstract!ToSet, Abstract!Front, ToSet, Front
  <2> QED  BY <1>1, <1>3, <2>1 DEF Abstract!Learn
<1> QED  BY <1>4 DEF Abstract!Next

LEMMA LongerIsAdopted ==
    ASSUME NEW b \in blockIndex, NEW best \in Block, b \in Block,
           failed = {}, failed' = failed, blockIndex' = blockIndex,
           mainChain = Path[best], mainChain' = Path[b],
           Number(b) > Number(best), ForksAtTip(b, best)
    PROVE  Abstract!Next
<1>1. /\ Len(Path[b]) = Number(b) + 1 /\ Len(Path[best]) = Number(best) + 1
      /\ Number(b) \in Nat /\ Number(best) \in Nat
  BY PathFacts
<1>2. Len(Path[b]) > Len(Path[best]) /\ Len(Path[best]) - 1 = Number(best)
  BY <1>1
<1>3. SubSeq(Path[b], 1, Number(best)) = SubSeq(Path[best], 1, Number(best))
  BY <1>1 DEF ForksAtTip
<1>4. SubSeq(Path[b], 1, Len(Path[best]) - 1) = Front(Path[best])
  BY <1>2, <1>3 DEF Front
<1>5. Abstract!Adopt(b)
  <2>1. Abstract!Front(Path[best]) = Front(Path[best])
    BY DEF Abstract!Front, Front
  <2> QED  BY <1>2, <1>4, <2>1 DEF Abstract!Adopt
<1> QED  BY <1>5 DEF Abstract!Next

LEMMA RefinementStep ==
    ASSUME ~Concurrent, IndInv, [Next]_vars
    PROVE  [Abstract!Next]_absVars
<1>t. /\ BaseInv /\ SingleInv /\ TypeOK /\ WorkIsIndexed
      /\ ExtendInv /\ AdoptInv /\ MainChainInv
  BY DEF IndInv, BaseInv, SingleInv
<1>b. bestBlock \in Block /\ oldBest \in Block /\ blockIndex \subseteq Block
  BY <1>t DEF TypeOK
<1>f. failed \subseteq failed'
  BY DEF Next, AddBlockV2, CallStep, ExtendBestBlock, StoreForkBlock, ProcessTransaction,
     RefuseTransaction, FinishExtend, reorganizeChain, RollbackTransaction, RollbackBlock,
     TruncateBlocks, ApplyBlock, FinishReorganize, CheckNonce, AddToPool, vars
<1> SUFFICES ASSUME failed = {} PROVE [Abstract!Next]_absVars
  BY <1>f, AfterRefusal
<1>s. ASSUME UNCHANGED <<blockIndex, failed>>, mainChain' = mainChain
      PROVE  [Abstract!Next]_absVars
  BY <1>s DEF absVars
<1>1. ASSUME NEW b \in Block, ExtendBestBlock(b) PROVE Abstract!Next
  <2>1. /\ Accepts(b) /\ failed' = failed /\ blockIndex' = blockIndex \cup {b}
        /\ phase = "idle" /\ phase' = "extend" /\ blocks' = blocks
    BY <1>1 DEF ExtendBestBlock, Accepts, CanTakeLock, chainVars
  <2>2. mainChain' = mainChain
    BY <2>1 DEF mainChain
  <2> QED  BY <1>t, <2>1, <2>2, IndexedIsLearnt
<1>2. ASSUME NEW b \in Block, StoreForkBlock(b) PROVE Abstract!Next
  <2>1. /\ Accepts(b) /\ failed' = failed /\ blockIndex' = blockIndex \cup {b}
        /\ phase = "idle" /\ phase' = phase /\ blocks' = blocks
    BY <1>2 DEF StoreForkBlock, Accepts, CanTakeLock, chainVars, callVars
  <2>2. mainChain' = mainChain
    BY <2>1 DEF mainChain
  <2> QED  BY <1>t, <2>1, <2>2, IndexedIsLearnt
<1>3. CASE RefuseTransaction
  <2>1. failed' # {}
    BY <1>3 DEF RefuseTransaction
  <2>2. (failed = {}) = TRUE /\ (failed' = {}) = FALSE
    BY <2>1
  <2> QED  BY <2>2 DEF Abstract!Next, Abstract!Refuse
<1>4. CASE FinishExtend
  <2> DEFINE b == Head(adding)
  <2>1. /\ phase = "extend" /\ phase' = "idle" /\ blocks' = Append(blocks, b)
        /\ failed' = failed /\ blockIndex' = blockIndex
    BY <1>4 DEF FinishExtend, AppendBlock, indexVars
  <2>2. b \in blockIndex /\ b \in Block
    <3>1. adding # <<>>
      BY <1>t, <1>4 DEF FinishExtend, WorkIsIndexed
    <3> QED  BY <1>t, <3>1, WorkBlock DEF WorkIsIndexed
  <2>3. blocks = Path[bestBlock]
    BY <1>t, <2>1 DEF MainChainInv
  <2>4. Path[b] = Append(Path[bestBlock], b) /\ ForksAtTip(b, bestBlock)
    BY <1>t, <2>1, <2>2 DEF ExtendInv, Outgrown
  <2>5. mainChain = Path[bestBlock] /\ mainChain' = Path[b]
    BY <2>1, <2>3, <2>4 DEF mainChain
  <2>6. Number(b) > Number(bestBlock)
    <3>1. Path[bestBlock] \in Seq(Block) /\ Len(Append(Path[bestBlock], b)) = Len(Path[bestBlock]) + 1
      BY <1>b, <2>2, PathFacts
    <3>2. /\ Len(Path[b]) = Number(b) + 1 /\ Len(Path[bestBlock]) = Number(bestBlock) + 1
          /\ Number(b) \in Nat /\ Number(bestBlock) \in Nat
      BY <1>b, <2>2, PathFacts
    <3> QED  BY <2>4, <3>1, <3>2
  <2> HIDE DEF b
  <2>7. Abstract!Next
    BY <1>b, <2>1, <2>2, <2>4, <2>5, <2>6, LongerIsAdopted
  <2> QED  BY <2>7
<1>5. ASSUME NEW b \in Block, reorganizeChain(b) PROVE [Abstract!Next]_absVars
  <2>1. /\ phase = "idle" /\ phase' = "rollback" /\ oldBest' = bestBlock
        /\ failed' = failed /\ blockIndex' = blockIndex
    BY <1>5 DEF reorganizeChain, CanTakeLock, indexVars
  <2>2. blocks = Path[bestBlock]
    BY <1>t, <2>1 DEF MainChainInv
  <2>3. mainChain = Path[bestBlock] /\ mainChain' = Path[bestBlock]
    BY <2>1, <2>2 DEF mainChain
  <2> QED  BY <1>s, <2>1, <2>3
<1>6. CASE RollbackTransaction \/ RollbackBlock \/ TruncateBlocks
  <2>1. /\ phase = "rollback" /\ phase' \in {"rollback", "apply"} /\ oldBest' = oldBest
        /\ failed' = failed /\ blockIndex' = blockIndex
    BY <1>6 DEF RollbackTransaction, RollbackBlock, TruncateBlocks, indexVars
  <2> QED  BY <1>s, <2>1 DEF mainChain
<1>7. CASE ApplyBlock
  <2>1. /\ phase = "apply" /\ phase' = "apply" /\ oldBest' = oldBest /\ adding # <<>>
        /\ failed' = failed /\ blockIndex' = blockIndex \cup {Head(adding)}
    BY <1>7 DEF ApplyBlock
  <2>2. Head(adding) \in blockIndex
    BY <1>t, <2>1, WorkBlock DEF WorkIsIndexed
  <2> QED  BY <1>s, <2>1, <2>2 DEF mainChain
<1>8. CASE FinishReorganize
  <2>1. /\ phase = "apply" /\ phase' = "idle" /\ adding = <<>>
        /\ failed' = failed /\ blockIndex' = blockIndex /\ blocks' = blocks
    BY <1>8 DEF FinishReorganize, chainVars, indexVars
  <2>2. PICK b \in blockIndex :
            /\ Number(b) > Number(oldBest) /\ Outgrown(oldBest, {b})
            /\ blocks = SubSeq(Path[b], 1, Len(Path[b]) - Len(adding))
    BY <1>t, <2>1 DEF AdoptInv
  <2>3. b \in Block /\ ForksAtTip(b, oldBest)
    BY <1>b, <2>2 DEF Outgrown
  <2>4. Path[b] \in Seq(Block) /\ Len(Path[b]) - Len(adding) = Len(Path[b])
    BY <2>1, <2>3, PathFacts, EmptySeq
  <2>5. blocks = Path[b]
    BY <2>2, <2>4, SubSeqFull
  <2>6. mainChain = Path[oldBest] /\ mainChain' = Path[b]
    BY <2>1, <2>5 DEF mainChain
  <2>7. Abstract!Next
    BY <1>b, <2>1, <2>2, <2>3, <2>6, LongerIsAdopted
  <2> QED  BY <2>7
<1>9. CASE ProcessTransaction
  <2>1. UNCHANGED <<phase, oldBest, blocks, blockIndex, failed>>
    BY <1>9 DEF ProcessTransaction, chainVars, indexVars
  <2> QED  BY <1>s, <2>1 DEF mainChain
<1>10. ASSUME NEW t \in UserTx, CheckNonce(t) \/ AddToPool(t) PROVE [Abstract!Next]_absVars
  <2>1. UNCHANGED <<phase, oldBest, blocks, blockIndex, failed>>
    BY <1>10 DEF CheckNonce, AddToPool, chainVars, indexVars, callVars
  <2> QED  BY <1>s, <2>1 DEF mainChain
<1>11. CASE UNCHANGED vars
  <2>1. UNCHANGED <<phase, oldBest, blocks, blockIndex, failed>>
    BY <1>11 DEF vars, chainVars, indexVars, callVars
  <2> QED  BY <1>s, <2>1 DEF mainChain
<1> QED
  BY <1>1, <1>2, <1>3, <1>4, <1>5, <1>6, <1>7, <1>8, <1>9, <1>10, <1>11
  DEF Next, AddBlockV2, CallStep

\* With one caller at a time the readers of the main chain see it behave as
\* LongestChain says, for every block tree and every content of the blocks.
THEOREM ImplementsLongestChainHolds ==
    ASSUME ~Concurrent
    PROVE  Spec => ImplementsLongestChain
<1>1. Init => Abstract!Init
  <2> SUFFICES ASSUME Init PROVE Abstract!Init
    OBVIOUS
  <2>1. blockIndex = {Genesis} /\ blocks = <<Genesis>> /\ phase = "idle" /\ failed = {}
    BY DEF Init
  <2>2. mainChain = <<Genesis>> /\ (failed = {}) = TRUE
    BY <2>1 DEF mainChain
  <2> QED  BY <2>1, <2>2 DEF Abstract!Init
<1>2. IndInv /\ [Next]_vars => [Abstract!Next]_(Abstract!vars)
  BY RefinementStep DEF absVars, Abstract!vars
<1> QED  BY <1>1, <1>2, IndInvHolds, PTL DEF Spec, ImplementsLongestChain, Abstract!Spec
=============================================================================
