--------------------------- MODULE StorageProofs ---------------------------
(***************************************************************************)
(* What a node finds on disk, whatever the block tree and the bounds:      *)
(*  - with any number of goroutines that store, errors and crashes, the    *)
(*    block that best_block names is there;                                *)
(*  - as long as only one goroutine stores at a time, no Put fails and no  *)
(*    crash cuts a reorganization's storing short, disk is the main chain  *)
(*    when nothing is left to store, a start loads a path and its ledger,  *)
(*    and a restart costs at most the last block.                          *)
(***************************************************************************)
EXTENDS Persistence, BlockTreeProofs

\* A new job begins before its first Put.
LEMMA StoreKeepsInv ==
    ASSUME StoringInv, NEW b, NEW queue, Store(b, queue), UNCHANGED diskVars
    PROVE  StoringInv'
<1>1. /\ DOMAIN storing' = {b} \cup DOMAIN storing
      /\ storing' = [c \in DOMAIN storing' |-> storing'[c]]
      /\ storing'[b] = Job(queue)
      /\ \A c \in DOMAIN storing \ {b} : storing'[c] = storing[c]
  BY DEF Store, Put
<1>2. JobsAreRecords'
  BY <1>1 DEF StoringInv, JobsAreRecords, Job
<1>3. PutsAreDone'
  <2> SUFFICES ASSUME NEW c \in DOMAIN storing'
               PROVE  LET d == Head(storing'[c].queue)
                      IN  /\ storing'[c].step # "hash" => d \in byHash
                          /\ storing'[c].step \in {"read", "best"} => Number(d) \in DOMAIN byNumber
    BY DEF PutsAreDone, diskVars
  <2>1. CASE c = b
    BY <2>1, <1>1 DEF Job
  <2>2. CASE c # b
    BY <2>2, <1>1 DEF StoringInv, PutsAreDone
  <2> QED BY <2>1, <2>2
<1>4. TipIsStored'
  BY DEF StoringInv, TipIsStored, diskVars
<1> QED BY <1>2, <1>3, <1>4 DEF StoringInv

\* Goroutine c goes on to its next block.
LEMMA NextBlockKeepsInv ==
    ASSUME StoringInv, NEW c \in DOMAIN storing, storing' = NextBlock(c),
           byHash' = byHash, byNumber' = byNumber
    PROVE  PutsAreDone' /\ JobsAreRecords'
<1>1. CASE Len(storing[c].queue) > 1
  <2>1. storing' = Put(storing, c, Job(Tail(storing[c].queue)))
    BY <1>1 DEF NextBlock
  <2>2. /\ DOMAIN storing' = DOMAIN storing
        /\ storing' = [d \in DOMAIN storing' |-> storing'[d]]
        /\ storing'[c] = Job(Tail(storing[c].queue))
        /\ \A d \in DOMAIN storing \ {c} : storing'[d] = storing[d]
    BY <2>1 DEF Put
  <2>3. JobsAreRecords'
    BY <2>2 DEF StoringInv, JobsAreRecords, Job
  <2>4. PutsAreDone'
    BY <2>2 DEF StoringInv, PutsAreDone, Job
  <2> QED BY <2>3, <2>4
<1>2. CASE ~(Len(storing[c].queue) > 1)
  <2>1. storing' = [d \in DOMAIN storing \ {c} |-> storing[d]]
    BY <1>2 DEF NextBlock, Restrict
  <2> QED BY <2>1 DEF StoringInv, JobsAreRecords, PutsAreDone
<1> QED BY <1>1, <1>2

\* Goroutine c goes on to the next step for its block, after what it put.
LEMMA StepKeepsInv ==
    ASSUME StoringInv, NEW c \in DOMAIN storing, NEW n, storing' = Step(c, n),
           storing[c].step # "best",
           byHash \subseteq byHash', DOMAIN byNumber \subseteq DOMAIN byNumber',
           storing[c].step = "hash" => Head(storing[c].queue) \in byHash',
           storing[c].step = "number" => Number(Head(storing[c].queue)) \in DOMAIN byNumber'
    PROVE  PutsAreDone' /\ JobsAreRecords'
<1>1. /\ DOMAIN storing' = DOMAIN storing
      /\ storing' = [d \in DOMAIN storing' |-> storing'[d]]
      /\ storing'[c] = [queue |-> storing[c].queue, step |-> NextStep(storing[c].step), seen |-> n]
      /\ \A d \in DOMAIN storing \ {c} : storing'[d] = storing[d]
  BY DEF Step, Put
<1>2. /\ storing'[c].queue = storing[c].queue
      /\ storing'[c].step = NextStep(storing[c].step)
      /\ storing'[c].seen = n
  BY <1>1
<1>3. storing[c].step \in {"hash", "number", "read"}
  BY DEF StoringInv, JobsAreRecords
<1>4. /\ storing[c].step = "hash" => storing'[c].step = "number"
      /\ storing[c].step = "number" => storing'[c].step = "read"
      /\ storing[c].step = "read" => storing'[c].step = "best"
  BY <1>2 DEF NextStep
<1>5. JobsAreRecords'
  <2>1. storing'[c] = [queue |-> storing'[c].queue, step |-> storing'[c].step,
                       seen |-> storing'[c].seen]
    BY <1>1, <1>2
  <2>2. storing'[c].step \in {"hash", "number", "read", "best"}
    BY <1>3, <1>4
  <2> QED BY <1>1, <2>1, <2>2 DEF StoringInv, JobsAreRecords
<1>6. PutsAreDone'
  <2> SUFFICES ASSUME NEW d \in DOMAIN storing'
               PROVE  LET b == Head(storing'[d].queue)
                      IN  /\ storing'[d].step # "hash" => b \in byHash'
                          /\ storing'[d].step \in {"read", "best"} => Number(b) \in DOMAIN byNumber'
    BY DEF PutsAreDone
  <2>1. CASE d = c
    BY <2>1, <1>2, <1>3, <1>4 DEF StoringInv, PutsAreDone
  <2>2. CASE d # c
    BY <2>2, <1>1 DEF StoringInv, PutsAreDone
  <2> QED BY <2>1, <2>2
<1> QED BY <1>5, <1>6

LEMMA StoreStepKeepsInv ==
    ASSUME StoringInv, NEW c \in DOMAIN storing,
           StoreStep(c) \/ PutFails(c) \/ GetFails(c)
    PROVE  StoringInv'
<1> DEFINE b == Head(storing[c].queue)
<1>1. CASE PutHash(c)
  <2>1. /\ byHash' = byHash \cup {b} /\ byNumber' = byNumber /\ best' = best
        /\ storing[c].step = "hash" /\ storing' = Step(c, 0)
    BY <1>1 DEF PutHash
  <2>2. PutsAreDone' /\ JobsAreRecords'
    BY <2>1, StepKeepsInv
  <2> QED BY <2>1, <2>2 DEF StoringInv, TipIsStored
<1>2. CASE PutNumber(c)
  <2>1. /\ byHash' = byHash /\ best' = best
        /\ DOMAIN byNumber' = DOMAIN byNumber \cup {Number(b)}
        /\ storing[c].step = "number" /\ storing' = Step(c, 0)
    BY <1>2 DEF PutNumber, ByNumber, Put
  <2>2. PutsAreDone' /\ JobsAreRecords'
    BY <2>1, StepKeepsInv
  <2> QED BY <2>1, <2>2 DEF StoringInv, TipIsStored
<1>3. CASE ReadBest(c) \/ GetFails(c)
  <2>1. /\ byHash' = byHash /\ byNumber' = byNumber /\ best' = best
        /\ storing[c].step = "read"
    BY <1>3 DEF ReadBest, GetFails, diskVars
  <2>2. PICK n : storing' = Step(c, n)
    BY <1>3 DEF ReadBest, GetFails
  <2>3. PutsAreDone' /\ JobsAreRecords'
    BY <2>1, <2>2, StepKeepsInv
  <2> QED BY <2>1, <2>3 DEF StoringInv, TipIsStored
<1>4. CASE PutBest(c)
  <2>1. /\ byHash' = byHash /\ byNumber' = byNumber /\ best' \in {b, best}
        /\ storing[c].step = "best" /\ storing' = NextBlock(c)
    BY <1>4 DEF PutBest
  <2>2. TipIsStored'
    BY <2>1 DEF StoringInv, TipIsStored, PutsAreDone
  <2> QED BY <2>1, <2>2, NextBlockKeepsInv DEF StoringInv
<1>5. CASE PutFails(c)
  <2>1. byHash' = byHash /\ byNumber' = byNumber /\ best' = best /\ storing' = NextBlock(c)
    BY <1>5 DEF PutFails, diskVars
  <2> QED BY <2>1, NextBlockKeepsInv DEF StoringInv, TipIsStored
<1> QED BY <1>1, <1>2, <1>3, <1>4, <1>5 DEF StoreStep

\* Extend and TakeFork touch the storing goroutines alone, and only by a new job.
LEMMA AddKeepsInv ==
    ASSUME StoringInv, NEW b, UNCHANGED diskVars, Extend(b) \/ TakeFork(b)
    PROVE  StoringInv'
<1>1. (\E queue : Store(b, queue)) \/ UNCHANGED storing
  BY DEF Extend, TakeFork
<1>2. CASE UNCHANGED storing
  BY <1>2 DEF StoringInv, TipIsStored, PutsAreDone, JobsAreRecords, diskVars
<1> QED BY <1>1, <1>2, StoreKeepsInv

THEOREM StoringInvHolds == Spec => []StoringInv
<1>1. Init => StoringInv
  BY DEF Init, StorageInit, StoringInv, TipIsStored, PutsAreDone, JobsAreRecords
<1>2. StoringInv /\ [Next]_vars => StoringInv'
  <2> SUFFICES ASSUME StoringInv, [Next]_vars
               PROVE  StoringInv'
    OBVIOUS
  <2> USE DEF StoringInv
  <2>1. CASE Start
    <3>1. UNCHANGED diskVars /\ (Store(Genesis, <<Genesis>>) \/ UNCHANGED storing)
      BY <2>1 DEF Start, StartFresh, StartHalfLoaded, StartLoaded, Store
    <3>2. CASE Store(Genesis, <<Genesis>>)
      BY <3>1, <3>2, StoreKeepsInv
    <3>3. CASE UNCHANGED storing
      BY <3>1, <3>3 DEF TipIsStored, PutsAreDone, JobsAreRecords, diskVars
    <3> QED BY <3>1, <3>2, <3>3
  <2>2. CASE Crash
    BY <2>2 DEF Crash, TipIsStored, PutsAreDone, JobsAreRecords, diskVars
  <2>3. ASSUME NEW b \in Block, AddToNothing(b) \/ AddBlock(b)
        PROVE  StoringInv'
    BY <2>3, AddKeepsInv DEF AddToNothing, AddBlock
  <2>4. ASSUME NEW b \in Block, FetchParent(b)
        PROVE  StoringInv'
    BY <2>4 DEF FetchParent, TipIsStored, PutsAreDone, JobsAreRecords, diskVars
  <2>5. ASSUME NEW f \in fetching, FinishFetch(f)
        PROVE  StoringInv'
    BY <2>5, AddKeepsInv DEF FinishFetch
  <2>6. ASSUME NEW f \in fetching, DropFetch(f)
        PROVE  StoringInv'
    BY <2>6 DEF DropFetch, TipIsStored, PutsAreDone, JobsAreRecords, diskVars
  <2>7. ASSUME NEW c \in DOMAIN storing, Storing(c) \/ StoringFails(c)
        PROVE  StoringInv'
    BY <2>7, StoreStepKeepsInv DEF Storing, StoringFails
  <2>8. CASE UNCHANGED vars
    BY <2>8 DEF vars, TipIsStored, PutsAreDone, JobsAreRecords, diskVars
  <2> QED BY <2>1, <2>2, <2>3, <2>4, <2>5, <2>6, <2>7, <2>8 DEF Next
<1> QED BY <1>1, <1>2, PTL DEF Spec

\* best_block names a block that GetBlockByHash finds, and GetBlockByNumber
\* finds some block at its height, with any number of storing goroutines.
THEOREM TipIsStoredHolds == Spec => []TipIsStored
<1>1. StoringInv => TipIsStored
  BY DEF StoringInv
<1> QED BY <1>1, StoringInvHolds, PTL

-----------------------------------------------------------------------------
(* Types *)

LEMMA NewJob ==
    ASSUME NEW queue \in Seq(Block), queue # <<>>
    PROVE  IsJob(Job(queue))
  BY DEF IsJob, Job

LEMMA StoreType ==
    ASSUME JobsTypeOK, NEW b \in Block, NEW queue \in Seq(Block), queue # <<>>, Store(b, queue)
    PROVE  JobsTypeOK'
<1>1. /\ DOMAIN storing' = DOMAIN storing \cup {b} /\ storing'[b] = Job(queue)
      /\ \A c \in DOMAIN storing \ {b} : storing'[c] = storing[c]
  BY DEF Store, Put
<1>2. IsJob(Job(queue))
  BY NewJob
<1> QED BY <1>1, <1>2 DEF JobsTypeOK, IsJob

LEMMA NextBlockType ==
    ASSUME JobsTypeOK, NEW c \in DOMAIN storing, storing' = NextBlock(c)
    PROVE  JobsTypeOK'
<1> DEFINE queue == storing[c].queue
<1>1. c \in Block /\ queue \in Seq(Block) /\ queue # <<>>
  BY DEF JobsTypeOK, IsJob
<1>2. CASE Len(queue) > 1
  <2>1. storing' = Put(storing, c, Job(Tail(queue)))
    BY <1>2 DEF NextBlock
  <2>2. Tail(queue) \in Seq(Block) /\ Tail(queue) # <<>>
    <3>1. Tail(queue) \in Seq(Block) /\ Len(Tail(queue)) = Len(queue) - 1 /\ Len(queue) \in Nat
      <4> HIDE DEF queue
      <4> QED BY <1>1, HeadTailProperties
    <3>2. Len(queue) > 1
      BY <1>2
    <3> DEFINE t == Tail(queue)
    <3> HIDE DEF queue, t
    <3>3. t \in Seq(Block) /\ Len(t) > 0
      BY <3>1, <3>2 DEF t
    <3>4. t # <<>>
      BY <3>3
    <3> QED BY <3>3, <3>4 DEF t
  <2> HIDE DEF queue
  <2>3. Store(c, Tail(queue))
    BY <2>1 DEF Store
  <2> QED BY <1>1, <2>2, <2>3, StoreType
<1>3. CASE ~(Len(queue) > 1)
  <2>1. storing' = [d \in DOMAIN storing \ {c} |-> storing[d]]
    BY <1>3 DEF NextBlock, Restrict
  <2> QED BY <2>1 DEF JobsTypeOK
<1> QED BY <1>2, <1>3

LEMMA StepType ==
    ASSUME JobsTypeOK, NEW c \in DOMAIN storing, NEW n \in Nat, storing' = Step(c, n),
           storing[c].step # "best"
    PROVE  JobsTypeOK'
<1> DEFINE j == [queue |-> storing[c].queue, step |-> NextStep(storing[c].step), seen |-> n]
<1>1. IsJob(j)
  BY DEF JobsTypeOK, IsJob, NextStep
<1> HIDE DEF j
<1>2. /\ DOMAIN storing' = DOMAIN storing \cup {c} /\ storing'[c] = j
      /\ \A d \in DOMAIN storing \ {c} : storing'[d] = storing[d]
  BY DEF Step, Put, j
<1> QED BY <1>1, <1>2 DEF JobsTypeOK, IsJob

LEMMA StoreStepType ==
    ASSUME DiskTypeOK, JobsTypeOK, NEW c \in DOMAIN storing,
           StoreStep(c) \/ PutFails(c) \/ GetFails(c)
    PROVE  DiskTypeOK' /\ JobsTypeOK'
<1> DEFINE b == Head(storing[c].queue)
<1>1. b \in Block /\ Number(b) \in Nat
  <2>1. b \in Block
    BY HeadTailProperties DEF JobsTypeOK, IsJob
  <2> QED BY <2>1, PathFacts
<1>2. CASE PutHash(c)
  <2>1. /\ byHash' = byHash \cup {b} /\ UNCHANGED <<byNumber, best>>
        /\ storing[c].step = "hash" /\ storing' = Step(c, 0)
    BY <1>2 DEF PutHash
  <2>2. JobsTypeOK'
    BY <2>1, StepType
  <2> QED BY <1>1, <2>1, <2>2 DEF DiskTypeOK
<1>3. CASE PutNumber(c)
  <2>1. /\ byNumber' = Put(byNumber, Number(b), b) /\ UNCHANGED <<byHash, best>>
        /\ storing[c].step = "number" /\ storing' = Step(c, 0)
    BY <1>3 DEF PutNumber, ByNumber
  <2>2. JobsTypeOK'
    BY <2>1, StepType
  <2> HIDE DEF b
  <2>3. /\ DOMAIN byNumber' = DOMAIN byNumber \cup {Number(b)} /\ byNumber'[Number(b)] = b
        /\ \A n \in DOMAIN byNumber \ {Number(b)} : byNumber'[n] = byNumber[n]
    <3>1. byNumber' = Put(byNumber, Number(b), b)
      BY <2>1
    <3> DEFINE n == Number(b)
    <3> HIDE DEF n
    <3>2. byNumber' = Put(byNumber, n, b)
      BY <3>1 DEF n
    <3>3. /\ DOMAIN byNumber' = DOMAIN byNumber \cup {n} /\ byNumber'[n] = b
          /\ \A k \in DOMAIN byNumber \ {n} : byNumber'[k] = byNumber[k]
      BY <3>2 DEF Put
    <3> QED BY <3>3 DEF n
  <2>4. IsFiniteSet(DOMAIN byNumber')
    BY <2>3, FS_AddElement DEF DiskTypeOK
  <2> QED BY <1>1, <2>1, <2>2, <2>3, <2>4 DEF DiskTypeOK
<1>4. CASE ReadBest(c) \/ GetFails(c)
  <2>1. UNCHANGED diskVars /\ storing[c].step = "read"
    BY <1>4 DEF ReadBest, GetFails
  <2>2. PICK n \in Nat : storing' = Step(c, n)
    BY <1>4, PathFacts DEF ReadBest, GetFails, DiskTypeOK
  <2>3. JobsTypeOK'
    BY <2>1, <2>2, StepType
  <2> QED BY <2>1, <2>3 DEF DiskTypeOK, diskVars
<1>5. CASE PutBest(c)
  <2>1. UNCHANGED <<byHash, byNumber>> /\ best' \in {b, best} /\ storing' = NextBlock(c)
    BY <1>5 DEF PutBest
  <2> QED BY <1>1, <2>1, NextBlockType DEF DiskTypeOK
<1>6. CASE PutFails(c)
  BY <1>6, NextBlockType DEF PutFails, DiskTypeOK, diskVars
<1> QED BY <1>2, <1>3, <1>4, <1>5, <1>6 DEF StoreStep

\* The part of the chain that stays when c becomes the fork point.
LEMMA CutType ==
    ASSUME MemoryTypeOK, NEW c
    PROVE  CutAfter(c) \in Seq(Block)
<1> DEFINE at == {i \in DOMAIN blocks : blocks[i] = c}
<1>1. blocks \in Seq(Block) /\ DOMAIN blocks = 1..Len(blocks) /\ Len(blocks) \in Nat
  BY DEF MemoryTypeOK
<1>2. CASE at = {}
  BY <1>1, <1>2 DEF CutAfter
<1>3. CASE at # {}
  <2>1. at \in SUBSET Nat /\ at \subseteq 1..Len(blocks)
    BY <1>1
  <2>2. Min(at) \in at
    <3> HIDE DEF at
    <3> QED BY <1>3, <2>1, MinNat
  <2>3. SubSeq(blocks, 1, Min(at)) \in Seq(Block)
    <3>1. Min(at) \in 0..Len(blocks)
      BY <1>1, <2>1, <2>2
    <3> HIDE DEF at
    <3> QED BY <1>1, <3>1, SubSeqType
  <2> QED BY <1>3, <2>3 DEF CutAfter
<1> QED BY <1>2, <1>3

LEMMA TakeForkType ==
    ASSUME JobsTypeOK, MemoryTypeOK, bestBlock # NoBlock, NEW b \in Block, TakeFork(b)
    PROVE  /\ JobsTypeOK'
           /\ blocks' \in Seq(Block) /\ bestBlock' \in Block
           /\ blockIndex' \subseteq Block /\ forkBlocks' \subseteq Block /\ applied' \subseteq Block
<1> DEFINE index  == blockIndex \cup {b}
           common == CommonParents(index, bestBlock, b)
           c      == findCommonParent(index, bestBlock, b)
           added  == BlocksAfter(c, b)
<1>1. bestBlock \in Block /\ blockIndex' \subseteq Block /\ forkBlocks' \subseteq Block
  BY DEF MemoryTypeOK, TakeFork
<1>2. CASE UNCHANGED <<blocks, bestBlock, applied, storing>>
  BY <1>1, <1>2 DEF JobsTypeOK, MemoryTypeOK
<1>3. CASE /\ common # {} /\ blocks' = CutAfter(c) \o added /\ bestBlock' = b
           /\ applied' = (applied \ ToSet(BlocksAfter(c, bestBlock))) \cup ToSet(added)
           /\ Store(b, Append(added, b))
  <2>1. c \in Block
    <3> HIDE DEF index
    <3> QED BY <1>1, <1>3, CommonParentOfWalks
  <2> HIDE DEF c
  <2>2. added \in Seq(Block) /\ ToSet(added) \subseteq Block
    <3>1. added \in Seq(Block)
      BY <2>1, BlocksAfterFacts
    <3> QED BY <3>1, ToSetOfSeq
  <2>3. CutAfter(c) \in Seq(Block)
    BY CutType
  <2> HIDE DEF added
  <2>4. blocks' \in Seq(Block)
    BY <1>3, <2>2, <2>3
  <2>5. Append(added, b) \in Seq(Block) /\ Append(added, b) # <<>>
    BY <2>2, AppendProperties
  <2>6. JobsTypeOK'
    BY <1>3, <2>5, StoreType
  <2> QED BY <1>1, <1>3, <2>2, <2>4, <2>6 DEF MemoryTypeOK
<1> QED BY <1>2, <1>3 DEF TakeFork

LEMMA ExtendType ==
    ASSUME JobsTypeOK, MemoryTypeOK, NEW b \in Block, Extend(b)
    PROVE  /\ JobsTypeOK'
           /\ blocks' \in Seq(Block) /\ bestBlock' \in Block
           /\ blockIndex' \subseteq Block /\ forkBlocks' \subseteq Block /\ applied' \subseteq Block
<1>1. <<b>> \in Seq(Block) /\ <<b>> # <<>>
  OBVIOUS
<1>2. JobsTypeOK'
  BY <1>1, StoreType DEF Extend
<1> QED BY <1>2, AppendProperties DEF Extend, MemoryTypeOK

\* loadChainFromStorage gets through the numbers below the first that is missing.
LEMMA LoadedFacts ==
    ASSUME DiskTypeOK, HasChain
    PROVE  \E m \in Nat :
              /\ LoadedNumbers = 0..(m - 1) /\ m <= Number(best) + 1
              /\ \A n \in 0..(m - 1) : n \in DOMAIN byNumber
              /\ LoadedBlocks = [i \in 1..m |-> byNumber[i - 1]]
              /\ LoadedBlocks \in Seq(Block) /\ Len(LoadedBlocks) = m
              /\ m <= Number(best) => m \notin DOMAIN byNumber
<1> DEFINE S == {m \in Nat : m <= Number(best) + 1 /\ \A k \in 0..(m - 1) : k \in DOMAIN byNumber}
           m == Max(S)
<1>1. best \in Block /\ Number(best) \in Nat
  BY PathFacts DEF DiskTypeOK, HasChain
<1>2. m \in S /\ \A n \in S : n <= m
  <2>1. 0 \in S /\ S \in SUBSET Nat /\ S # {}
    BY <1>1
  <2>2. Number(best) + 1 \in Nat /\ \A n \in S : n <= Number(best) + 1
    BY <1>1
  <2> HIDE DEF S
  <2> QED BY <2>1, <2>2, MaxNat
<1>3. m \in Nat /\ m <= Number(best) + 1 /\ \A n \in 0..(m - 1) : n \in DOMAIN byNumber
  BY <1>2
<1>4. \A n \in 0..Number(best) : (\A k \in 0..n : k \in DOMAIN byNumber) => n + 1 \in S
  BY <1>1
<1>5. m \notin S => FALSE
  BY <1>2
<1>6. \A n \in S : n <= m
  BY <1>2
<1> HIDE DEF S, m
<1>7. LoadedNumbers = 0..(m - 1)
  BY <1>1, <1>3, <1>4, <1>6 DEF LoadedNumbers, NumbersToLoad
<1>8. Cardinality(0..(m - 1)) = m
  <2>1. 0 \in Int /\ m - 1 \in Int
    BY <1>3
  <2>2. Cardinality(0..(m - 1)) = IF 0 > m - 1 THEN 0 ELSE (m - 1) - 0 + 1
    BY <2>1, FS_Interval
  <2> QED BY <1>3, <2>2
<1>9. LoadedBlocks = [i \in 1..m |-> byNumber[i - 1]]
  BY <1>7, <1>8 DEF LoadedBlocks
<1>10. \A i \in 1..m : i - 1 \in 0..(m - 1) /\ byNumber[i - 1] \in Block
  BY <1>3 DEF DiskTypeOK
<1>11. LoadedBlocks \in Seq(Block) /\ Len(LoadedBlocks) = m
  BY <1>3, <1>9, <1>10
<1>12. m <= Number(best) => m \notin DOMAIN byNumber
  <2> SUFFICES ASSUME m <= Number(best), m \in DOMAIN byNumber PROVE FALSE
    OBVIOUS
  <2>1. m \in 0..Number(best) /\ \A k \in 0..m : k \in DOMAIN byNumber
    BY <1>1, <1>3
  <2>2. m + 1 <= m
    BY <1>4, <1>6, <2>1
  <2> QED BY <1>3, <2>2
<1> QED BY <1>3, <1>7, <1>9, <1>11, <1>12

\* No call fetches while the process is down, or from an empty chain.
LEMMA TypeAndCalls == Spec => [](TypeOK /\ CallsInv)
<1>1. Init => TypeOK /\ CallsInv
  <2> SUFFICES ASSUME Init PROVE TypeOK /\ CallsInv
    OBVIOUS
  <2>1. DOMAIN byNumber = {} /\ DOMAIN storing = {} /\ <<>> \in Seq(Block)
    BY DEF Init, StorageInit
  <2>2. IsFiniteSet({}) /\ 0 \in 0..MaxFaults
    BY FS_EmptySet, BoundAssumption
  <2> QED BY <2>1, <2>2
    DEF Init, StorageInit, TypeOK, DiskTypeOK, JobsTypeOK, MemoryTypeOK, CallsInv
<1>2. TypeOK /\ CallsInv /\ [Next]_vars => TypeOK' /\ CallsInv'
  <2> SUFFICES ASSUME TypeOK, CallsInv, [Next]_vars PROVE TypeOK' /\ CallsInv'
    OBVIOUS
  <2>t. DiskTypeOK /\ JobsTypeOK /\ MemoryTypeOK
    BY DEF TypeOK
  <2>f. \A n : n \in 0..MaxFaults /\ n < MaxFaults => n + 1 \in 0..MaxFaults
    BY BoundAssumption
  <2>1. CASE Start
    <3>1. /\ UNCHANGED <<diskVars, fetching, historyVars>> /\ running' = TRUE /\ forkBlocks' = {}
          /\ fetching = {}
      BY <2>1 DEF Start, CallsInv
    <3>2. CASE StartFresh
      <4>1. <<Genesis>> \in Seq(Block) /\ <<Genesis>> # <<>> /\ Genesis \in Block
        BY PathGenesis
      <4>2. JobsTypeOK'
        BY <2>t, <3>2, <4>1, StoreType DEF StartFresh, Store
      <4> QED BY <2>t, <3>1, <3>2, <4>1, <4>2
        DEF StartFresh, TypeOK, DiskTypeOK, MemoryTypeOK, CallsInv, diskVars, historyVars
    <3>3. CASE HasChain /\ (StartHalfLoaded \/ StartLoaded)
      <4>1. LoadedBlocks \in Seq(Block) /\ ToSet(LoadedBlocks) \subseteq Block
        <5>1. LoadedBlocks \in Seq(Block)
          BY <2>t, <3>3, LoadedFacts
        <5> QED BY <5>1, ToSetOfSeq
      <4>2. best \in Block
        BY <2>t, <3>3 DEF HasChain, DiskTypeOK
      <4>3. blocks' \in Seq(Block) /\ bestBlock' \in Block \cup {NoBlock}
            /\ blockIndex' \subseteq Block /\ applied' \subseteq Block /\ UNCHANGED storing
        <5>1. <<>> \in Seq(Block)
          OBVIOUS
        <5> QED BY <3>3, <4>1, <4>2, <5>1 DEF StartHalfLoaded, StartLoaded
      <4> QED BY <2>t, <3>1, <4>3
        DEF TypeOK, DiskTypeOK, JobsTypeOK, MemoryTypeOK, CallsInv, diskVars, historyVars
    <3> QED BY <2>1, <3>2, <3>3 DEF Start
  <2>2. CASE Crash
    <3>1. /\ UNCHANGED <<diskVars, memoryVars>> /\ running' = FALSE /\ storing' = <<>>
          /\ fetching' = {} /\ faults' \in 0..MaxFaults /\ trouble' \subseteq Troubles
      BY <2>t, <2>f, <2>2 DEF Crash, MemoryTypeOK, Troubles
    <3>2. DOMAIN storing' = {}
      BY <3>1
    <3> QED BY <2>t, <3>1, <3>2
      DEF TypeOK, DiskTypeOK, JobsTypeOK, MemoryTypeOK, CallsInv, diskVars, memoryVars
  <2>3. ASSUME NEW b \in Block, AddToNothing(b) \/ AddBlock(b)
        PROVE  TypeOK' /\ CallsInv'
    <3>1. /\ UNCHANGED <<diskVars, running, fetching, faults>> /\ running
          /\ trouble' \subseteq Troubles
      BY <2>t, <2>3 DEF AddToNothing, AddBlock, NoteOverlap, IsCandidate, CanCall, MemoryTypeOK, Troubles
    <3>2. Extend(b) \/ (bestBlock # NoBlock /\ TakeFork(b))
      BY <2>3 DEF AddToNothing, AddBlock, IsCandidate
    <3>3. /\ JobsTypeOK' /\ blocks' \in Seq(Block) /\ bestBlock' \in Block
          /\ blockIndex' \subseteq Block /\ forkBlocks' \subseteq Block /\ applied' \subseteq Block
      BY <2>t, <3>2, ExtendType, TakeForkType
    <3>4. bestBlock' # NoBlock
      BY <3>3, NoBlockAssumption
    <3> QED BY <2>t, <3>1, <3>3, <3>4 DEF TypeOK, DiskTypeOK, MemoryTypeOK, CallsInv, diskVars
  <2>4. ASSUME NEW b \in Block, FetchParent(b)
        PROVE  TypeOK' /\ CallsInv'
    <3>1. /\ UNCHANGED <<diskVars, storing, memoryVars, running, historyVars>>
          /\ running /\ bestBlock # NoBlock /\ b # Genesis
          /\ fetching' = fetching \cup {[block |-> b, sameHeight |-> SameHeight(b)]}
      BY <2>4 DEF FetchParent, IsCandidate, CanCall
    <3>2. SameHeight(b) \in BOOLEAN
      BY DEF SameHeight
    <3> QED BY <2>t, <3>1, <3>2
      DEF TypeOK, DiskTypeOK, JobsTypeOK, MemoryTypeOK, CallsInv, diskVars, memoryVars, historyVars
  <2>5. ASSUME NEW f \in fetching, FinishFetch(f)
        PROVE  TypeOK' /\ CallsInv'
    <3>1. /\ UNCHANGED <<diskVars, running, faults>> /\ fetching' \subseteq fetching
          /\ trouble' \subseteq Troubles /\ f.block \in Block /\ running /\ bestBlock # NoBlock
      BY <2>t, <2>5 DEF FinishFetch, NoteOverlap, CallsInv, MemoryTypeOK, Troubles
    <3>2. Extend(f.block) \/ TakeFork(f.block)
      BY <2>5 DEF FinishFetch
    <3>3. /\ JobsTypeOK' /\ blocks' \in Seq(Block) /\ bestBlock' \in Block
          /\ blockIndex' \subseteq Block /\ forkBlocks' \subseteq Block /\ applied' \subseteq Block
      BY <2>t, <3>1, <3>2, ExtendType, TakeForkType
    <3>4. bestBlock' # NoBlock
      BY <3>3, NoBlockAssumption
    <3> QED BY <2>t, <3>1, <3>3, <3>4 DEF TypeOK, DiskTypeOK, MemoryTypeOK, CallsInv, diskVars
  <2>6. ASSUME NEW f \in fetching, DropFetch(f)
        PROVE  TypeOK' /\ CallsInv'
    BY <2>t, <2>6 DEF DropFetch, TypeOK, DiskTypeOK, JobsTypeOK, MemoryTypeOK, CallsInv, diskVars,
                      memoryVars, historyVars
  <2>7. ASSUME NEW c \in DOMAIN storing, Storing(c) \/ StoringFails(c)
        PROVE  TypeOK' /\ CallsInv'
    <3>1. DiskTypeOK' /\ JobsTypeOK'
      BY <2>t, <2>7, StoreStepType DEF Storing, StoringFails
    <3>2. /\ UNCHANGED <<memoryVars, running, fetching>>
          /\ faults' \in 0..MaxFaults /\ trouble' \subseteq Troubles
      BY <2>t, <2>f, <2>7 DEF Storing, StoringFails, historyVars, MemoryTypeOK, Troubles
    <3>3. running
      <4>1. storing # <<>>
        BY <2>7
      <4> QED BY <4>1 DEF CallsInv
    <3> QED BY <2>t, <3>1, <3>2, <3>3 DEF TypeOK, MemoryTypeOK, CallsInv, memoryVars
  <2>8. CASE UNCHANGED vars
    BY <2>t, <2>8 DEF vars, TypeOK, DiskTypeOK, JobsTypeOK, MemoryTypeOK, CallsInv, diskVars,
                      memoryVars, historyVars
  <2> QED BY <2>1, <2>2, <2>3, <2>4, <2>5, <2>6, <2>7, <2>8 DEF Next
<1> QED BY <1>1, <1>2, PTL DEF Spec

\* Every variable of a node with storage keeps its type, with any number of calls, of
\* storage errors and of crashes: no start loads anything but blocks, and no goroutine
\* is left without a block to store.
THEOREM PersistenceTypeCorrect == Spec => []TypeOK
<1> QED BY TypeAndCalls, PTL

-----------------------------------------------------------------------------
(* What is on disk *)

\* The chain in memory.
LEMMA ChainFacts ==
    ASSUME MemoryInv
    PROVE  /\ blocks \in Seq(Block) /\ Len(blocks) \in Nat \ {0}
           /\ Number(bestBlock) = Len(blocks) - 1 /\ bestBlock \in Block
           /\ blocks[1] = Genesis /\ blocks[Len(blocks)] = bestBlock
           /\ \A i \in 1..Len(blocks) : /\ blocks[i] \in Block /\ Number(blocks[i]) = i - 1
                                        /\ Path[blocks[i]] = SubSeq(blocks, 1, i)
<1>1. bestBlock \in Block /\ blocks = Path[bestBlock]
  BY DEF MemoryInv
<1> QED BY <1>1, PathFacts, OnPath

\* What is left to store of a reorganization from block m on: m is next, and the
\* new tip comes once more at the end.
LEMMA QueueFacts ==
    ASSUME NEW s \in Seq(Block), NEW e \in Block, NEW m \in 1..(Len(s) + 1)
    PROVE  LET q == SubSeq(Append(s, e), m, Len(s) + 1)
           IN  /\ q \in Seq(Block) /\ Len(q) = Len(s) + 2 - m
               /\ m <= Len(s) => Head(q) = s[m]
               /\ Tail(q) = SubSeq(Append(s, e), m + 1, Len(s) + 1)
               /\ m = Len(s) + 1 => q = <<e>>
<1> DEFINE a == Append(s, e)
           n == Len(s) + 1
<1>1. a \in Seq(Block) /\ Len(a) = n /\ a[n] = e /\ (\A i \in 1..Len(s) : a[i] = s[i])
      /\ n \in Nat \ {0} /\ Len(s) \in Nat
  BY AppendProperties
<1>2. m \in 1..Len(a) /\ n \in m..Len(a) /\ m <= n
  BY <1>1
<1> HIDE DEF a, n
<1>3. SubSeq(a, m, n) \in Seq(Block) /\ Len(SubSeq(a, m, n)) = n - m + 1
  <2>1. m \in Int /\ n \in Int /\ \A i \in m..n : a[i] \in Block
    BY <1>1, <1>2
  <2> QED BY <1>2, <2>1, SubSeqProperties
<1>4. Head(SubSeq(a, m, n)) = a[m] /\ Tail(SubSeq(a, m, n)) = SubSeq(a, m + 1, n)
  BY <1>1, <1>2, HeadTailOfSubSeq
<1>5. m = n => SubSeq(a, m, n) = <<e>>
  BY <1>1, <1>2, SubSeqOne
<1>6. n - m + 1 = Len(s) + 2 - m
  BY <1>1, <1>2 DEF n
<1>7. m <= Len(s) => a[m] = s[m]
  BY <1>1
<1> QED BY <1>3, <1>4, <1>5, <1>6, <1>7 DEF a, n

\* A queue of one block is the last one.
LEMMA LastInQueue ==
    ASSUME MemoryInv, NEW j, JobFits(j), ~(Len(j.queue) > 1)
    PROVE  j.queue = <<bestBlock>> /\ (LastToStore \/ AllStored)
<1>1. blocks \in Seq(Block) /\ bestBlock \in Block /\ Len(blocks) \in Nat \ {0}
  BY ChainFacts
<1>2. ASSUME NEW m \in 2..Len(blocks), j.queue = SubSeq(Append(blocks, bestBlock), m, Len(blocks) + 1)
      PROVE  FALSE
  <2>1. m \in 1..(Len(blocks) + 1)
    BY <1>1
  <2>2. Len(j.queue) = Len(blocks) + 2 - m
    BY <1>1, <1>2, <2>1, QueueFacts
  <2> QED BY <1>1, <2>2
<1> QED BY <1>2 DEF JobFits

\* Storing the first block of the queue by hash or number, or reading best_block, leaves
\* what is left to store.
LEMMA SameQueueFits ==
    ASSUME DiskTypeOK, StoringInv, MemoryInv, NEW c \in DOMAIN storing, JobFits(storing[c]),
           PutHash(c) \/ PutNumber(c) \/ ReadBest(c), UNCHANGED memoryVars
    PROVE  DOMAIN storing' = DOMAIN storing /\ JobFits(storing[c])'
<1> DEFINE j == storing[c]
           b == Head(j.queue)
<1>c. /\ blocks \in Seq(Block) /\ Len(blocks) \in Nat \ {0} /\ bestBlock \in Block
      /\ Number(bestBlock) = Len(blocks) - 1 /\ blocks[Len(blocks)] = bestBlock
      /\ \A i \in 1..Len(blocks) : Number(blocks[i]) = i - 1
  BY ChainFacts
<1>u. UNCHANGED <<blocks, bestBlock>>
  BY DEF memoryVars
<1>1. /\ DOMAIN storing' = DOMAIN storing /\ storing'[c].queue = j.queue
      /\ storing'[c].step = NextStep(j.step)
  BY DEF PutHash, PutNumber, ReadBest, Step, Put
<1>2. CASE PutHash(c)
  <2>1. UNCHANGED <<byNumber, best>> /\ storing'[c].step = "number"
    BY <1>1, <1>2 DEF PutHash, NextStep
  <2>2. /\ UNCHANGED TipNumber /\ LastToStore' = LastToStore /\ AllStored' = AllStored
        /\ \A m : StoredUpTo(m)' = StoredUpTo(m)
    BY <1>u, <2>1 DEF TipNumber, LastToStore, AllStored, StoredUpTo, Holds, NamesBlock
  <2> QED BY <1>1, <1>u, <2>1, <2>2 DEF JobFits
<1>3. CASE ReadBest(c)
  <2>1. /\ UNCHANGED <<byNumber, best>> /\ j.step = "read" /\ storing'[c].step = "best"
        /\ storing'[c].seen = IF best \in byHash THEN Number(best) ELSE 0
    BY <1>1, <1>3 DEF ReadBest, NextStep, diskVars, Step, Put
  <2>2. /\ UNCHANGED TipNumber /\ LastToStore' = LastToStore /\ AllStored' = AllStored
        /\ \A m : StoredUpTo(m)' = StoredUpTo(m)
    BY <1>u, <2>1 DEF TipNumber, LastToStore, AllStored, StoredUpTo, Holds, NamesBlock
  <2>3. storing'[c].seen = TipNumber
    BY <2>1, NoBlockAssumption DEF TipNumber, StoringInv, TipIsStored, DiskTypeOK
  <2> QED BY <1>1, <1>u, <2>1, <2>2, <2>3 DEF JobFits
<1>4. CASE PutNumber(c)
  <2>1. /\ UNCHANGED best /\ storing'[c].step = "read"
        /\ byNumber' = ByNumber(b)
    BY <1>1, <1>4 DEF PutNumber, NextStep
  <2>2. /\ DOMAIN byNumber' = DOMAIN byNumber \cup {Number(b)} /\ byNumber'[Number(b)] = b
        /\ \A n \in DOMAIN byNumber : n # Number(b) => byNumber'[n] = byNumber[n]
    BY <2>1 DEF ByNumber, Put
  <2>3. UNCHANGED TipNumber
    BY <2>1 DEF TipNumber
  <2>4. ASSUME NEW m \in Nat, m <= Number(b) + 1, Holds(blocks, m), Number(b) + 1 \in 1..Len(blocks),
               b = blocks[Number(b) + 1]
        PROVE  \A n \in 0..(m - 1) : n \in DOMAIN byNumber' /\ byNumber'[n] = blocks[n + 1]
    <3> TAKE n \in 0..(m - 1)
    <3>1. n \in DOMAIN byNumber /\ byNumber[n] = blocks[n + 1]
      BY <2>4 DEF Holds
    <3>2. n = Number(b) => n + 1 = Number(b) + 1
      OBVIOUS
    <3> HIDE DEF b
    <3> QED BY <2>2, <2>4, <3>1, <3>2
  <2>5. CASE j.queue = <<bestBlock>> /\ (LastToStore \/ AllStored)
    <3>1. b = bestBlock /\ Number(b) + 1 = Len(blocks)
      BY <1>c, <2>5
    <3>2. LastToStore => LastToStore'
      <4> SUFFICES ASSUME LastToStore PROVE LastToStore'
        OBVIOUS
      <4>1. Holds(blocks, Len(blocks) - 1)'
        <5> DEFINE m == Len(blocks) - 1
        <5>1. /\ m \in Nat /\ m <= Number(b) + 1 /\ Holds(blocks, m)
              /\ Number(b) + 1 \in 1..Len(blocks) /\ b = blocks[Number(b) + 1]
          BY <1>c, <3>1 DEF LastToStore
        <5> HIDE DEF m
        <5>2. \A n \in 0..(m - 1) : n \in DOMAIN byNumber' /\ byNumber'[n] = blocks[n + 1]
          BY <2>4, <5>1
        <5> QED BY <1>u, <5>2 DEF Holds, m
      <4> QED BY <1>u, <2>1, <4>1 DEF LastToStore, NamesBlock, Holds
    <3>3. AllStored => AllStored'
      <4> SUFFICES ASSUME AllStored PROVE AllStored'
        OBVIOUS
      <4>1. Holds(blocks, Len(blocks))'
        <5> DEFINE m == Len(blocks)
        <5>1. /\ m \in Nat /\ m <= Number(b) + 1 /\ Holds(blocks, m)
              /\ Number(b) + 1 \in 1..Len(blocks) /\ b = blocks[Number(b) + 1]
          BY <1>c, <3>1 DEF AllStored
        <5> HIDE DEF m
        <5>2. \A n \in 0..(m - 1) : n \in DOMAIN byNumber' /\ byNumber'[n] = blocks[n + 1]
          BY <2>4, <5>1
        <5> QED BY <1>u, <5>2 DEF Holds, m
      <4> QED BY <1>u, <2>1, <4>1 DEF AllStored, NamesBlock, Holds
    <3> QED BY <1>1, <1>u, <2>1, <2>2, <2>5, <3>1, <3>2, <3>3 DEF JobFits
  <2>6. ASSUME NEW m \in 2..Len(blocks), StoredUpTo(m),
               j.queue = SubSeq(Append(blocks, bestBlock), m, Len(blocks) + 1)
        PROVE  JobFits(storing[c])'
    <3>1. b = blocks[m] /\ Number(b) = m - 1 /\ m \in 1..Len(blocks)
      <4>1. m \in 1..(Len(blocks) + 1) /\ m <= Len(blocks) /\ m \in 1..Len(blocks)
        BY <1>c
      <4>2. b = blocks[m]
        BY <1>c, <2>6, <4>1, QueueFacts
      <4> QED BY <1>c, <4>1, <4>2
    <3>2. Holds(blocks, m - 1)'
      <4> DEFINE k == m - 1
      <4>1. /\ k \in Nat /\ k <= Number(b) + 1 /\ Holds(blocks, k)
            /\ Number(b) + 1 \in 1..Len(blocks) /\ b = blocks[Number(b) + 1]
        <5>1. Number(b) + 1 = m
          BY <1>c, <3>1
        <5> QED BY <1>c, <2>6, <3>1, <5>1 DEF StoredUpTo
      <4> HIDE DEF k
      <4>2. \A n \in 0..(k - 1) : n \in DOMAIN byNumber' /\ byNumber'[n] = blocks[n + 1]
        BY <2>4, <4>1
      <4> QED BY <1>u, <4>2 DEF Holds, k
    <3>3. StoredUpTo(m)'
      BY <1>u, <2>3, <2>6, <3>2 DEF StoredUpTo, Holds
    <3> HIDE DEF b
    <3>4. Head(storing'[c].queue) = b
      BY <1>1 DEF b
    <3> QED BY <1>1, <1>u, <2>1, <2>2, <2>6, <3>3, <3>4 DEF JobFits
  <2> QED BY <1>1, <2>5, <2>6 DEF JobFits
<1> QED BY <1>1, <1>2, <1>3, <1>4

\* Writing best_block leaves all stored after the last block, and one block less to
\* store otherwise.
LEMMA NextInQueueFits ==
    ASSUME DiskTypeOK, JobsTypeOK, StoringInv, MemoryInv, NEW c \in DOMAIN storing,
           DOMAIN storing = {c}, JobFits(storing[c]), PutBest(c), UNCHANGED memoryVars
    PROVE  \/ storing' = <<>> /\ AllStored'
           \/ DOMAIN storing' = {c} /\ JobFits(storing[c])'
<1> DEFINE j == storing[c]
           b == Head(j.queue)
           len == Len(blocks)
<1>c. /\ blocks \in Seq(Block) /\ len \in Nat \ {0} /\ bestBlock \in Block
      /\ Number(bestBlock) = len - 1 /\ blocks[len] = bestBlock
      /\ \A i \in 1..len : Number(blocks[i]) = i - 1
  BY ChainFacts
<1>u. UNCHANGED <<blocks, bestBlock, byNumber>>
  BY DEF memoryVars, PutBest
<1>1. /\ best' = (IF Number(b) > TipNumber THEN b ELSE best) /\ storing' = NextBlock(c)
      /\ Number(b) \in DOMAIN byNumber /\ byNumber[Number(b)] = b
  BY DEF PutBest, IsHigher, JobFits, StoringInv, PutsAreDone
<1>2. ASSUME NEW m \in 1..len, Holds(blocks, m - 1), b = blocks[m]
      PROVE  Holds(blocks, m)
  <2>1. Number(b) = m - 1
    BY <1>c, <1>2
  <2>2. \A n \in 0..(m - 1) : n \in 0..((m - 1) - 1) \/ n = m - 1
    OBVIOUS
  <2>3. (m - 1) + 1 = m
    OBVIOUS
  <2> QED BY <1>1, <1>2, <2>1, <2>2, <2>3 DEF Holds
<1>3. CASE j.queue = <<bestBlock>> /\ (LastToStore \/ AllStored)
  <2>1. b = bestBlock /\ Number(b) = len - 1
    BY <1>c, <1>3
  <2>2. storing' = <<>>
    <3>1. ~(Len(j.queue) > 1)
      BY <1>3
    <3>2. storing' = [d \in DOMAIN storing \ {c} |-> storing[d]]
      BY <1>1, <3>1 DEF NextBlock, Restrict
    <3>3. DOMAIN storing \ {c} = {}
      OBVIOUS
    <3> QED BY <3>2, <3>3
  <2>3. Holds(blocks, len)
    <3>1. AllStored => Holds(blocks, len)
      BY DEF AllStored
    <3>2. LastToStore => Holds(blocks, len - 1)
      BY DEF LastToStore
    <3>3. len \in 1..len /\ b = blocks[len]
      BY <1>c, <2>1
    <3> QED BY <1>2, <1>3, <3>1, <3>2, <3>3
  <2>4. IF len = 1 THEN best' = NoBlock ELSE best' = blocks[len]
    <3>1. CASE AllStored
      BY <1>1, <1>c, <2>1, <3>1 DEF AllStored, NamesBlock, TipNumber
    <3>2. CASE LastToStore /\ len = 1
      BY <1>1, <1>c, <2>1, <3>2 DEF LastToStore, TipNumber
    <3>3. CASE LastToStore /\ len = 2
      BY <1>1, <1>c, <2>1, <3>3 DEF LastToStore, NamesBlock, TipNumber
    <3>4. CASE LastToStore /\ len > 2
      <4>1. best = blocks[len - 1] /\ len - 1 \in 1..len
        BY <1>c, <3>4 DEF LastToStore, NamesBlock
      <4>2. TipNumber = len - 2 \/ TipNumber = 0
        BY <1>c, <4>1 DEF TipNumber
      <4>3. Number(b) > TipNumber
        BY <1>c, <2>1, <3>4, <4>2
      <4> QED BY <1>1, <1>c, <2>1, <3>4, <4>3
    <3>5. len \in Nat \ {0}
      BY <1>c
    <3> HIDE DEF len
    <3>6. len = 1 \/ len = 2 \/ len > 2
      BY <3>5
    <3> QED BY <1>3, <3>1, <3>2, <3>3, <3>4, <3>6
  <2>5. AllStored'
    BY <1>u, <2>3, <2>4 DEF AllStored, Holds, NamesBlock
  <2> QED BY <2>2, <2>5
<1>4. ASSUME NEW m \in 2..len, StoredUpTo(m), j.queue = SubSeq(Append(blocks, bestBlock), m, len + 1)
      PROVE  DOMAIN storing' = {c} /\ JobFits(storing[c])'
  <2>1. m \in 1..(len + 1) /\ m <= len /\ m \in 1..len
    BY <1>c
  <2>2. /\ Len(j.queue) = len + 2 - m /\ b = blocks[m]
        /\ Tail(j.queue) = SubSeq(Append(blocks, bestBlock), m + 1, len + 1)
    <3> DEFINE q == SubSeq(Append(blocks, bestBlock), m, len + 1)
    <3>1. /\ Len(q) = len + 2 - m /\ Head(q) = blocks[m]
          /\ Tail(q) = SubSeq(Append(blocks, bestBlock), m + 1, len + 1)
      BY <1>c, <2>1, QueueFacts
    <3>2. j.queue = q
      BY <1>4
    <3> HIDE DEF q, j
    <3> QED BY <3>1, <3>2
  <2>3. storing' = Put(storing, c, Job(Tail(j.queue)))
    <3>1. Len(j.queue) > 1
      BY <1>c, <2>1, <2>2
    <3> QED BY <1>1, <3>1 DEF NextBlock
  <2>4. /\ DOMAIN storing' = {c} /\ storing'[c].step = "hash"
        /\ storing'[c].queue = SubSeq(Append(blocks, bestBlock), m + 1, len + 1)
    BY <2>2, <2>3 DEF Put, Job
  <2>5. Number(b) = m - 1 /\ TipNumber \in (m - 2)..(len - 2) /\ Holds(blocks, m)
    BY <1>2, <1>4, <1>c, <2>1, <2>2 DEF StoredUpTo
  <2>6. CASE m = len
    <3>1. best' = bestBlock /\ Number(b) > TipNumber
      BY <1>1, <1>c, <2>2, <2>5, <2>6
    <3>2. AllStored'
      BY <1>c, <1>u, <2>5, <2>6, <3>1 DEF AllStored, Holds, NamesBlock
    <3>3. storing'[c].queue = <<bestBlock>>
      <4>1. len + 1 \in 1..(len + 1)
        BY <1>c
      <4>2. SubSeq(Append(blocks, bestBlock), len + 1, len + 1) = <<bestBlock>>
        BY <1>c, <4>1, QueueFacts
      <4> QED BY <2>4, <2>6, <4>2
    <3> QED BY <1>u, <2>4, <3>2, <3>3 DEF JobFits
  <2>7. CASE m < len
    <3>1. TipNumber' \in (m - 1)..(len - 2)
      <4>1. CASE Number(b) > TipNumber
        <5>1. best' = b /\ b \in Block
          BY <1>1, <1>c, <2>1, <2>2, <4>1
        <5> QED BY <1>c, <2>1, <2>5, <2>7, <5>1, NoBlockAssumption DEF TipNumber
      <4>2. CASE ~(Number(b) > TipNumber)
        <5>1. TipNumber' = TipNumber
          BY <1>1, <4>2 DEF TipNumber
        <5> QED BY <1>c, <2>1, <2>5, <4>2, <5>1
      <4> QED BY <4>1, <4>2
    <3>2. m + 1 \in 2..len /\ (m + 1) - 1 = m /\ (m + 1) - 2 = m - 1
      BY <1>c, <2>7
    <3>3. Number(bestBlock) - 1 = len - 2
      BY <1>c
    <3>4. StoredUpTo(m + 1)'
      BY <1>u, <2>5, <3>1, <3>2, <3>3 DEF StoredUpTo, Holds
    <3> QED BY <1>u, <2>4, <3>2, <3>4 DEF JobFits
  <2> QED BY <1>c, <2>6, <2>7
<1> QED BY <1>3, <1>4 DEF JobFits

\* A new job is the only one when nothing else was stored.
LEMMA OnlyJob ==
    ASSUME storing = <<>>, NEW b, NEW queue, Store(b, queue)
    PROVE  /\ DOMAIN storing' = {b} /\ storing' # <<>>
           /\ storing'[b].queue = queue /\ storing'[b].step = "hash"
  BY DEF Store, Put, Job

\* An extension of a stored chain leaves its last block to store.
LEMMA ExtendKeepsDisk ==
    ASSUME RunningInv, storing = <<>>, NEW b \in Block, b # Genesis, Parent(b) = bestBlock,
           Extend(b), UNCHANGED diskVars
    PROVE  RunningInv'
<1>1. MemoryInv /\ AllStored
  BY DEF RunningInv
<1>c. /\ blocks \in Seq(Block) /\ Len(blocks) \in Nat \ {0} /\ blocks = Path[bestBlock]
  BY <1>1, ChainFacts DEF MemoryInv
<1>2. /\ blocks' = Append(blocks, b) /\ bestBlock' = b /\ blockIndex' = blockIndex \cup {b}
      /\ applied' = applied \cup {b} /\ Store(b, <<b>>) /\ UNCHANGED <<byNumber, best>>
  BY DEF Extend, diskVars
<1>3. MemoryInv'
  <2>1. blocks' = Path[b]
    BY <1>c, <1>2, ParentFacts
  <2>2. ToSet(blocks') = ToSet(blocks) \cup {b}
    BY <1>c, <1>2, ToSetOfAppend
  <2> QED BY <1>1, <1>2, <2>1, <2>2 DEF MemoryInv
<1>4. /\ Len(blocks') = Len(blocks) + 1
      /\ \A n \in 1..Len(blocks) : blocks'[n] = blocks[n]
  BY <1>c, <1>2, AppendProperties
<1>5. Holds(blocks', Len(blocks)) /\ NamesBlock(blocks', Len(blocks))
  <2>1. \A n \in 0..(Len(blocks) - 1) : n + 1 \in 1..Len(blocks)
    BY <1>c
  <2>2. Len(blocks) \in 1..Len(blocks)
    BY <1>c
  <2> QED BY <1>1, <1>4, <2>1, <2>2 DEF AllStored, Holds, NamesBlock
<1>6. LastToStore'
  <2>1. Len(blocks') - 1 = Len(blocks) /\ Len(blocks') # 1
    BY <1>c, <1>4
  <2> QED BY <1>2, <1>5, <2>1 DEF LastToStore, Holds, NamesBlock
<1>7. /\ DOMAIN storing' = {b} /\ storing' # <<>>
      /\ storing'[b].queue = <<bestBlock'>> /\ storing'[b].step = "hash"
  BY <1>2, OnlyJob
<1>8. JobFits(storing[b])'
  BY <1>6, <1>7 DEF JobFits
<1> QED BY <1>3, <1>7, <1>8 DEF RunningInv

\* A reorganization of a stored chain has the blocks after the fork to store.
LEMMA TakeForkKeepsDisk ==
    ASSUME RunningInv, storing = <<>>, NEW b \in Block, TakeFork(b), UNCHANGED diskVars
    PROVE  RunningInv'
<1> DEFINE index  == blockIndex \cup {b}
           fork   == findCommonParent(index, bestBlock, b)
           longer == calculateChainLength(index, b) > calculateChainLength(index, bestBlock)
           common == CommonParents(index, bestBlock, b)
<1>1. MemoryInv /\ AllStored
  BY DEF RunningInv
<1>c. /\ blocks \in Seq(Block) /\ Len(blocks) \in Nat \ {0} /\ blocks = Path[bestBlock]
      /\ bestBlock \in Block /\ Number(bestBlock) = Len(blocks) - 1
      /\ blocks[Len(blocks)] = bestBlock /\ ToSet(blocks) \subseteq blockIndex
      /\ applied = ToSet(blocks)
      /\ \A i \in 1..Len(blocks) : /\ Number(blocks[i]) = i - 1 /\ blocks[i] \in Block
                                   /\ Path[blocks[i]] = SubSeq(blocks, 1, i)
  BY <1>1, ChainFacts DEF MemoryInv
<1>2. blockIndex' = index /\ UNCHANGED <<byNumber, best>>
  BY DEF TakeFork, diskVars
<1>3. CASE UNCHANGED <<blocks, bestBlock, applied, storing>>
  <2>1. MemoryInv'
    BY <1>1, <1>2, <1>3 DEF MemoryInv
  <2>2. AllStored'
    BY <1>1, <1>2, <1>3 DEF AllStored, Holds, NamesBlock
  <2> QED BY <1>3, <2>1, <2>2 DEF RunningInv
<1>4. CASE /\ longer /\ common # {}
           /\ blocks' = CutAfter(fork) \o BlocksAfter(fork, b) /\ bestBlock' = b
           /\ applied' = (applied \ ToSet(BlocksAfter(fork, bestBlock))) \cup ToSet(BlocksAfter(fork, b))
           /\ Store(b, Append(BlocksAfter(fork, b), b))
  <2>1. PICK c \in Block :
        /\ c = fork
        /\ Number(c) + 1 \in 1..Len(blocks) /\ blocks[Number(c) + 1] = c
        /\ Number(c) + 1 \in 1..Len(Path[b]) /\ Path[b][Number(c) + 1] = c
        /\ Number(c) <= Number(bestBlock) /\ Number(bestBlock) < Number(b)
        /\ ToSet(Path[b]) \subseteq index
        /\ (applied \ ToSet(BlocksAfter(c, bestBlock))) \cup ToSet(BlocksAfter(c, b)) = ToSet(Path[b])
    <3>1. b \in index /\ ToSet(Path[bestBlock]) \subseteq index
      BY <1>c
    <3> HIDE DEF index
    <3> QED BY <1>c, <1>4, <3>1, LongerBranch
  <2> DEFINE added == BlocksAfter(c, b)
             m     == Number(c) + 2
             len   == Len(Path[b])
  <2>a. /\ blocks' = CutAfter(c) \o added /\ bestBlock' = b
        /\ applied' = (applied \ ToSet(BlocksAfter(c, bestBlock))) \cup ToSet(added)
        /\ Store(b, Append(added, b))
    BY <1>4, <2>1
  <2> HIDE DEF fork
  <2>n. /\ Number(c) \in Nat /\ Number(b) \in Nat /\ len = Number(b) + 1
        /\ Number(c) < Number(b) /\ Number(c) + 1 <= Len(blocks)
    <3>1. Number(c) \in Nat /\ Number(b) \in Nat /\ len = Number(b) + 1
      BY <2>1, PathFacts
    <3>2. Number(bestBlock) \in Nat /\ Len(blocks) \in Nat /\ Number(bestBlock) = Len(blocks) - 1
      BY <1>c
    <3> HIDE DEF len
    <3> QED BY <2>1, <3>1, <3>2
  <2>2. CutAfter(c) = Path[c]
    <3> DEFINE i  == Number(c) + 1
               at == {k \in DOMAIN blocks : blocks[k] = c}
    <3>1. i \in 1..Len(blocks) /\ DOMAIN blocks = 1..Len(blocks)
      BY <1>c, <2>1
    <3>2. \A k \in 1..Len(blocks) : blocks[k] = c => k = i
      BY <1>c
    <3>3. at = {i}
      BY <2>1, <3>1, <3>2
    <3>4. Min({i}) = i
      <4> HIDE DEF i
      <4>1. {i} \in SUBSET Nat /\ {i} # {}
        BY <3>1
      <4> QED BY <4>1, MinNat
    <3>5. CutAfter(c) = SubSeq(blocks, 1, i)
      <4> HIDE DEF i
      <4> QED BY <3>3, <3>4 DEF CutAfter
    <3> QED BY <1>c, <2>1, <3>5
  <2>3. blocks' = Path[b]
    BY <2>1, <2>2, <2>a, PathSplit
  <2>4. MemoryInv'
    BY <1>2, <2>1, <2>3, <2>a DEF MemoryInv
  <2>5. /\ Path[b] \in Seq(Block) /\ len \in Nat \ {0} /\ Number(b) = len - 1
        /\ m \in 2..len /\ m - 1 = Number(c) + 1
    <3>1. Path[b] \in Seq(Block)
      BY PathFacts
    <3> QED BY <2>n, <3>1
  <2>6. Append(added, b) = SubSeq(Append(Path[b], b), m, len + 1)
    <3>1. added = SubSeq(Path[b], m, len)
      BY DEF BlocksAfter
    <3>2. Append(Path[b], b) \in Seq(Block) /\ Len(Append(Path[b], b)) = len + 1
          /\ Append(Path[b], b)[len + 1] = b
      BY <2>5, AppendProperties
    <3>3. m \in 1..(len + 1) /\ len + 1 \in m..(len + 1) /\ (len + 1) - 1 = len /\ m <= len
      BY <2>5
    <3>4. SubSeq(Append(Path[b], b), m, len + 1) = SubSeq(Append(Path[b], b), m, len) \o <<b>>
      <4> DEFINE s == Append(Path[b], b)
                 n == len + 1
      <4>1. s \in Seq(Block) /\ m \in 1..Len(s) /\ n \in m..Len(s) /\ s[n] = b /\ n - 1 = len
        BY <3>2, <3>3
      <4> HIDE DEF s, n, m, len
      <4>2. SubSeq(s, m, n) = SubSeq(s, m, n - 1) \o <<s[n]>>
        BY <4>1, SubSeqRecursiveSecond
      <4> QED BY <4>1, <4>2 DEF s, n
    <3>5. SubSeq(Append(Path[b], b), m, len) = SubSeq(Path[b], m, len)
      <4>1. \A k \in 1..len : Append(Path[b], b)[k] = Path[b][k]
        BY <2>5, AppendProperties
      <4>2. \A k \in m..len : k \in 1..len
        BY <2>5
      <4> HIDE DEF m
      <4> QED BY <2>5, <3>2, <4>1, <4>2
    <3>6. added \in Seq(Block)
      BY <2>1, BlocksAfterFacts
    <3> QED BY <3>1, <3>4, <3>5, <3>6, AppendIsConcat
  <2>7. StoredUpTo(m)'
    <3>1. Holds(blocks', m - 1)
      <4> SUFFICES ASSUME NEW n \in 0..Number(c)
                   PROVE  n \in DOMAIN byNumber /\ byNumber[n] = blocks'[n + 1]
        <5>1. (m - 1) - 1 = Number(c)
          BY <2>n
        <5> HIDE DEF m
        <5> QED BY <5>1 DEF Holds
      <4>1. n + 1 \in 1..(Number(c) + 1) /\ n \in 0..(Len(blocks) - 1)
        BY <1>c, <2>n
      <4>2. n \in DOMAIN byNumber /\ byNumber[n] = blocks[n + 1]
        BY <1>1, <4>1 DEF AllStored, Holds
      <4>3. Path[b][n + 1] = blocks[n + 1]
        <5>1. SubSeq(Path[b], 1, Number(c) + 1) = SubSeq(Path[bestBlock], 1, Number(c) + 1)
          <6>1. SubSeq(Path[b], 1, Number(c) + 1) = Path[c]
            BY <2>1, PathSplit
          <6>2. SubSeq(Path[bestBlock], 1, Number(c) + 1) = Path[c]
            BY <1>c, <2>1, PathSplit
          <6> QED BY <6>1, <6>2
        <5>2. Number(c) + 1 \in Nat /\ Number(c) + 1 <= Len(Path[b]) /\ Number(c) + 1 <= Len(Path[bestBlock])
          BY <1>c, <2>n
        <5>3. \A k \in 1..(Number(c) + 1) : Path[b][k] = Path[bestBlock][k]
          <6> DEFINE i == Number(c) + 1
          <6>1. i \in Nat /\ i <= Len(Path[b]) /\ i <= Len(Path[bestBlock])
                /\ SubSeq(Path[b], 1, i) = SubSeq(Path[bestBlock], 1, i)
            BY <5>1, <5>2
          <6> HIDE DEF i
          <6>2. \A k \in 1..i : Path[b][k] = Path[bestBlock][k]
            BY <1>c, <6>1, SamePrefix
          <6> QED BY <6>2 DEF i
        <5> QED BY <1>c, <4>1, <5>3
      <4> QED BY <2>3, <4>2, <4>3
    <3>2. TipNumber = Number(bestBlock)
      BY <1>1, <1>c, NoBlockAssumption DEF AllStored, NamesBlock, TipNumber
    <3>3. TipNumber \in (m - 2)..(Number(b) - 1)
      BY <1>c, <2>1, <2>n, <3>2
    <3>4. UNCHANGED TipNumber
      BY <1>2 DEF TipNumber
    <3> HIDE DEF m
    <3> QED BY <1>2, <2>a, <3>1, <3>3, <3>4 DEF StoredUpTo, Holds
  <2>8. /\ DOMAIN storing' = {b} /\ storing' # <<>>
        /\ storing'[b].queue = Append(added, b) /\ storing'[b].step = "hash"
    BY <2>a, OnlyJob
  <2>9. JobFits(storing[b])'
    <3>1. storing'[b].queue = SubSeq(Append(blocks', bestBlock'), m, Len(blocks') + 1)
      BY <2>3, <2>6, <2>8, <2>a
    <3>2. m \in 2..Len(blocks')
      BY <2>3, <2>5
    <3> HIDE DEF m
    <3> QED BY <2>7, <2>8, <3>1, <3>2 DEF JobFits
  <2> QED BY <2>4, <2>8, <2>9 DEF RunningInv
<1> QED BY <1>3, <1>4 DEF TakeFork

\* What a start loads after DownInv.
LEMMA StartFromDisk ==
    ASSUME DiskTypeOK, TipIsStored, DownInv, storing = <<>>, Start
    PROVE  /\ RunningInv'
           /\ bestBlock # NoBlock => blocks' \in {blocks, Front(blocks)}
<1>1. best # NoBlock => HasChain
  BY DEF TipIsStored, HasChain
<1>2. best = NoBlock => ~HasChain
  BY NoBlockAssumption DEF HasChain, DiskTypeOK
<1>3. UNCHANGED <<byNumber, best>>
  BY DEF Start, diskVars
<1>4. CASE best = NoBlock
  <2>1. /\ blocks' = <<Genesis>> /\ bestBlock' = Genesis
        /\ blockIndex' = {Genesis} /\ applied' = {Genesis} /\ Store(Genesis, <<Genesis>>)
    BY <1>2, <1>4 DEF Start, StartFresh, Store
  <2>2. Genesis \in Block /\ Path[Genesis] = <<Genesis>>
    BY PathGenesis
  <2>3. ToSet(<<Genesis>>) = {Genesis}
    BY DEF ToSet
  <2>4. MemoryInv'
    BY <2>1, <2>2, <2>3 DEF MemoryInv
  <2>5. /\ DOMAIN storing' = {Genesis} /\ storing' # <<>>
        /\ storing'[Genesis].queue = <<Genesis>> /\ storing'[Genesis].step = "hash"
    BY <2>1, OnlyJob
  <2>6. LastToStore'
    BY <1>3, <1>4, <2>1 DEF LastToStore, Holds
  <2>7. JobFits(storing[Genesis])'
    BY <2>1, <2>5, <2>6 DEF JobFits
  <2>8. RunningInv'
    BY <2>4, <2>5, <2>7 DEF RunningInv
  <2>9. ASSUME bestBlock # NoBlock PROVE blocks' \in {blocks, Front(blocks)}
    <3>c. /\ blocks \in Seq(Block) /\ Len(blocks) \in Nat \ {0} /\ blocks[1] = Genesis
          /\ (LastToStore \/ AllStored)
          /\ \A i \in 1..Len(blocks) : blocks[i] \in Block
      BY <2>9, ChainFacts DEF DownInv
    <3>1. Len(blocks) = 1 \/ Len(blocks) = 2
      <4>1. AllStored => Len(blocks) = 1
        <5>1. Len(blocks) \in 1..Len(blocks)
          BY <3>c
        <5> QED BY <1>4, <3>c, <5>1, NoBlockAssumption DEF AllStored, NamesBlock
      <4>2. LastToStore => Len(blocks) = 1 \/ Len(blocks) = 2
        <5> SUFFICES ASSUME LastToStore, Len(blocks) # 1, Len(blocks) # 2 PROVE FALSE
          OBVIOUS
        <5>1. Len(blocks) - 1 \in 1..Len(blocks) /\ Len(blocks) - 1 # 1
          <6> DEFINE n == Len(blocks)
          <6>1. n \in Nat \ {0} /\ n # 1 /\ n # 2
            BY <3>c
          <6> HIDE DEF n
          <6>2. n - 1 \in 1..n /\ n - 1 # 1
            BY <6>1
          <6> QED BY <6>2 DEF n
        <5> QED BY <1>4, <3>c, <5>1, NoBlockAssumption DEF LastToStore, NamesBlock
      <4> QED BY <3>c, <4>1, <4>2
    <3>2. SubSeq(blocks, 1, 1) = <<Genesis>>
      BY <3>c, SubSeqOne
    <3>3. CASE Len(blocks) = 1
      BY <2>1, <3>c, <3>2, <3>3, SubSeqFull
    <3>4. CASE Len(blocks) = 2
      <4>1. Front(blocks) = SubSeq(blocks, 1, 1)
        BY <3>4 DEF Front
      <4> QED BY <2>1, <3>2, <4>1
    <3> QED BY <3>1, <3>3, <3>4
  <2> QED BY <2>8, <2>9
<1>5. CASE best # NoBlock
  <2>1. bestBlock # NoBlock /\ MemoryInv /\ (LastToStore \/ AllStored)
    BY <1>5 DEF DownInv
  <2>c. /\ blocks \in Seq(Block) /\ Len(blocks) \in Nat \ {0}
        /\ \A i \in 1..Len(blocks) : /\ blocks[i] \in Block /\ Number(blocks[i]) = i - 1
                                     /\ Path[blocks[i]] = SubSeq(blocks, 1, i)
    BY <2>1, ChainFacts
  <2>n. /\ Len(blocks) # 1 => Len(blocks) > 1
        /\ Len(blocks) # 1 /\ Len(blocks) - 1 # 1 => Len(blocks) - 1 > 1
    <3> DEFINE n == Len(blocks)
    <3>1. n \in Nat \ {0}
      BY <2>c
    <3> HIDE DEF n
    <3>2. (n # 1 => n > 1) /\ (n # 1 /\ n - 1 # 1 => n - 1 > 1)
      BY <3>1
    <3> QED BY <3>2 DEF n
  <2>2. PICK k \in {Len(blocks) - 1, Len(blocks)} : k > 1 /\ Holds(blocks, k) /\ best = blocks[k]
    <3>1. AllStored => /\ Len(blocks) > 1 /\ Holds(blocks, Len(blocks))
                       /\ best = blocks[Len(blocks)]
      BY <1>5, <2>n DEF AllStored, NamesBlock
    <3>2. LastToStore => /\ Len(blocks) - 1 > 1 /\ Holds(blocks, Len(blocks) - 1)
                         /\ best = blocks[Len(blocks) - 1]
      BY <1>5, <2>n DEF LastToStore, NamesBlock
    <3> QED BY <2>1, <3>1, <3>2
  <2>3. k \in 1..Len(blocks) /\ k \in Nat
    BY <2>2, <2>c
  <2>4. best \in Block /\ Number(best) = k - 1 /\ Path[best] = SubSeq(blocks, 1, k)
    BY <2>2, <2>c, <2>3
  <2>5. /\ LoadedNumbers = 0..Number(best)
        /\ LoadedBlocks = [i \in 1..k |-> byNumber[i - 1]]
        /\ LoadedBlocks \in Seq(Block) /\ Len(LoadedBlocks) = k
    <3>1. PICK m \in Nat :
              /\ LoadedNumbers = 0..(m - 1) /\ m <= Number(best) + 1
              /\ LoadedBlocks = [i \in 1..m |-> byNumber[i - 1]]
              /\ LoadedBlocks \in Seq(Block) /\ Len(LoadedBlocks) = m
              /\ m <= Number(best) => m \notin DOMAIN byNumber
      BY <1>1, <1>5, LoadedFacts
    <3>2. m = k
      <4> SUFFICES ASSUME m <= k - 1 PROVE FALSE
        BY <2>3, <2>4, <3>1
      <4>1. m \in 0..(k - 1)
        BY <2>3
      <4> QED BY <2>2, <2>4, <3>1, <4>1 DEF Holds
    <3> QED BY <2>4, <3>1, <3>2
  <2>6. LoadedBlocks = SubSeq(blocks, 1, k)
    <3>1. /\ SubSeq(blocks, 1, k) \in Seq(Block) /\ Len(SubSeq(blocks, 1, k)) = k
          /\ \A i \in 1..k : SubSeq(blocks, 1, k)[i] = blocks[i]
      BY <2>3, <2>c
    <3>2. \A i \in 1..k : LoadedBlocks[i] = blocks[i]
      <4> TAKE i \in 1..k
      <4>1. i - 1 \in 0..(k - 1) /\ (i - 1) + 1 = i
        BY <2>3
      <4> QED BY <2>2, <2>5, <4>1 DEF Holds
    <3> QED BY <2>5, <3>1, <3>2, SeqEqual
  <2>7. LoadedNumbers # {} /\ LoadedNumbers = NumbersToLoad /\ HasChain
    <3>1. 0 \in 0..Number(best)
      BY <2>3, <2>4
    <3> QED BY <1>1, <1>5, <2>5, <3>1 DEF NumbersToLoad
  <2>8. /\ blocks' = LoadedBlocks /\ bestBlock' = best /\ UNCHANGED storing
        /\ blockIndex' = ToSet(LoadedBlocks) /\ applied' = ToSet(LoadedBlocks)
    BY <2>7 DEF Start, StartLoaded
  <2>9. MemoryInv'
    BY <2>4, <2>6, <2>8 DEF MemoryInv
  <2>10. AllStored'
    <3>1. Len(blocks') = k /\ blocks' = [i \in 1..k |-> byNumber[i - 1]]
      BY <2>5, <2>8
    <3>2. \A n \in 0..(k - 1) : blocks'[n + 1] = byNumber[n]
      <4> TAKE n \in 0..(k - 1)
      <4>1. n + 1 \in 1..k /\ (n + 1) - 1 = n
        BY <2>3
      <4> QED BY <3>1, <4>1
    <3>3. \A n \in 0..(k - 1) : n \in DOMAIN byNumber
      BY <2>2 DEF Holds
    <3>4. best = blocks'[k]
      <4>1. k - 1 \in 0..(k - 1) /\ (k - 1) + 1 = k
        BY <2>3
      <4> QED BY <2>2, <3>2, <4>1 DEF Holds
    <3>5. Holds(blocks, k)'
      BY <1>3, <3>2, <3>3 DEF Holds
    <3> QED BY <1>3, <2>2, <3>1, <3>2, <3>3, <3>4 DEF AllStored, Holds, NamesBlock
  <2>11. RunningInv'
    BY <2>8, <2>9, <2>10 DEF RunningInv
  <2>12. blocks' \in {blocks, Front(blocks)}
    <3>1. CASE k = Len(blocks)
      BY <2>6, <2>8, <2>c, <3>1, SubSeqFull
    <3>2. CASE k = Len(blocks) - 1
      BY <2>6, <2>8, <3>2 DEF Front
    <3> QED BY <2>2, <3>1, <3>2
  <2> QED BY <2>11, <2>12
<1> QED BY <1>4, <1>5

\* What DiskInv says beyond the types and the calls.
DiskFits == trouble = {} => IF running THEN RunningInv ELSE DownInv

LEMMA InitFits == Init => DiskFits
  BY DEF Init, StorageInit, DiskFits, DownInv

LEMMA NextKeepsFits ==
    ASSUME TypeOK, CallsInv, StoringInv, DiskFits, [Next]_vars
    PROVE  DiskFits'
<1> SUFFICES ASSUME trouble' = {} PROVE (IF running THEN RunningInv ELSE DownInv)'
  BY DEF DiskFits
<1>t. DiskTypeOK /\ JobsTypeOK /\ TipIsStored
  BY DEF TypeOK, StoringInv
<1>0. trouble = {}
  BY DEF Next, vars, historyVars, Start, Crash, AddToNothing, AddBlock, FetchParent, FinishFetch,
         DropFetch, Storing, StoringFails, NoteOverlap
<1>r. /\ running => RunningInv /\ MemoryInv
      /\ ~running => DownInv
  BY <1>0 DEF DiskFits, RunningInv
<1>1. CASE Start
  <2>1. ~running /\ running' /\ storing = <<>> /\ DownInv
    BY <1>r, <1>1 DEF Start, CallsInv
  <2>2. RunningInv'
    BY <1>t, <1>1, <2>1, StartFromDisk
  <2> QED BY <2>1, <2>2
<1>2. CASE Crash
  <2>1. /\ running /\ RunningInv /\ MemoryInv /\ running' = FALSE
        /\ UNCHANGED <<diskVars, memoryVars>>
        /\ \A c \in DOMAIN storing : ~(Len(storing[c].queue) > 1)
    BY <1>r, <1>2 DEF Crash
  <2>2. LastToStore \/ AllStored
    <3>1. CASE storing = <<>>
      BY <2>1, <3>1 DEF RunningInv
    <3>2. CASE storing # <<>>
      BY <2>1, <3>2, LastInQueue DEF RunningInv
    <3> QED BY <3>1, <3>2
  <2>3. MemoryInv' /\ (LastToStore \/ AllStored)'
    BY <2>1, <2>2 DEF MemoryInv, LastToStore, AllStored, Holds, NamesBlock, diskVars, memoryVars
  <2>4. bestBlock' # NoBlock
    BY <2>1, NoBlockAssumption DEF MemoryInv, memoryVars
  <2> QED BY <2>1, <2>3, <2>4 DEF DownInv
<1>3. ASSUME NEW b \in Block, AddToNothing(b) PROVE FALSE
  BY <1>r, <1>3, NoBlockAssumption DEF AddToNothing, CanCall, MemoryInv
<1>4. ASSUME NEW b \in Block, AddBlock(b) PROVE running' /\ RunningInv'
  <2>1. /\ UNCHANGED <<diskVars, running>> /\ running /\ RunningInv /\ storing = <<>> /\ b # Genesis
    BY <1>r, <1>4 DEF AddBlock, IsCandidate, CanCall, NoteOverlap
  <2>2. TakeFork(b) \/ (Parent(b) = bestBlock /\ Extend(b))
    BY <1>4 DEF AddBlock
  <2> QED BY <2>1, <2>2, ExtendKeepsDisk, TakeForkKeepsDisk
<1>5. ASSUME NEW f \in fetching, FinishFetch(f) PROVE running' /\ RunningInv'
  <2>1. /\ UNCHANGED <<diskVars, running>> /\ running /\ RunningInv /\ storing = <<>>
        /\ f.block # Genesis /\ f.block \in Block
    BY <1>r, <1>5 DEF FinishFetch, CallsInv, NoteOverlap, TypeOK, MemoryTypeOK
  <2>2. TakeFork(f.block) \/ (Parent(f.block) = bestBlock /\ Extend(f.block))
    BY <1>5 DEF FinishFetch
  <2> QED BY <2>1, <2>2, ExtendKeepsDisk, TakeForkKeepsDisk
<1>6. ASSUME NEW c \in DOMAIN storing, Storing(c) PROVE running' /\ RunningInv'
  <2>1. storing # <<>> /\ running /\ UNCHANGED <<memoryVars, running>>
    BY <1>6 DEF CallsInv, Storing
  <2>2. RunningInv /\ MemoryInv /\ DOMAIN storing = {c} /\ JobFits(storing[c])
    BY <1>r, <2>1 DEF RunningInv
  <2>3. MemoryInv'
    BY <2>1, <2>2 DEF MemoryInv, memoryVars
  <2>4. CASE PutBest(c)
    <3>1. \/ storing' = <<>> /\ AllStored'
          \/ DOMAIN storing' = {c} /\ JobFits(storing[c])'
      BY <1>t, <2>1, <2>2, <2>4, NextInQueueFits
    <3>2. CASE storing' = <<>> /\ AllStored'
      BY <2>1, <2>3, <3>2 DEF RunningInv
    <3>3. CASE DOMAIN storing' = {c} /\ JobFits(storing[c])'
      <4>1. storing' # <<>> /\ c \in DOMAIN storing'
        BY <3>3
      <4> QED BY <2>1, <2>3, <3>3, <4>1 DEF RunningInv
    <3> QED BY <3>1, <3>2, <3>3
  <2>5. CASE PutHash(c) \/ PutNumber(c) \/ ReadBest(c)
    <3>1. DOMAIN storing' = {c} /\ JobFits(storing[c])'
      BY <1>t, <2>1, <2>2, <2>5, SameQueueFits
    <3> QED BY <2>1, <2>3, <3>1 DEF RunningInv
  <2> QED BY <1>6, <2>4, <2>5 DEF Storing, StoreStep
<1>7. ASSUME NEW c \in DOMAIN storing, StoringFails(c) PROVE FALSE
  BY <1>7 DEF StoringFails
<1>8. CASE UNCHANGED <<diskVars, storing, memoryVars, running, historyVars>>
  BY <1>r, <1>8 DEF RunningInv, DownInv, MemoryInv, JobFits, LastToStore, AllStored, StoredUpTo,
                    Holds, NamesBlock, TipNumber, diskVars, memoryVars
<1> QED
  <2>1. ASSUME NEW b \in Block, FetchParent(b)
        PROVE  UNCHANGED <<diskVars, storing, memoryVars, running, historyVars>>
    BY <2>1 DEF FetchParent
  <2>2. ASSUME NEW f \in fetching, DropFetch(f)
        PROVE  UNCHANGED <<diskVars, storing, memoryVars, running, historyVars>>
    BY <2>2 DEF DropFetch
  <2>3. UNCHANGED vars => UNCHANGED <<diskVars, storing, memoryVars, running, historyVars>>
    BY DEF vars
  <2> QED BY <1>1, <1>2, <1>3, <1>4, <1>5, <1>6, <1>7, <1>8, <2>1, <2>2, <2>3 DEF Next

\* Disk and memory fit together at every step of the storing, as long as blocks are added
\* one at a time, storage gives no error and no crash tears a reorganization: what is
\* left to store is in the queue of the one goroutine that stores.
THEOREM DiskInvHolds == Spec => []DiskInv
<1>1. Spec => []DiskFits
  <2>1. TypeOK /\ CallsInv /\ StoringInv /\ DiskFits /\ [Next]_vars => DiskFits'
    BY NextKeepsFits
  <2> QED BY <2>1, InitFits, TypeAndCalls, StoringInvHolds, PTL DEF Spec
<1>2. TypeOK /\ CallsInv /\ StoringInv /\ DiskFits => DiskInv
  BY DEF DiskInv, DiskFits
<1> QED BY <1>1, <1>2, TypeAndCalls, StoringInvHolds, PTL

\* What a start makes of the disk is a chain with its ledger, and it stays one: for every
\* block tree, every number of crashes and any number of calls.
THEOREM LoadsPathHolds == Spec => []LoadsPath
<1>1. DiskInv => LoadsPath
  BY NoBlockAssumption DEF DiskInv, LoadsPath, RunningInv, MemoryInv
<1> QED BY <1>1, DiskInvHolds, PTL

\* With no storing under way disk holds the main chain under its numbers, and best_block
\* names its last block (of a chain that is longer than genesis).
THEOREM DiskMirrorsMemoryHolds == Spec => []DiskMirrorsMemory
<1>1. DiskInv => DiskMirrorsMemory
  <2> SUFFICES ASSUME DiskInv, running, storing = <<>>, trouble = {}
               PROVE  /\ \A n \in 0..Number(bestBlock) : byNumber[n] = blocks[n + 1]
                      /\ bestBlock # Genesis => best = bestBlock
    BY DEF DiskMirrorsMemory
  <2>1. MemoryInv /\ AllStored
    BY DEF DiskInv, RunningInv
  <2>2. /\ Number(bestBlock) = Len(blocks) - 1 /\ blocks[Len(blocks)] = bestBlock
        /\ blocks[1] = Genesis
    BY <2>1, ChainFacts
  <2> QED BY <2>1, <2>2 DEF AllStored, Holds, NamesBlock
<1> QED BY <1>1, DiskInvHolds, PTL

\* A restart gives the chain back, or the chain without its last block; nothing else is
\* lost unless the crash hit the storing of a reorganization.
THEOREM RestartKeepsChainHolds == Spec => RestartKeepsChain
<1>1. DiskInv /\ [Next]_vars =>
          [~running /\ running' /\ trouble = {} /\ bestBlock # NoBlock
               => blocks' \in {blocks, Front(blocks)}]_vars
  <2> SUFFICES ASSUME DiskInv, [Next]_vars, ~running, running', trouble = {}, bestBlock # NoBlock
               PROVE  blocks' \in {blocks, Front(blocks)}
    OBVIOUS
  <2>1. DiskTypeOK /\ TipIsStored /\ DownInv /\ storing = <<>> /\ fetching = {}
    BY DEF DiskInv, TypeOK, StoringInv, CallsInv
  <2>2. Start
    <3>1. ~(UNCHANGED running)
      OBVIOUS
    <3>2. ~Crash
      BY DEF Crash
    <3>3. \A b \in Block : ~AddToNothing(b) /\ ~AddBlock(b) /\ ~FetchParent(b)
      BY <3>1 DEF AddToNothing, AddBlock, FetchParent
    <3>4. \A c : ~Storing(c) /\ ~StoringFails(c)
      BY <3>1 DEF Storing, StoringFails
    <3>5. ~(UNCHANGED vars)
      BY <3>1 DEF vars
    <3> QED BY <2>1, <3>2, <3>3, <3>4, <3>5 DEF Next
  <2> QED BY <2>1, <2>2, StartFromDisk
<1> QED BY <1>1, DiskInvHolds, PTL DEF Spec, RestartKeepsChain
=============================================================================
