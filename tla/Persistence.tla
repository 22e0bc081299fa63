---------------------------- MODULE Persistence ----------------------------
(***************************************************************************)
(* A node with storage: what NewBlockchainV2 loads after the process was   *)
(* killed at any point, and what AddBlockV2 leaves to storage.             *)
(*                                                                         *)
(* Blocks carry rewards only and are valid, so that the ledger is the set  *)
(* of blocks whose transactions were processed.  A critical section of     *)
(* bc.mu is one step, the lock gap before reorganizeChain included (module *)
(* Blockchain is about that gap).  StoreBlock runs after bc.mu is free, one*)
(* Put or Get at a time.  A crash is that of the process: the database has *)
(* every Put that returned.                                                *)
(***************************************************************************)
EXTENDS Storage

CONSTANTS MaxFaults,   \* bound on the number of crashes and storage errors
          MaxCalls     \* bound on the calls that store or fetch at a time

ASSUME BoundAssumption == MaxFaults \in Nat /\ MaxCalls \in Nat

VARIABLES running,
          blocks,      \* bc.blocks
          bestBlock,   \* bc.bestBlock, NoBlock when nil
          blockIndex,  \* keys of bc.blockIndex
          forkBlocks,  \* all blocks in the lists of bc.forkBlocks
          applied,     \* blocks whose transactions are in the UTXO set
          fetching,    \* calls that fetch a parent from storage, with bc.mu free
          faults,      \* history: how many crashes and storage errors there were
          trouble      \* history: what has happened to the storing so far

\* While the process is down the memory variables show what it last held.
memoryVars == <<blocks, bestBlock, blockIndex, forkBlocks, applied>>
historyVars == <<faults, trouble>>
vars == <<diskVars, storing, memoryVars, running, fetching, historyVars>>

\* "overlap": a block was added while another was being stored;
\* "error":   a Put or Get failed;
\* "torn":    a crash stopped the storing of a reorganization.
Troubles == {"overlap", "error", "torn"}

Init ==
    /\ StorageInit
    /\ running = FALSE
    /\ blocks = <<>> /\ bestBlock = NoBlock
    /\ blockIndex = {} /\ forkBlocks = {} /\ applied = {}
    /\ fetching = {}
    /\ faults = 0 /\ trouble = {}

-----------------------------------------------------------------------------
(* NewBlockchainV2 *)

HasChain == best \in byHash

\* (mutant) The loop ends before the best block.
AllButBest == 0..(Number(best) - 1)

NumbersToLoad == 0..Number(best)

\* The numbers loadChainFromStorage gets through.
LoadedNumbers ==
    {n \in NumbersToLoad : \A k \in 0..n : k \in DOMAIN byNumber}

LoadedBlocks == [i \in 1..Cardinality(LoadedNumbers) |-> byNumber[i - 1]]

StartFresh ==
    /\ blocks' = <<Genesis>> /\ bestBlock' = Genesis
    /\ blockIndex' = {Genesis} /\ applied' = {Genesis}
    /\ storing' = Put(storing, Genesis, Job(<<Genesis>>))

\* A block was missing: blocks and bestBlock are reset, the index and the
\* outputs are not.  The genesis block is then refused as a duplicate.
StartHalfLoaded ==
    /\ blocks' = <<>> /\ bestBlock' = NoBlock
    /\ blockIndex' = ToSet(LoadedBlocks) /\ applied' = ToSet(LoadedBlocks)
    /\ UNCHANGED storing

StartLoaded ==
    /\ blocks' = LoadedBlocks /\ bestBlock' = best
    /\ blockIndex' = ToSet(LoadedBlocks) /\ applied' = ToSet(LoadedBlocks)
    /\ UNCHANGED storing

Start ==
    /\ ~running
    /\ running' = TRUE
    /\ forkBlocks' = {}
    /\ IF ~HasChain \/ LoadedNumbers = {} THEN StartFresh
       ELSE IF LoadedNumbers = NumbersToLoad THEN StartLoaded
       ELSE StartHalfLoaded
    /\ UNCHANGED <<diskVars, fetching, historyVars>>

Crash ==
    /\ running
    /\ faults < MaxFaults
    /\ faults' = faults + 1
    /\ running' = FALSE
    /\ storing' = <<>>
    /\ fetching' = {}
    /\ trouble' = trouble \cup
          IF \E c \in DOMAIN storing : Len(storing[c].queue) > 1 THEN {"torn"} ELSE {}
    /\ UNCHANGED <<diskVars, memoryVars>>

-----------------------------------------------------------------------------
(* addBlockV2 *)

\* The constructor stores genesis before it returns.
CanCall ==
    /\ running
    /\ Genesis \notin DOMAIN storing
    /\ Cardinality(DOMAIN storing) + Cardinality(fetching) < MaxCalls

NoteOverlap ==
    trouble' = trouble \cup IF storing = <<>> THEN {} ELSE {"overlap"}

Store(b, queue) == storing' = Put(storing, b, Job(queue))

\* bc.blocks cut after c, if c is there.
CutAfter(c) ==
    LET at == {i \in DOMAIN blocks : blocks[i] = c}
    IN  IF at = {} THEN blocks ELSE SubSeq(blocks, 1, Min(at))

Extend(b) ==
    /\ blockIndex' = blockIndex \cup {b}
    /\ blocks' = Append(blocks, b)
    /\ bestBlock' = b
    /\ applied' = applied \cup {b}
    /\ Store(b, <<b>>)
    /\ UNCHANGED forkBlocks

\* The index with b decides; a chain that is not longer, or has no common
\* block with the main chain, is kept in memory and not stored.
TakeFork(b) ==
    LET index   == blockIndex \cup {b}
        longer  == calculateChainLength(index, b) > calculateChainLength(index, bestBlock)
        common  == CommonParents(index, bestBlock, b)
        c       == findCommonParent(index, bestBlock, b)
        removed == ToSet(BlocksAfter(c, bestBlock))
        added   == BlocksAfter(c, b)
    IN  /\ blockIndex' = index
        /\ forkBlocks' = forkBlocks \cup {b}
        /\ IF longer /\ common # {}
           THEN /\ blocks' = CutAfter(c) \o added
                /\ bestBlock' = b
                /\ applied' = (applied \ removed) \cup ToSet(added)
                /\ Store(b, Append(added, b))
           ELSE UNCHANGED <<blocks, bestBlock, applied, storing>>

\* With bestBlock nil the block is a fork of nothing, and validation looks its
\* parent up in the index and in storage.
AddToNothing(b) ==
    /\ CanCall
    /\ bestBlock = NoBlock
    /\ b \notin blockIndex
    /\ Parent(b) \in blockIndex \cup byHash
    /\ Extend(b)
    /\ NoteOverlap
    /\ UNCHANGED <<diskVars, running, fetching, faults>>

SameHeight(b) == Number(b) = Number(bestBlock)

ExpectedParent(b) == IF SameHeight(b) THEN Parent(bestBlock) ELSE Parent(b)

\* The block is new and names the parent that addBlockV2 looks for.
IsCandidate(b) ==
    /\ CanCall
    /\ bestBlock # NoBlock
    /\ b # Genesis
    /\ b \notin blockIndex
    /\ Parent(b) = ExpectedParent(b)

AddBlock(b) ==
    /\ IsCandidate(b)
    /\ Parent(b) \in blockIndex \cup {bestBlock}
    /\ IF SameHeight(b) \/ Parent(b) # bestBlock THEN TakeFork(b) ELSE Extend(b)
    /\ NoteOverlap
    /\ UNCHANGED <<diskVars, running, fetching, faults>>

\* The parent is in storage only: bc.mu is released for the Get.
FetchParent(b) ==
    /\ IsCandidate(b)
    /\ Parent(b) \notin blockIndex \cup {bestBlock}
    /\ Parent(b) \in byHash
    /\ fetching' = fetching \cup {[block |-> b, sameHeight |-> SameHeight(b)]}
    /\ UNCHANGED <<diskVars, storing, memoryVars, running, historyVars>>

\* bc.mu is taken again and only the duplicate test is repeated.
FinishFetch(f) ==
    /\ f.block \notin blockIndex
    /\ IF \/ f.sameHeight \/ Parent(f.block) # bestBlock
          \/ \E x \in forkBlocks : Parent(x) = Parent(f.block)
       THEN TakeFork(f.block) ELSE Extend(f.block)
    /\ fetching' = fetching \ {f}
    /\ NoteOverlap
    /\ UNCHANGED <<diskVars, running, faults>>

DropFetch(f) ==
    /\ f.block \in blockIndex
    /\ fetching' = fetching \ {f}
    /\ UNCHANGED <<diskVars, storing, memoryVars, running, historyVars>>

-----------------------------------------------------------------------------
Storing(c) ==
    /\ StoreStep(c)
    /\ UNCHANGED <<memoryVars, running, fetching, historyVars>>

StoringFails(c) ==
    /\ PutFails(c) \/ GetFails(c)
    /\ faults < MaxFaults
    /\ faults' = faults + 1
    /\ trouble' = trouble \cup {"error"}
    /\ UNCHANGED <<memoryVars, running, fetching>>

Next ==
    \/ Start \/ Crash
    \/ \E b \in Block : AddToNothing(b) \/ AddBlock(b) \/ FetchParent(b)
    \/ \E f \in fetching : FinishFetch(f) \/ DropFetch(f)
    \/ \E c \in DOMAIN storing : Storing(c) \/ StoringFails(c)

Spec == Init /\ [][Next]_vars

-----------------------------------------------------------------------------
IsJob(j) ==
    /\ j.queue \in Seq(Block) /\ j.queue # <<>>
    /\ j.step \in {"hash", "number", "read", "best"}
    /\ j.seen \in Nat

DiskTypeOK ==
    /\ byHash \subseteq Block
    /\ IsFiniteSet(DOMAIN byNumber) /\ DOMAIN byNumber \subseteq Nat
    /\ \A n \in DOMAIN byNumber : byNumber[n] \in Block /\ Number(byNumber[n]) = n
    /\ best \in Block \cup {NoBlock}

JobsTypeOK == DOMAIN storing \subseteq Block /\ \A c \in DOMAIN storing : IsJob(storing[c])

MemoryTypeOK ==
    /\ running \in BOOLEAN
    /\ blocks \in Seq(Block) /\ bestBlock \in Block \cup {NoBlock}
    /\ blockIndex \subseteq Block /\ forkBlocks \subseteq Block /\ applied \subseteq Block
    /\ \A f \in fetching : f.block \in Block /\ f.sameHeight \in BOOLEAN
    /\ faults \in 0..MaxFaults /\ trouble \subseteq Troubles

\* Every variable keeps its type; in particular a goroutine that stores has a
\* block to store.
TypeOK == DiskTypeOK /\ JobsTypeOK /\ MemoryTypeOK

\* The block that best_block names can be read back by its hash, and some block
\* of its height by number: StoreBlock's order of writes (lines 223-246) keeps
\* this with any number of storing goroutines, errors and crashes.
TipIsStored ==
    best # NoBlock => best \in byHash /\ Number(best) \in DOMAIN byNumber

\* When the goroutines that store have ended, disk holds the main chain,
\* if blocks were added one at a time and storage gave no error.
DiskMirrorsMemory ==
    running /\ storing = <<>> /\ trouble = {} =>
        /\ \A n \in 0..Number(bestBlock) : byNumber[n] = blocks[n + 1]
        /\ bestBlock # Genesis => best = bestBlock

\* What a start makes of the disk is a chain: blocks is the path of bestBlock
\* and its transactions, and no others, are in the ledger.
LoadsPath ==
    running /\ trouble = {} =>
        /\ bestBlock # NoBlock
        /\ blocks = Path[bestBlock]
        /\ applied = ToSet(blocks)

\* A crash costs the last block of the main chain at most, unless it hits the
\* storing of a reorganization.
RestartKeepsChain ==
    [][~running /\ running' /\ trouble = {} /\ bestBlock # NoBlock
         => blocks' \in {blocks, Front(blocks)}]_vars

\* The chain loaded ends in the block that best_block names ("Load all blocks
\* from genesis to best block", blockchain.go:2554), also after a crash during
\* the storing of a reorganization.
LoadedEndsInBest ==
    [][~running /\ running' /\ trouble \subseteq {"torn"} /\ blocks' # <<>>
         => Last(blocks') = bestBlock']_vars

-----------------------------------------------------------------------------
(* The inductive invariant behind TipIsStored. *)

\* A goroutine that is past a Put finds what it put.
PutsAreDone ==
    \A c \in DOMAIN storing :
        LET b == Head(storing[c].queue)
        IN  /\ storing[c].step # "hash" => b \in byHash
            /\ storing[c].step \in {"read", "best"} => Number(b) \in DOMAIN byNumber

JobsAreRecords ==
    /\ storing = [c \in DOMAIN storing |-> storing[c]]
    /\ \A c \in DOMAIN storing :
           /\ storing[c] = [queue |-> storing[c].queue, step |-> storing[c].step,
                            seen |-> storing[c].seen]
           /\ storing[c].step \in {"hash", "number", "read", "best"}

StoringInv == TipIsStored /\ PutsAreDone /\ JobsAreRecords

-----------------------------------------------------------------------------
(* The inductive invariant behind LoadsPath, DiskMirrorsMemory and RestartKeepsChain: where
   the storing is, as long as there was no trouble. *)

\* The number that GetBestBlock's caller works with.
TipNumber == IF best = NoBlock THEN 0 ELSE Number(best)

\* The first m blocks of the chain are under their numbers.
Holds(chain, m) == \A n \in 0..(m - 1) : n \in DOMAIN byNumber /\ byNumber[n] = chain[n + 1]

\* best_block names the chain's block m; it is not written for genesis.
NamesBlock(chain, m) == IF m = 1 THEN best = NoBlock ELSE best = chain[m]

\* All is stored, and at most the goroutine of a reorganization stores bestBlock again.
AllStored == Holds(blocks, Len(blocks)) /\ NamesBlock(blocks, Len(blocks))

\* All but the last block is stored: genesis at the first start, or an extension.
LastToStore ==
    /\ Holds(blocks, Len(blocks) - 1)
    /\ IF Len(blocks) = 1 THEN best = NoBlock ELSE NamesBlock(blocks, Len(blocks) - 1)

\* The chain of a reorganization is stored up to the block before m, and best_block is at
\* least that high, but lower than the new tip.
StoredUpTo(m) ==
    /\ Holds(blocks, m - 1)
    /\ TipNumber \in (m - 2)..(Number(bestBlock) - 1)

\* What is left to store, for the only goroutine that stores.
JobFits(j) ==
    /\ j.step \in {"read", "best"} => LET b == Head(j.queue) IN byNumber[Number(b)] = b
    /\ j.step = "best" => j.seen = TipNumber
    /\ \/ j.queue = <<bestBlock>> /\ (LastToStore \/ AllStored)
       \/ \E m \in 2..Len(blocks) :
             /\ j.queue = SubSeq(Append(blocks, bestBlock), m, Len(blocks) + 1)
             /\ StoredUpTo(m)

MemoryInv ==
    /\ bestBlock \in Block /\ blocks = Path[bestBlock] /\ applied = ToSet(blocks)
    /\ ToSet(blocks) \subseteq blockIndex

\* What is left of the chain when the process is down.
DownInv ==
    /\ bestBlock = NoBlock => best = NoBlock
    /\ bestBlock # NoBlock => MemoryInv /\ (LastToStore \/ AllStored)

RunningInv ==
    /\ MemoryInv
    /\ storing = <<>> => AllStored
    /\ storing # <<>> => \E c \in DOMAIN storing : DOMAIN storing = {c} /\ JobFits(storing[c])

\* Calls that fetch end with the process, and work on a chain.
CallsInv ==
    /\ ~running => storing = <<>> /\ fetching = {}
    /\ fetching # {} => bestBlock # NoBlock
    /\ \A f \in fetching : f.block # Genesis

DiskInv ==
    /\ TypeOK /\ StoringInv /\ CallsInv
    /\ trouble = {} => IF running THEN RunningInv ELSE DownInv
=============================================================================
