----------------------------- MODULE Blockchain -----------------------------
(***************************************************************************)
(* core/blockchain.go: how one node's BlockchainV2 takes blocks.           *)
(*                                                                         *)
(* AddBlockV2 is called by RPC handlers and by the P2P block handler, each *)
(* on a goroutine of its own.  A call holds bc.mu from its first test to   *)
(* its return, except that a call that finds a longer fork releases the    *)
(* lock (line 452) and reorganizeChain takes it again (line 1244).  While  *)
(* the lock is held the loops over transactions are steps here, because    *)
(* the UTXO set and the mempool have locks of their own and their readers  *)
(* see the map between two iterations.                                     *)
(*                                                                         *)
(* Blocks are those miners produce: the merkle root, the transaction count,*)
(* the signatures and the proof of work are right, so of                   *)
(* validateBlockV2WithParent the tests on the parent and on the nonces     *)
(* remain.  A block refused for its difficulty or its timestamp is a block *)
(* that is not delivered.  The node runs with in-memory state (storage is  *)
(* nil, as in the repository's tests).                                     *)
(***************************************************************************)
EXTENDS UTXOSet, Mempool, SequencesExt

CONSTANTS Txs,          \* [Block -> Seq(Tx)]: block.Txs
          Inputs,       \* [Tx -> Seq(OutPoint)]
          Outputs,      \* [Tx -> SUBSET OutPoint]
          Address,
          Sender,       \* [Tx -> Address]: tx.From
          Nonce,        \* [Tx -> Nat]
          UserTx,       \* the transactions users and peers submit
          MaxHistory,   \* blockHistory.maxSize
          Concurrent    \* whether AddBlockV2 may be called while another call is in progress

\* A transaction's outputs are its own, a reward has no inputs, and a payment
\* has a nonce above zero: the nonce check lets no other payment into a block.
ASSUME TxAssumption ==
    /\ Txs \in [Block -> Seq(Tx)] /\ Txs[Genesis] = <<>>
    /\ Inputs \in [Tx -> Seq(OutPoint)]
    /\ Outputs \in [Tx -> SUBSET OutPoint]
    /\ \A t, u \in Tx : t # u => Outputs[t] \cap Outputs[u] = {}
    /\ Sender \in [Tx -> Address]
    /\ Nonce \in [Tx -> Nat]
    /\ \A t \in Tx : Inputs[t] # <<>> => Nonce[t] > 0
    /\ UserTx \subseteq Tx
    /\ MaxHistory \in Nat \ {0}
    /\ Concurrent \in BOOLEAN

\* A reward stands in one block only: its hash covers the block's height and a time in
\* nanoseconds, to make it "unique" and prevent "UTXO overwrites" (2333).
ASSUME RewardAssumption ==
    \A b, c \in Block : \A i \in DOMAIN Txs[b], j \in DOMAIN Txs[c] :
        Txs[b][i] = Txs[c][j] /\ Inputs[Txs[b][i]] = <<>> => b = c /\ i = j

VARIABLES
    blockIndex,     \* keys of bc.blockIndex
    forkBlocks,     \* all blocks in the lists of bc.forkBlocks
    blocks,         \* bc.blocks
    height,         \* bc.height
    bestBlock,      \* bc.bestBlock
    blockHistory,   \* the blocks whose timestamps blockHistory holds
    utxos,          \* bc.utxoSet.utxos
    accountNonces,  \* bc.accountNonces, 0 when absent
    admitted,       \* transactions between validateTransactionNonce and mempool.AddTransaction
    reorgWaiting,   \* newBestBlock of each call between lines 452 and 1244
    phase,          \* what the holder of bc.mu is doing, "idle" when it is free
    removing,       \* blocks the rollback loop has still to undo, in its order
    adding,         \* blocks whose transactions are still to be processed
    txi,            \* index into the transactions of the current block
    commonParent,   \* the holder's commonParent
    oldBest,        \* history: bestBlock when bc.mu was taken
    failed          \* history: phases in which a transaction's inputs were refused

chainVars == <<blocks, height, bestBlock>>
indexVars == <<blockIndex, forkBlocks>>
ledgerVars == <<utxos, accountNonces>>
poolVars == <<transactions, admitted>>
callVars == <<phase, removing, adding, txi, commonParent, oldBest>>
vars == <<chainVars, indexVars, ledgerVars, poolVars, callVars,
          blockHistory, reorgWaiting, failed>>

-----------------------------------------------------------------------------
IsReward(t) == Inputs[t] = <<>>

InputSet(t) == ToSet(Inputs[t])

LastN(s, n) == SubSeq(s, Max({1, Len(s) - n + 1}), Len(s))

(* blockHistory, under its own mutex. *)
AddToHistory(b) == blockHistory' = LastN(Append(blockHistory, b), MaxHistory)

\* (mutant) The history is not rebuilt.
KeepHistory(chain) == UNCHANGED blockHistory

RebuildHistory(chain) == blockHistory' = LastN(chain, MaxHistory)

Init ==
    /\ transactions = {}
    /\ admitted = {}
    /\ blockIndex = {Genesis}
    /\ forkBlocks = {}
    /\ blocks = <<Genesis>>
    /\ height = 0
    /\ bestBlock = Genesis
    /\ blockHistory = <<Genesis>>
    /\ utxos = NewUTXOSet
    /\ accountNonces = [a \in Address |-> 0]
    /\ reorgWaiting = {}
    /\ phase = "idle"
    /\ removing = <<>>
    /\ adding = <<>>
    /\ txi = 1
    /\ commonParent = Genesis
    /\ oldBest = Genesis
    /\ failed = {}

-----------------------------------------------------------------------------
(* AddBlockV2, up to the transaction loop. *)

CanTakeLock == phase = "idle"

\* (mutant) The parent the block names, at every height.
NamedParent(b) == Parent(b)

\* A block at the height of bestBlock is checked against bestBlock's parent,
\* any other block against the parent it names.
ExpectedParent(b) ==
    IF Number(b) = Number(bestBlock) THEN Parent(bestBlock) ELSE Parent(b)

\* forkBlocks is asked only when the parent is not bestBlock, and the answer
\* is "fork" either way.
IsFork(b) == Number(b) = Number(bestBlock) \/ Parent(b) # bestBlock

NextNonce(t) == accountNonces[Sender[t]] + 1

validateTransactionNonce(t) == IsReward(t) \/ Nonce[t] = NextNonce(t)

validateBlockV2WithParent(b, parent) ==
    /\ Parent(b) = parent
    /\ \A i \in DOMAIN Txs[b] : validateTransactionNonce(Txs[b][i])

\* The block is new, its parent is known and it is valid.
Accepts(b) ==
    /\ CanTakeLock
    /\ Concurrent \/ reorgWaiting = {}
    /\ b \notin blockIndex
    /\ ExpectedParent(b) \in blockIndex
    /\ validateBlockV2WithParent(b, ExpectedParent(b))

\* (mutants) The comparison is the wrong way round; equal length is enough;
\* two blocks more are needed.
IsShorter(b) == calculateChainLength(blockIndex, b) < calculateChainLength(blockIndex, bestBlock)

NotShorter(b) == calculateChainLength(blockIndex, b) >= calculateChainLength(blockIndex, bestBlock)

MuchLonger(b) == calculateChainLength(blockIndex, b) > calculateChainLength(blockIndex, bestBlock) + 1

IsLonger(b) == calculateChainLength(blockIndex, b) > calculateChainLength(blockIndex, bestBlock)

\* The block extends bestBlock: its transactions are processed next.
ExtendBestBlock(b) ==
    /\ Accepts(b)
    /\ ~IsFork(b)
    /\ blockIndex' = blockIndex \cup {b}
    /\ phase' = "extend"
    /\ adding' = <<b>>
    /\ txi' = 1
    /\ oldBest' = bestBlock
    /\ UNCHANGED <<chainVars, forkBlocks, ledgerVars, poolVars, removing, commonParent,
                   blockHistory, reorgWaiting, failed>>

\* The block is on a fork: it is kept, and if its chain is longer the call
\* releases the lock on the way to reorganizeChain.
StoreForkBlock(b) ==
    /\ Accepts(b)
    /\ IsFork(b)
    /\ blockIndex' = blockIndex \cup {b}
    /\ forkBlocks' = forkBlocks \cup {b}
    /\ UNCHANGED <<chainVars, ledgerVars, poolVars, callVars, blockHistory, failed>>
    /\ reorgWaiting' = (IF IsLonger(b)' THEN reorgWaiting \cup {b} ELSE reorgWaiting)

-----------------------------------------------------------------------------
(* The transaction loops of addBlockV2 (484-515) and reorganizeChain (1385-1399). *)

Processing == phase \in {"extend", "apply"} /\ adding # <<>>

BlockDone(b) == txi > Len(Txs[b])

\* (mutant) The result of SpendUTXO is not looked at.
NoRefusedInputs(t) == {}

\* Positions of t's inputs at which SpendUTXO returns false.
RefusedInputs(t) ==
    {j \in DOMAIN Inputs[t] : \/ ~Unspent(utxos, Inputs[t][j])
                              \/ \E i \in 1..(j - 1) : Inputs[t][i] = Inputs[t][j]}

\* (mutant) Nonces are not advanced.
KeepNonces(t) == accountNonces

updateAccountNonces(t) ==
    IF IsReward(t) THEN accountNonces
    ELSE [accountNonces EXCEPT ![Sender[t]] = Nonce[t]]

\* One iteration: processTransactionUTXOs, the nonce, the mempool.
ProcessTransaction ==
    /\ Processing
    /\ ~BlockDone(Head(adding))
    /\ LET b == Head(adding)
           t == Txs[b][txi]
       IN  /\ RefusedInputs(t) = {}
           /\ utxos' = AddUTXOs(SpendUTXOs(utxos, InputSet(t)), Outputs[t], b)
           /\ accountNonces' = updateAccountNonces(t)
           /\ RemoveTransaction(t)
           /\ txi' = txi + 1
    /\ UNCHANGED <<chainVars, indexVars, admitted, phase, removing, adding, commonParent,
                   oldBest, blockHistory, reorgWaiting, failed>>

\* How a call gives up, with bc.mu released by hand on the way out.
\* (mutant) The unlock is forgotten.
ReturnLocked == phase' = phase /\ adding' = adding

ReturnError == phase' = "idle" /\ adding' = <<>>

\* processTransactionUTXOs fails at the first refused input, and the call
\* returns the error: the inputs before it stay spent and nothing is undone.
RefuseTransaction ==
    /\ Processing
    /\ ~BlockDone(Head(adding))
    /\ LET t == Txs[Head(adding)][txi]
       IN  /\ RefusedInputs(t) # {}
           /\ utxos' = SpendUTXOs(utxos, {Inputs[t][i] : i \in 1..(Min(RefusedInputs(t)) - 1)})
    /\ ReturnError
    /\ failed' = failed \cup {phase}
    /\ UNCHANGED <<chainVars, indexVars, accountNonces, poolVars, removing, txi, commonParent,
                   oldBest, blockHistory, reorgWaiting>>

\* (mutant) bestBlock is forgotten.
KeepBestBlock(b) ==
    /\ blocks' = Append(blocks, b)
    /\ height' = Number(b)
    /\ bestBlock' = bestBlock

AppendBlock(b) ==
    /\ blocks' = Append(blocks, b)
    /\ height' = Number(b)
    /\ bestBlock' = b

\* The end of addBlockV2's normal case.
FinishExtend ==
    /\ phase = "extend"
    /\ BlockDone(Head(adding))
    /\ AppendBlock(Head(adding))
    /\ AddToHistory(Head(adding))
    /\ phase' = "idle"
    /\ adding' = <<>>
    /\ UNCHANGED <<indexVars, ledgerVars, poolVars, removing, txi, commonParent, oldBest,
                   reorgWaiting, failed>>

-----------------------------------------------------------------------------
(* reorganizeChain *)

\* The lock is taken again; the list to remove is walked from its end, which
\* holds the lowest block.  Genesis is on every walk, so "no common parent
\* found" is never returned (theorem CommonParentExists).
reorganizeChain(b) ==
    /\ CanTakeLock
    /\ b \in reorgWaiting
    /\ LET c == findCommonParent(blockIndex, bestBlock, b)
       IN  /\ commonParent' = c
           /\ removing' = BlocksAfter(c, bestBlock)
           /\ adding' = BlocksAfter(c, b)
    /\ phase' = "rollback"
    /\ txi' = 1
    /\ oldBest' = bestBlock
    /\ reorgWaiting' = reorgWaiting \ {b}
    /\ UNCHANGED <<chainVars, indexVars, ledgerVars, poolVars, blockHistory, failed>>

\* The positions in bc.blocks of the blocks that created output o; findTransactionByHash
\* and findBlockHashForTransactionUnsafe return what is at the lowest.
CreatedAt(o) ==
    {i \in DOMAIN blocks : \E t \in ToSet(Txs[blocks[i]]) : o \in Outputs[t]}

\* (mutant) Inputs are not restored.
KeepInputsSpent(t) == utxos

\* An input whose transaction is found is made unspent, and put back if it is
\* not in the map any more.
RestoreInputs(t) ==
    LET found == {o \in InputSet(t) : CreatedAt(o) # {}}
        back  == RestoreUTXOs(utxos, found)
    IN  [o \in DOMAIN utxos \cup found |->
            IF o \in DOMAIN utxos THEN back[o]
            ELSE [spent |-> FALSE, block |-> blocks[Min(CreatedAt(o))]]]

\* (mutant) Rewards are rolled back like payments.
RollbackAnyNonce(t) ==
    [accountNonces EXCEPT ![Sender[t]] = IF @ = Nonce[t] THEN Nonce[t] - 1 ELSE @]

RollbackNonce(t) ==
    IF ~IsReward(t) /\ accountNonces[Sender[t]] = Nonce[t]
    THEN [accountNonces EXCEPT ![Sender[t]] = Nonce[t] - 1]
    ELSE accountNonces

RollbackTransaction ==
    /\ phase = "rollback"
    /\ removing # <<>>
    /\ ~BlockDone(Head(removing))
    /\ LET t == Txs[Head(removing)][txi]
       IN  /\ accountNonces' = RollbackNonce(t)
           /\ utxos' = RestoreInputs(t)
    /\ txi' = txi + 1
    /\ UNCHANGED <<chainVars, indexVars, poolVars, phase, removing, adding, commonParent,
                   oldBest, blockHistory, reorgWaiting, failed>>

RollbackBlock ==
    /\ phase = "rollback"
    /\ removing # <<>>
    /\ BlockDone(Head(removing))
    /\ utxos' = RemoveUTXOs(utxos, Head(removing))
    /\ removing' = Tail(removing)
    /\ txi' = 1
    /\ UNCHANGED <<chainVars, indexVars, accountNonces, poolVars, phase, adding, commonParent,
                   oldBest, blockHistory, reorgWaiting, failed>>

\* bc.blocks is cut after commonParent, if it is there.
TruncateBlocks ==
    /\ phase = "rollback"
    /\ removing = <<>>
    /\ LET at == {i \in DOMAIN blocks : blocks[i] = commonParent}
       IN  IF at = {} THEN UNCHANGED <<blocks, height>>
           ELSE /\ blocks' = SubSeq(blocks, 1, Min(at))
                /\ height' = Number(commonParent)
    /\ phase' = "apply"
    /\ txi' = 1
    /\ UNCHANGED <<bestBlock, indexVars, ledgerVars, poolVars, removing, adding, commonParent,
                   oldBest, blockHistory, reorgWaiting, failed>>

ApplyBlock ==
    /\ phase = "apply"
    /\ adding # <<>>
    /\ BlockDone(Head(adding))
    /\ AppendBlock(Head(adding))
    /\ blockIndex' = blockIndex \cup {Head(adding)}
    /\ adding' = Tail(adding)
    /\ txi' = 1
    /\ UNCHANGED <<forkBlocks, ledgerVars, poolVars, phase, removing, commonParent, oldBest,
                   blockHistory, reorgWaiting, failed>>

FinishReorganize ==
    /\ phase = "apply"
    /\ adding = <<>>
    /\ RebuildHistory(blocks)
    /\ phase' = "idle"
    /\ UNCHANGED <<chainVars, indexVars, ledgerVars, poolVars, removing, adding, txi,
                   commonParent, oldBest, reorgWaiting, failed>>

-----------------------------------------------------------------------------
(* AddTransactionToMempool: the nonce is read under bc.mu, which is released
   before the pool's own mutex is taken. *)

CheckNonce(t) ==
    /\ IsReward(t) \/ CanTakeLock
    /\ validateTransactionNonce(t)
    /\ t \notin admitted
    /\ admitted' = admitted \cup {t}
    /\ UNCHANGED <<transactions, chainVars, indexVars, ledgerVars, callVars, blockHistory,
                   reorgWaiting, failed>>

AddToPool(t) ==
    /\ t \in admitted
    /\ AddTransaction(t)
    /\ admitted' = admitted \ {t}
    /\ UNCHANGED <<chainVars, indexVars, ledgerVars, callVars, blockHistory, reorgWaiting, failed>>

-----------------------------------------------------------------------------
AddBlockV2(b) == ExtendBestBlock(b) \/ StoreForkBlock(b)

\* Steps of a call that has begun.
CallStep ==
    \/ ProcessTransaction \/ RefuseTransaction \/ FinishExtend
    \/ RollbackTransaction \/ RollbackBlock \/ TruncateBlocks
    \/ ApplyBlock \/ FinishReorganize

Next ==
    \/ \E b \in Block : AddBlockV2(b) \/ reorganizeChain(b)
    \/ CallStep
    \/ \E t \in UserTx : CheckNonce(t) \/ AddToPool(t)

Spec == Init /\ [][Next]_vars

\* A goroutine that holds bc.mu runs on; a waiter for bc.mu gets it, since
\* sync.RWMutex hands the lock to a blocked writer.
CallFairness ==
    /\ WF_vars(CallStep)
    /\ \A b \in Block : SF_vars(reorganizeChain(b))

\* Peers offer every block again and again.
Redelivery == \A b \in Block : SF_vars(AddBlockV2(b))

FairSpec == Spec /\ CallFairness

RedeliverySpec == FairSpec /\ Redelivery

-----------------------------------------------------------------------------
(* What the chain state promises. *)

Phases == {"idle", "extend", "rollback", "apply"}

\* Every variable keeps its type; in particular no nonce goes below zero and
\* txi stays on the sequence it indexes.
TypeOK ==
    /\ transactions \subseteq Tx /\ admitted \subseteq Tx
    /\ blockIndex \subseteq Block /\ forkBlocks \subseteq Block /\ reorgWaiting \subseteq Block
    /\ blocks \in Seq(Block) /\ height \in Nat /\ bestBlock \in Block
    /\ blockHistory \in Seq(Block)
    /\ IsUTXOMap(utxos)
    /\ accountNonces \in [Address -> Nat]
    /\ phase \in Phases
    /\ removing \in Seq(Block) /\ adding \in Seq(Block) /\ txi \in Nat \ {0}
    /\ commonParent \in Block /\ oldBest \in Block
    /\ failed \subseteq Phases

\* The main chain is a path of the block tree: blocks runs from genesis to
\* bestBlock along ParentHash, so that blocks[n] is block number n, which
\* GetBlockByNumber and findTransactionByHash take for granted.  It holds
\* between calls unless a reorganization was given up half way (1388-1391).
ChainIsPath ==
    phase = "idle" /\ "apply" \notin failed
        => blocks = Path[bestBlock] /\ height = Number(bestBlock)

\* Readers of the main chain see it grow by whole blocks and change its last
\* block only for a longer chain: the node implements LongestChain.  While a
\* reorganization holds bc.mu its readers wait, and the chain is the old one.
mainChain == IF phase \in {"rollback", "apply"} THEN Path[oldBest] ELSE blocks

Abstract == INSTANCE LongestChain WITH
    known <- blockIndex, chain <- mainChain, sound <- failed = {}

ImplementsLongestChain == Abstract!Spec

\* The UTXO set that the blocks of a chain, and they alone, leave behind.
OnChain(chain, t) == \E b \in ToSet(chain) : Contains(Txs[b], t)
CreatedOn(chain) == UNION {Outputs[t] : t \in {u \in Tx : OnChain(chain, u)}}
SpentOn(chain) == UNION {InputSet(t) : t \in {u \in Tx : OnChain(chain, u)}}
Ledger(chain) ==
    [o \in CreatedOn(chain) |->
        [spent |-> o \in SpentOn(chain),
         block |-> CHOOSE b \in ToSet(chain) : \E t \in ToSet(Txs[b]) : o \in Outputs[t]]]

\* Between calls the incrementally maintained UTXO set is the one a replay of
\* the main chain would give, after any mix of extensions, stored forks and
\* reorganizations; unless an earlier block was refused half way.
LedgerIsReplay == phase = "idle" /\ failed = {} => utxos = Ledger(blocks)

\* Likewise every account's nonce is the highest nonce it used on the main chain, as
\* long as each payment's nonce is "exactly one higher than the last used nonce" (633) of
\* its own branch.  The code does not see to that: a block of another branch is compared
\* with the nonces of the main chain (1135), and a payment that is undone leaves its nonce
\* minus one (1317).
NoncesUsed(chain, a) ==
    {Nonce[t] : t \in {u \in Tx : ~IsReward(u) /\ Sender[u] = a /\ OnChain(chain, u)}}
LastNonce(chain, a) == Max(NoncesUsed(chain, a) \cup {0})
NoncesFollow(b) ==
    \A t \in ToSet(Txs[b]) : IsReward(t) \/ Nonce[t] = LastNonce(Front(Path[b]), Sender[t]) + 1
NoncesAreReplay ==
    phase = "idle" /\ failed = {} /\ (\A b \in blockIndex : NoncesFollow(b))
        => \A a \in Address : accountNonces[a] = LastNonce(blocks, a)

\* No output is spent by two transactions of the main chain, whatever the
\* miners put into their blocks and whatever was refused before.
NoDoubleSpend ==
    phase = "idle" =>
        \A t, u \in Tx :
            /\ OnChain(blocks, t) /\ OnChain(blocks, u)
            /\ InputSet(t) \cap InputSet(u) # {}
            => t = u

\* The difficulty of the next block is computed from the timestamps of the
\* main chain's last blocks, also after a reorganization.
HistoryIsWindow ==
    phase = "idle" /\ "apply" \notin failed => blockHistory = LastN(blocks, MaxHistory)

\* A reorganization undoes one block: validation lets a fork block in at the
\* tip's height only next to the tip, so the rollback loop, which goes oldest
\* block first, never has two blocks to put in order.
OneBlockRollback == phase = "rollback" /\ failed = {} => Len(removing) <= 1

\* No indexed block is on a longer chain than bestBlock, once every call has
\* returned (a refused block stays in the index and may be).
BestIsLongest ==
    phase = "idle" /\ reorgWaiting = {} /\ failed = {}
        => \A b \in blockIndex : Number(b) <= Number(bestBlock)

\* The mempool stays within its limit through any mix of submissions and blocks.
PoolIsBounded == Cardinality(transactions) <= MaxSize

\* A reorganization that completes ends on a strictly longer chain than the one
\* it left ("if new chain is longer, reorganize", line 446).
ReorganizationsGrow ==
    [][phase = "apply" /\ adding = <<>> /\ phase' = "idle"
           => Number(bestBlock') > Number(oldBest)]_vars

\* A block that AddBlockV2 refuses leaves nothing behind: between calls every
\* output in the UTXO set was created by a block of the main chain
\* ("addBlockV2 adds a block atomically", line 345).
OutputsAreOnChain ==
    phase = "idle" => \A o \in DOMAIN utxos : utxos[o].block \in ToSet(blocks)

\* Every call to AddBlockV2 returns with bc.mu free, also a call that fails or
\* that gave the lock up before its reorganization.
CallsReturn ==
    /\ []<>(phase = "idle")
    /\ \A b \in Block : []<>(b \notin reorgWaiting)

\* A node that is offered every block until it takes it ends on a longest chain.
LongestChainWins == <>[](\A b \in Block : Number(b) <= Number(bestBlock))

-----------------------------------------------------------------------------
(* The inductive invariant behind ChainIsPath, BestIsLongest, OneBlockRollback,
   ReorganizationsGrow and ImplementsLongestChain. *)

\* With every block its whole path is indexed, so the walks end at genesis.
IndexIsClosed ==
    /\ Genesis \in blockIndex
    /\ \A b \in blockIndex : ToSet(Path[b]) \subseteq blockIndex

\* The blocks a call works with are indexed.
WorkIsIndexed ==
    /\ bestBlock \in blockIndex /\ oldBest \in blockIndex
    /\ reorgWaiting \subseteq blockIndex
    /\ ToSet(adding) \subseteq blockIndex
    /\ phase = "extend" => Len(adding) = 1

\* One caller: a call that waits to reorganize is the only call.
OneCall ==
    /\ \A b, c \in reorgWaiting : b = c
    /\ phase # "idle" => reorgWaiting = {}

\* Block c is on best's chain up to the block before best, if it is as high.
ForksAtTip(c, best) ==
    Number(c) >= Number(best)
        => SubSeq(Path[c], 1, Number(best)) = SubSeq(Path[best], 1, Number(best))

\* Every indexed block but the one a call is about to adopt is no higher than
\* best and forks at most at best's parent; without refused blocks only.
Outgrown(best, new) ==
    failed = {} => \A c \in blockIndex : /\ ForksAtTip(c, best)
                                         /\ c \notin new => Number(c) <= Number(best)

IdleInv ==
    phase = "idle" =>
        /\ \A b \in reorgWaiting : Number(b) > Number(bestBlock)
        /\ Outgrown(bestBlock, reorgWaiting)

ExtendInv ==
    phase = "extend" =>
        /\ Path[Head(adding)] = Append(Path[bestBlock], Head(adding))
        /\ Outgrown(bestBlock, {Head(adding)})

\* What is still to add is the end of the way to a block higher than oldBest,
\* and when nothing is left bestBlock is that block.
AdoptInv ==
    phase \in {"rollback", "apply"} =>
        \E b \in blockIndex :
            /\ Number(b) > Number(oldBest)
            /\ Len(adding) < Len(Path[b])
            /\ adding = SubSeq(Path[b], Len(Path[b]) - Len(adding) + 1, Len(Path[b]))
            /\ adding = <<>> => bestBlock = b /\ phase = "apply"
            /\ Outgrown(oldBest, {b})
            /\ phase = "rollback" =>
                  /\ bestBlock = oldBest
                  /\ commonParent = Path[b][Len(Path[b]) - Len(adding)]
                  /\ commonParent \in ToSet(Path[oldBest])
            /\ phase = "apply" /\ "apply" \notin failed =>
                  /\ blocks = SubSeq(Path[b], 1, Len(Path[b]) - Len(adding))
                  /\ height = Len(blocks) - 1

MainChainInv ==
    "apply" \notin failed /\ phase # "apply"
        => blocks = Path[bestBlock] /\ height = Number(bestBlock)

\* What holds with any number of callers, and all of it with one.
HistoryInv ==
    phase \in {"idle", "extend"} /\ "apply" \notin failed
        => blockHistory = LastN(blocks, MaxHistory)

BaseInv == TypeOK /\ IndexIsClosed /\ WorkIsIndexed

SingleInv ==
    OneCall /\ IdleInv /\ ExtendInv /\ AdoptInv /\ MainChainInv /\ OneBlockRollback

IndInv == BaseInv /\ (~Concurrent => SingleInv)

-----------------------------------------------------------------------------
(* The inductive invariant behind LedgerIsReplay, NoDoubleSpend and NoncesAreReplay. *)

\* A place is a block and an index into its transactions.
TxAt(p) == Txs[p[1]][p[2]]
Places(B) == UNION {{b} \X DOMAIN Txs[b] : b \in B}
FirstPlaces(b, n) == {b} \X (1..n)

\* us holds the outputs created at the places of C, those that a place of S spends as spent.
IsBook(us, C, S) ==
    /\ \A o \in OutPoint : o \in DOMAIN us <=> \E p \in C : o \in Outputs[TxAt(p)]
    /\ \A o \in DOMAIN us : us[o].spent <=> \E p \in S : o \in InputSet(TxAt(p))
    /\ \A p \in C : \A o \in Outputs[TxAt(p)] : us[o].block = p[1]

\* At the places of P every transaction stands once, spends what no other one spends
\* and what was created no higher up.
IsSound(P) ==
    \A p \in P :
        /\ \A q \in P : p # q => /\ TxAt(p) # TxAt(q)
                                 /\ InputSet(TxAt(p)) \cap InputSet(TxAt(q)) = {}
        /\ \A o \in InputSet(TxAt(p)) :
               \E q \in P : o \in Outputs[TxAt(q)] /\ Number(q[1]) <= Number(p[1])

\* n is the highest nonce of a's payments at the places of P.
NoncesAt(P, a) ==
    {Nonce[TxAt(p)] : p \in {q \in P : ~IsReward(TxAt(q)) /\ Sender[TxAt(q)] = a}}
IsLastNonce(n, P, a) ==
    /\ n \in NoncesAt(P, a) \cup {0}
    /\ \A m \in NoncesAt(P, a) : m <= n

\* The places whose transactions are in the ledger, while blocks are added ...
placed ==
    Places(ToSet(blocks)) \cup
        (IF adding = <<>> THEN {} ELSE FirstPlaces(Head(adding), txi - 1))

\* ... and those whose inputs and nonces are, while bestBlock is undone.
undone == FirstPlaces(bestBlock, txi - 1)

WorkInv ==
    /\ phase = "idle" => adding = <<>>
    /\ phase \in {"extend", "apply"} /\ adding # <<>> => txi <= Len(Txs[Head(adding)]) + 1
    /\ phase = "rollback" /\ removing # <<>> =>
          /\ removing = <<bestBlock>> /\ bestBlock # Genesis /\ commonParent = Parent(bestBlock)
          /\ txi <= Len(Txs[bestBlock]) + 1

LedgerInv ==
    /\ phase # "rollback" => IsBook(utxos, placed, placed) /\ IsSound(placed)
    /\ phase = "rollback" =>
          IF removing = <<>>
          THEN LET kept == Places(ToSet(Path[commonParent]))
               IN  IsBook(utxos, kept, kept) /\ IsSound(kept)
          ELSE LET all == Places(ToSet(blocks))
               IN  IsBook(utxos, all, all \ undone) /\ IsSound(all)

NonceInv ==
    (\A b \in blockIndex : NoncesFollow(b)) => \A a \in Address :
        /\ phase # "rollback" => IsLastNonce(accountNonces[a], placed, a)
        /\ phase = "rollback" =>
              IsLastNonce(accountNonces[a],
                          IF removing = <<>> \/ NoncesAt(undone, a) # {}
                          THEN Places(ToSet(Path[commonParent])) ELSE Places(ToSet(blocks)), a)

ReplayInv == failed = {} => WorkInv /\ LedgerInv /\ NonceInv
=============================================================================
