# A TLA+ model of the Kalon node

This directory holds TLA+ modules for the Kalon node (`src/`, Go), TLC
configurations that check them on small instances, and proofs that TLAPS checks
for every instance. Line numbers refer to `src/core/blockchain.go` unless
another file is named.

- [1. The system](#1-the-system)
- [2. Modules](#2-modules)
- [3. What the runs check](#3-what-the-runs-check)
- [4. What is proved](#4-what-is-proved)
- [5. Findings](#5-findings)
- [6. What is left out](#6-what-is-left-out)
- [7. Plan](#7-plan)

## 1. The system

A node keeps a proof-of-work block chain with unspent outputs (UTXOs), account
nonces and named tokens. It takes blocks from miners over JSON-RPC and from
peers over TCP, decides between forks by chain length, and persists blocks in
LevelDB.

### Components

| component | state | operations | made correct by |
|---|---|---|---|
| Blockchain core (`core/blockchain.go`) | `blocks`, `height`, `bestBlock`, `blockIndex`, `forkBlocks` under `bc.mu` | `AddBlockV2`, `reorganizeChain`, queries | the main chain is a path of the block tree, only ever replaced by a longer one |
| UTXO set (`core/utxo.go`) | map of output keys to outputs, own mutex | add, spend, restore, remove by block | equals a replay of the main chain; nothing is spent twice |
| Account nonces (635-718) | `accountNonces`, under `bc.mu` | validate, update, roll back | the highest nonce used on the main chain |
| Block history (240-311) | window of timestamps, own mutex | add, rebuild, read | the last blocks of the main chain |
| Mempool (1840-2040) | map of pending transactions, own mutex | add with eviction, remove, list | stays within its limits |
| Tokens (768-986, 1566-1724, 2615-2831) | `deployedTokens`, `tokenBalances` | deploy, transfer, restore | a name is given once; transfers keep the sum; a restart gives the same answers |
| Templates and payments (563-630, 2043-2365) | none of their own | build a payment, a block template, the reward | the template is a block that the node would take, and pays what it may |
| Seed nodes (2368-2498, `rpc/server_v2.go` 2299-2946) | `seed-nodes.json`, `seedNodeInfo` | register, update, write back, load | only an approved seed is held; registrations keep each other's entries |
| Event bus, state manager (2900-2958) | subscribers' channels, a map | emit, subscribe, set | what is added reaches the broadcaster |
| Consensus (`core/consensus.go`, `core/types.go`) | none | difficulty, target, merkle root, hash, fees | creation and validation agree; what is paid out adds up |
| Snapshots (`core/snapshot.go`) | balances in the genesis configuration | restore as outputs | balances survive a restart |
| Storage (`storage/leveldb.go`) | `block_hash_*`, `block_number_*`, `best_block` | store, look up | a restart finds the main chain |
| P2P (`network/p2p.go`, `network/converter.go`) | peer table and connections under two mutexes | connect, accept, message handlers, clean-up, stop | one entry per live connection; `Stop` returns; blocks spread |
| Node (`cmd/kalon-node-v2`) | the components above, started and stopped | start, stop, synchronise | a node behind its peers catches up |
| RPC server (`rpc/server_v2.go`) | rate-limit windows, connection tables | templates, submission, transactions, queries | a submission is answered and limited as configured |
| Miner (`mining/`, `cmd/kalon-miner-v2`) | the job it works on | fetch a template, search, submit | submits what it was given |
| Wallet, cryptography, SDK, scripts | files | client tools | outside the node's concurrent state |

### How they interact

RPC handlers and peer connections each run on a goroutine and call
`AddBlockV2`. It takes `bc.mu`, tests the block, and then does one of three
things: process its transactions and append it; keep it as a fork block; or,
when the fork is longer, *release* `bc.mu` and call `reorganizeChain`, which
takes it again, undoes the blocks above the common parent and applies the new
ones. The UTXO set, the mempool and the block history have mutexes of their own,
so their readers run between the iterations of these loops. After `bc.mu` is
released the block is written to storage with three separate Puts.
`AddTransactionToMempool` reads the nonce under `bc.mu` and enters the pool
after releasing it. A template reads chain, history and mempool one after the
other. Block and reorganization events go to subscribers through buffered
channels that drop what does not fit.

A miner (`cmd/kalon-miner-v2`) is a client over HTTP: it fetches a template, checks
three times that it is still current, searches, and submits, each request repeated
when it fails. A wallet has the node prepare a payment, signs it and sends it back.
The node broadcasts the blocks of the bus to all peers, and a peer's blocks go
through the converter into `AddBlockV2`. Handlers of tokens take `bc.mu` for the name
check and again for the deployment; those of seed nodes read and write their file
without a lock.

### What is hard

- **Interleaving.** The lock gaps of `addBlockV2` (394, 452), of
  `AddTransactionToMempool` (1018) and of the template; the two mutexes of the
  peer table, taken in both orders.
- **Partial failure.** A block is refused at its second payment (500), a
  reorganization while it applies a block (1388); nothing is undone.
- **Sequences.** Nonces of one account over several blocks and reorganizations;
  fork blocks at the tip's height are validated against the tip's parent (374),
  and the rollback loop goes oldest block first (1307).
- **Crashes.** `StoreBlock` is three Puts; a reorganization stores several
  blocks over the keys of the old branch.
- **Delivery.** Peers come and go, blocks arrive in any order and more than once,
  version messages carry no height, and replies to a miner get lost. A block from a peer
  has lost its inputs, and with them the test of its nonces (668).
- **Staleness.** A template is read under six locks and searched for a while; an answer
  to a peer is read block by block (`kalon-node-v2/main.go` 499-548) and added block by
  block (`p2p.go` 646-674), with `bc.mu` free in between; clocks differ; validation
  computes the difficulty from its own clock; a file is changed from a copy that was
  read earlier.
- **Replays.** A restart rebuilds token balances in another order than blocks
  made them.

`PROJECT.json` lists these as hazards, line by line, with the properties that
would catch each.

## 2. Modules

| module | models | notes |
|---|---|---|
| `BlockTree` | blocks, their ancestors and the walks along `ParentHash` (1157-1240, 1264-1301) | `Path[b]` is the sequence from genesis to `b`; a walk stops at the first block missing in the index it is given |
| `UTXOSet` | `core/utxo.go` | a map as a function on the keys present; each method is a function from map to map |
| `Mempool` | `Mempool.AddTransaction` (1890-1954) | both limits, eviction of a lowest fee, ties broken by Go's map order |
| `Blockchain` | `addBlockV2`, `reorganizeChain`, `AddTransactionToMempool`, `BlockHistory` | extends the three above; storage is nil, as in the repository's tests |
| `LongestChain` | what the readers of the main chain are promised | abstract; implemented by `Blockchain` |
| `Storage` | `BlockStorage` (`storage/leveldb.go` 215-325) | one action per Put or Get |
| `Persistence` | start, chain loading, the parent fetch and the storing half of `addBlockV2`, crashes | extends `Storage`; payments are left out |
| `Peers` | `network/p2p.go`: the peer table, the goroutines of the connections, discovery, clean-up, `Stop`, both locks | message handlers are in `Sync` |
| `Sync` | `cmd/kalon-node-v2`, the message handlers of `p2p.go`, `converter.go`, `EventBus` | several nodes, FIFO connections that break |
| `Consensus` | `CalculateDifficulty`, target, reward and fees (`core/consensus.go`, `core/types.go`) | functions only |
| `Mining` | preparing, sending and selecting payments, templates, `cmd/kalon-miner-v2`, `handleSubmitBlock`, the limit on submissions | extends `Consensus` |
| `Tokens` | tokens in memory, in blocks, after reorganizations and restarts | the three passes of `loadChainFromStorage` step by step |
| `SeedRegistry` | `seed-nodes.json`, its RPC handlers and `loadSeedNodeWallets` | every read, truncation and write is a step |
| `MCBlockchain`, `MCPersistence`, `MCPeers`, `MCServices` | values of the constants for TLC | `MCServices` runs `Tokens`, `SeedRegistry`, `Mining` and `Sync` |
| `SequenceLemmas`, `BlockTreeProofs` | lemmas about numbers, sequences, folds, paths and walks | used by all modules below |
| `BlockchainProofs`, `LedgerProofs`, `StorageProofs`, `ServiceProofs`, `MiningProofs`, `SyncProofs` | theorems | section 4; `ServiceProofs` is about `Tokens`, `SeedRegistry` and `Peers` |

Operators marked `(mutant)` are faulty variants kept beside the operator they
vary: a dropped guard, a missing reset, a comparison the wrong way round. They
are used by no specification. Substituting one for the original must break the
property that `PROJECT.json` names for it, which shows that the property depends
on that line of the code.

### Blockchain: state and actions

`blockIndex`, `blocks`, `height`, `bestBlock`, `utxos` and `accountNonces` are
the fields of the same name. `forkBlocks` is the union of the lists of that map
(only "is the parent a fork block" is asked of it, and the answer does not
matter, see `IsFork`). `blockHistory` holds blocks in place of their
timestamps. `phase`, `removing`, `adding`, `txi` and `commonParent` are the local
variables of the call that holds `bc.mu`; `phase = "idle"` means it is free.
`reorgWaiting` holds the calls between the two critical sections of a
reorganization, and `admitted` the submissions between the nonce check and the
pool. `oldBest` and `failed` are history variables; `failed` says in which loop a
block was refused.

| action | code |
|---|---|
| `ExtendBestBlock` | `addBlockV2` up to its loop, when the block extends `bestBlock` |
| `StoreForkBlock` | the fork case, up to `Unlock` at 452 or 477 |
| `ProcessTransaction`, `RefuseTransaction` | one iteration of either transaction loop; `processTransactionUTXOs` succeeds or fails |
| `FinishExtend` | 517-553 |
| `reorganizeChain` | 1243-1304, taking the lock |
| `RollbackTransaction`, `RollbackBlock`, `TruncateBlocks` | 1306-1377 |
| `ApplyBlock`, `FinishReorganize` | 1379-1443 |
| `CheckNonce`, `AddToPool` | the two halves of `AddTransactionToMempool` |

Blocks are those that miners produce: merkle root, count, signatures and proof of
work are right, so of `validateBlockV2WithParent` the tests on the parent and on
the nonces remain. A block refused for difficulty or timestamp is a block that is
not delivered. A block's transactions, their inputs, outputs, senders and nonces
are constants. `TxAssumption` requires of them that an output
belongs to one transaction, and that a payment has a nonce above zero (the check at
674-680 lets no other into a block); `RewardAssumption`, that a reward stands in one
block only (2333).

`Concurrent` says whether a call may begin while another waits at line 452.

### Persistence: state and actions

`byHash`, `byNumber` and `best` are the three kinds of keys; `storing` maps each call
that stores to its remaining blocks and the next Put or Get. `applied`, the blocks whose
transactions are in the UTXO set, stands for the ledger. `Start` is `NewBlockchainV2`
with its three outcomes: nothing stored, all loaded, and half loaded (2562-2569, where
`blocks` and `bestBlock` are reset and the index and the outputs are not; the genesis
block is then refused as a duplicate, so `bestBlock` stays nil). `Crash` ends the
process; the database keeps every Put that returned. Power loss that takes back such a
Put is not modelled. `AddBlock`, `AddToNothing`, `FetchParent`, `FinishFetch` and
`DropFetch` are `addBlockV2` with storage; its critical sections are single steps here.
`FinishFetch` accepts a parent that is in storage or the parent of a fork block
(409-412).

`trouble` records what has gone wrong so far: `overlap` (a block was added while
another was being stored), `error` (a Put or Get failed), `torn` (a crash during
the storing of a reorganization). Properties say which of these they survive.

### Peers: state and actions

Lines are of `network/p2p.go`. `stage` says where the goroutine of each
connection is, `open` which connections this node has not closed. `peers` is the
map of that name as the set of its connections: `Insert` and `WithoutID` go by ID, as
the map does. `peerMutex` and `mu` are the two locks, and a step that needs one for
a single section only tests that it is free; the three operations that hold one
lock and wait for the other (`addPeer`, `GetNetworkInfo`, `Stop`) are two actions
each. `stopped` is the closed `stopChan`.

| action | code |
|---|---|
| `Accept`, `CheckWhitelist`, `CloseConn` | 320-392, `acceptConnections`, `handleConnection` and its deferred `Close` |
| `connectToSeedNodes`, `DialSeed`, `Dialled`, `DialFails` | 839-928, one tick of `discoverPeers` and the dials it starts |
| `LockPeers`, `addPeer` | 781-826 |
| `StopReading`, `removePeer` | 395-431, 829-838 |
| `cleanupInactivePeers` | 931-961 |
| `BeginInfo`, `EndInfo` | 964-990 |
| `BeginStop`, `EndStop` | 198-225 |

The ticks go on after `Stop`, because Go's `select` takes either ready case. The
seeds of a tick are looked at in any order. One reader of `GetNetworkInfo` stands
for any number, since a read lock that is held only keeps writers out. A
connection is used once: `Conn` bounds the connections over the life of the network.

### Tokens: state and actions

`deployedTokens` and `tokenBalances` are the fields of the same name; a balance is kept
under an address in hex or, after a deployment over RPC, under the text that the client
wrote, which `getTokenBalance` never looks up. `tokenChain` is the main chain as its
transactions, in which one may stand twice: the nonces of a transaction without inputs
are not tested (637, 668), and the blocks of peers have no inputs. `todo` is what the
loop in progress has still to process, and `deploying` the calls of `handleDeployToken`
between the check of the name and `DeployToken`. A reorganization applies only transfers
to the tokens and undoes nothing, as 1380-1412 do. `processedTxHashes` are the transfers
that the last pass of a restart has tried so far, each of which it tries once (2673).
`RestoreDeployment` models the second pass of a restart, whose branch for an unknown
name is never taken because the first pass has entered every name of the chain.

| action | code |
|---|---|
| `ExtendTokens`, `ReorganizeTokens` | the start of the loops at 486 and 1388 |
| `ProcessDeployment`, `ProcessTransfer`, `SkipTx` | 768-986, one transaction |
| `RefuseTokenBlock`, `FinishBlocks` | the ends of those loops |
| `CheckTokenName`, `handleDeployToken` | `handleDeployToken`, `DeployToken` (1566) |
| `RestartTokens`, `RestoreDeployment`, `ReplayTransfer`, `FinishLoop` | 2615-2831 |

### SeedRegistry: state and actions

`fileState` and `registry` are the file, `seedCalls` the requests under way with the
list that each has read. `Begin...` is a request up to its read; `Truncate` and
`WriteList` are the two halves of `os.WriteFile`. A file truncated by one request and
written by another already may keep the tail of the longer list and no longer parse
(`Written`, "spoiled"); `WriteListFails` leaves it truncated or spoiled. `ReadForLoad`
and `SetInfo` are `loadSeedNodeWallets`, which takes `bc.mu` only for the second.
`RestartSeeds` ends the process at any point. `expected` and `approved` are history:
what was last confirmed to a client, and what an update has made active.

### Mining: state and actions

Lines are of `cmd/kalon-miner-v2/main.go` (M), `rpc/server_v2.go` (R) and
`blockchain.go` (B). `jobs` says what each worker of one miner is doing; a template is
read by `ReadTip`, `ReadHistory`, `ReadPool` and one `SelectPayment` for each payment (B
2043-2300), so blocks of others come between any two of them. `CheckHeight`, `CheckBest`
and `CheckMiningInfo` are the miner's three requests before it searches; one that fails
counts as passed. `Submit` is the node's half of a submission (limit, tests, effect on
the chain), `Answered` and `TryAgain` the miner's. `OthersExtend` and `OthersReorganize`
are whole calls of `addBlockV2`, whose steps `Blockchain` shows. The time of a block of
others is `clock` plus one of `Drifts`: their clocks differ, and validation (B 1081)
refuses a time before the parent's but none ahead of its own clock, so that a template
made here may be older than its parent. A payment that is sent is tested
(`handleSendTransaction`, B 1017) and enters the pool (`AddTransactionToMempool`, B
1028) in two critical sections, and may enter again after it was mined. `HasTreasury`
says whether a treasury address is configured; without one nobody is paid its part (B
2218), which is `Withheld`. A payment spends one coin and leaves one; the outputs of the
snapshot are there from the start. One unit of `clock` is 15 seconds. `Delays` are one
target, more than two targets and more than the miner's `templateTTL`, and more than the
five minutes of `StuckWait`; twice the last is more than the ten of `TimeoutWait`.

### Sync: state and actions

`nodes` holds for each node its stored blocks, tip, outputs and the events that wait in
the broadcaster's channel; `wire` the messages of each connection in order; `told` is
`Peer.Height`. `handling` holds, for each connection, the goroutines that add the blocks
of a message, with the block each has come to: one for the connection, and those of
connections that have broken since, which go on. Between two of their blocks `bc.mu` is
free, and the goroutines of other connections, miners and readers take their turns.
`answering` is an answer being read (`kalon-node-v2/main.go` 499-548), its height first
and then block after block.

| action | code |
|---|---|
| `SubmitBlock`, `BroadcastBlock` | a block from a miner; the loop over `blockAddedChan` |
| `RequestBlocks`, `ReceiveVersion`, `SendVersion` | `syncBlocks` and the heights it goes by |
| `ReceiveBlock`, `ReceiveAnswer` | a message is taken off the connection; its blocks become a goroutine's |
| `AddNextBlock`, `RefuseNextBlock` | `addBlockV2` for one block, up to `Unlock` |
| `ReorganizeChain` | `reorganizeChain`, which takes `bc.mu` anew |
| `ReceiveGetBlocks`, `ReadBlock`, `SendAnswer` | the handler of `get_blocks`: height, each block, reply |
| `IgnoreBlocks`, `SetupP2PIntegration` | handlers that are not set yet; setting them |
| `Disconnect`, `Reconnect` | the end of a connection, and the next one |

`ReorganizeChain` may find a higher tip than its own block ("back" in `syncTrouble`), as
in finding 1. Before `SetupP2PIntegration` blocks are added and nobody is told. A
version message of this code carries no height; `HeightSenders` are peers whose messages
do, and only from these does `syncBlocks` ever ask. `RefuseNextBlock` lets validation
refuse any block it is given, because the difficulty depends on the time of the test.

## 3. What the runs check

| run | configuration | question | result |
|---|---|---|---|
| `chain` | `MCBlockchain.cfg` | one call at a time, 11 blocks, user submissions | holds |
| `concurrent` | `MCConcurrent.cfg` | calls interleave at line 452 | holds |
| `converges` | `MCConverges.cfg` | blocks offered until taken | holds |
| `restart` | `MCRestart.cfg` | crashes, storage errors, overlapping calls | holds |
| `peers` | `MCPeers.cfg` | connections that replace, outlive and remove each other | holds |
| `services` | `MCServices.cfg` | tokens, seed registry, mining and synchronisation, one of them in each behaviour | holds |
| `chain_race` | `MCRace.cfg` | does a concurrent reorganization still grow the chain? | violated |
| `deep_fork` | `MCDeepFork.cfg` | does the longest chain win from two blocks below? | violated |
| `refused_block` | `MCRefused.cfg` | does a refused block leave nothing? | violated |
| `torn_store` | `MCTornStore.cfg` | is a chain loaded after a crash in a reorganization? | violated |
| `stop_blocks` | `MCStop.cfg` | does `Stop` return while a connection is being added? | violated |
| `same_tip` | `MCSameTip.cfg` | do nodes with one tip have one ledger? | violated |

### Properties

- `ChainIsPath`: between calls `blocks` is the path of `bestBlock`, so
  `blocks[n]` has number `n`. Broken only by a reorganization given up half way,
  which the property names by its history variable.
- `LedgerIsReplay`, `NoncesAreReplay`: the incrementally kept UTXO set (spent
  flags and creating block included) and nonces equal what a replay of the main
  chain gives, after any mix of extensions, forks and reorganizations. For the nonces
  this has a premise that the code does not establish: each payment's nonce follows the
  last one *of its own branch* (`NoncesFollow`). Line 1135 compares the blocks of every
  branch with the nonces of the main chain, so it lets in a fork block whose payment
  follows the wrong chain; undone later, the account keeps that nonce minus one (1317),
  which is not what the rest of its chain used. It also refuses a fork block with a
  payment that the main chain has mined as well. The tree of `MCBlockchain` meets the
  premise.
- `NoDoubleSpend`: no output is spent by two transactions of the main chain,
  also with blocks that try it and after refused blocks.
- `HistoryIsWindow`: the timestamps for the next difficulty are those of the main
  chain's last blocks.
- `OneBlockRollback`: a reorganization undoes at most one block. Validation at
  the tip's height (374) enforces it, and the rollback loop depends on it: with
  two blocks to undo, oldest first, the rollback of the newer would put back the
  outputs of the older that were just removed.
- `BestIsLongest`: once all calls have returned no indexed block is on a longer
  chain.
- `PoolIsBounded`: the mempool keeps its limit.
- `ReorganizationsGrow` (action property): a completed reorganization ends on a
  longer chain than it left.
- `ImplementsLongestChain` (refinement): readers see a chain that is the path of
  a known block, is replaced only by a longer one and is never rewritten below
  its last block. Readers wait during a reorganization, so `mainChain` is the old
  chain until it ends.
- `CallsReturn`, `LongestChainWins` (liveness): every call ends with `bc.mu` free;
  a node that is offered every block until it takes it ends on a longest chain.
- `TipIsStored`: the block `best_block` names can be read back, in every state,
  whatever fails. `DiskMirrorsMemory`: with nothing left to store, disk is the
  main chain. `LoadsPath`: what a start loads is a path and its ledger.
  `RestartKeepsChain` (action property): a restart costs at most the last block.
- `OneEntryPerIP`: the table is a map by ID, and a node is listed under its IP
  only once although it has its seed address and the ports of its own connections.
- `ListedIsHandled`: a listed connection is open, has a goroutine that will remove
  it and is not to the node itself, also after replacements, removals by another
  connection's goroutine, clean-up, and additions that come after `Stop`. The
  converse does not hold: a replaced connection is read on without an entry (see
  the hazards at 818 and 829).
- `FirstDeployerKeepsName` (action property), `BalancesAreOfTokens`: while the node runs
  a name keeps its creator and supply, whichever of two calls and blocks comes first,
  and no balance is of an unknown name. `TransfersConserveTokens` (action property):
  only deployments change the sum of a token's balances, so neither a transfer to
  oneself, a refused block, a reorganization nor a replay makes or loses any.
  `RestartKeepsBalances` (action property): the passes of a restart give the balances
  that the blocks gave, for chains on which their order cannot matter and which have no
  transfer twice (`Orderly`), if nothing was refused or taken back. On a chain with a
  transfer twice they differ: blocks apply it each time, a restart once. `TokensTypeOK`
  holds that no balance wraps below zero.
- `RegistrationsAreKept`, `RejectedIsForgotten`: when requests do not overlap and no
  write was torn, the file has what clients were told, and memory has no rejected seed.
  `HeldSeedsWereApproved`: with any overlap and any torn write, a seed in memory was
  made active with that wallet.
- `FreshBlockIsAdded` (action property): a block whose parent is still the tip is added,
  whatever came between the reads of its template and whatever the clocks of other
  miners, but for the exceptions it names: the limit, a parent whose time the template's
  is before, a difficulty that has changed with time, payments that spend what is gone,
  and the traces of a block refused half-way. `SubmittedOnce`: repeated submissions put
  no block on the chain twice, and what was reported as accepted is known to the node.
  `LimitHolds`: in any minute at most the limit of an address is let through;
  submissions of the node's own host are not limited (`rpc/server_v2.go` 1936), and that
  an address may be taken from `X-Forwarded-For` is not in the model.
  `RewardsAreCovered`: a template pays out what its height and its own payments allow,
  up to one rounded unit and what is `Withheld`; the run has a treasury address, the
  theorem either case. `ClampsAgree`: creation and validation compute one difficulty for
  the next block, except between five and ten minutes after a block of least difficulty.
- `ChainsAreClosed`: no node keeps a block without its parent. `QuietNodesAgree`: when
  no block is under way and nothing has gone wrong, nodes that are connected only
  through others have one tip. `AnswersCloseGaps` (action property): of an answer that
  is of one branch, the one that the tip was on when the answer came, no block is
  dropped for a missing parent. Gossip, miners and other answers come between its
  blocks; the first that is not kept was refused by validation, or has met a tip of its
  own height with another parent, after gossip of a longer sibling branch for instance.
  An answer that was read while its sender reorganized may be of two branches, and a
  reorganization that goes back ("back") takes the tip away; the property leaves both
  out.

### Bounds, and why they are enough

`MCBlockchain` draws the tree. It has a fork at the tip, branches that overtake
and are overtaken, and a branch (`f3`, `f4`) that can only be taken when the tip
is low. Its payments are one account's two consecutive nonces where the
second spends the first's outputs (created and spent in removable blocks), a
payment of another account on the other branch, and pairs with one nonce and the
same inputs, which is what `CreateTransactionWithData` returns when it is called
twice before a block is mined: such a block passes the nonce test, which compares
every transaction with the state before the block, and fails in the loop.
`MaxHistory = 2` makes the window slide; `MaxSize = 2` and `MaxMemory = 3` put the
pool at both limits with three submissions. Since a rollback never exceeds one
block (proved for one caller), a deeper tree repeats the same situations.
`MaxFee` stands for the largest `uint64`, the start value of the running minimum.

`concurrent` and the violation runs use subtrees, because waiting calls multiply
the states. Each subtree keeps a fork that overtakes the tip while the tip is
extended.

`restart` has two branches over one block, the second overtaking the first;
`MaxFaults = 2` bounds crashes and storage errors together, so that a crash can
meet the result of an earlier crash or of an error, and `MaxCalls = 2` bounds the
calls that store or fetch at a time. Deadlock is not checked there and in
`torn_store`: once all blocks are added and the faults used up, nothing happens.

`peers` has two dials to one seed (the same ID), a connection from the same node
(another ID, the same IP), one that the whitelist refuses and one to the node
itself: every way in which two entries can meet. An entry concerns only the
connections of its own IP, so more nodes add nothing. Deadlock is not checked there
and in `stop_blocks`: when all connections of the bound have ended nothing need
happen. `stop_blocks` needs one connection that is added and one call to `Stop`.

`services` chooses at the start which of four parts a behaviour is about (`focus`); the
others stay still, so the states are the sum and not the product of the four: about one
million.

- *Tokens* (`focus` is "tokens"): one name (names do not meet), two accounts, two
  deployments of the name with different supplies, a transfer to the other account and
  one to oneself, blocks that put them in either order, three branches, a chain of three
  blocks, any of which may repeat the transactions of another. Between two starts one
  block is refused and one reorganization happens (`Once`), because each may add to the
  balances without end.
- *Seeds* ("seeds"): two addresses of one host, so that their entries meet in memory,
  two wallets, two overlapping requests, three requests in all. The third makes it
  possible that a stale list is written over an update.
- *Mining* ("mining"): `Budgets` are nine mixes of payments, templates, found blocks,
  blocks of others and clock steps, each large in what one question needs: two payments,
  one of which a block of others may take, with a template; a payment with a
  reorganization by others; two payments with three blocks of others; two templates of
  two workers with a payment; two with a clock step; one of each with a clock step;
  blocks of others between clock steps; three clock steps, which reach every branch of
  `CalculateDifficulty` but the launch guard. `MCDrifts` are a clock behind, one in step
  and one ahead by more than a target. `MaxTries = 2` repeats a submission once with its
  reply lost; the limit of one per minute is met by the second.
- *Sync* ("sync", "gossip", "pair"): three nodes in a line, so that the middle one
  passes on. `SyncBudgets` are two blocks with a broken connection and a request, and
  two with a refused block and a request ("sync"); three blocks with nothing going
  wrong, more than `EventBuffer` ("gossip"); four blocks and a request between two of
  the nodes ("pair"), which gives an answer of two blocks that meets a branch of the
  same length. In the last two all nodes are set up first (`SetUpFirst`), and in the
  last node 1 stands aside and each of the others mines two (`PairNext`), because
  goroutines multiply the states. A reorganization that goes back needs two branches
  that both overtake, which these bounds do not reach; the theorem covers it.
  `MaxBatch = 2` cuts a request for more.

Deadlock is not checked there and in `same_tip`: when the budgets are used up nothing
need happen.

### Fairness

`CallFairness` is weak fairness of the steps of the call that holds `bc.mu` (nothing but
other mutexes, held for single operations, can stop that goroutine) and strong fairness
of `reorganizeChain` for each waiting block: `bc.mu` is taken and released again and
again by others, and Go's `sync.RWMutex` hands the lock to a writer that is blocked, so
the waiter does not lose every race. `Redelivery` is an assumption about the
environment, used by `converges` and `deep_fork` only: peers offer every block again
until it is taken. Nothing in `network/p2p.go` does so; the two runs say what
`addBlockV2` makes of blocks that do come. `LockFairness` (`stop_blocks`) lets every
goroutine run on and hands a lock that is free again and again to whoever waits for it;
a reader may wait for its peer for ever. `Tokens`, `SeedRegistry`, `Mining` and `Sync`
state no fairness and are checked for safety only: messages, events and replies really
may be lost, and a node that has missed a block is told by nobody.

## 4. What is proved

For every block tree, every assignment of transactions, every set of nodes, workers,
requests and connections and every bound that satisfies the named assumptions
(`X holds` stands for the theorem `XHolds`):

| module | theorems | they say | they assume |
|---|---|---|---|
| `BlockchainProofs` | `TypeCorrect`, `IndexCorrect` | `TypeOK`; the index holds every ancestor of its blocks and all blocks a call works with | |
| | `CommonParentExists` | two indexed blocks always have a common parent, so the error at 1257 is never returned | |
| | `HistoryIsWindowHolds`, `PoolBounded` | `HistoryIsWindow`, `PoolIsBounded` | |
| | `IndInvHolds` | the inductive invariant, part of which is about one caller | |
| | `ChainIsPathHolds`, `BestIsLongestHolds`, `OneBlockRollbackHolds`, `ReorganizationsGrowHolds`, `ImplementsLongestChainHolds` | the properties of those names, the last one the refinement | `~Concurrent` |
| `LedgerProofs` | `ReplayInvHolds`, `LedgerIsReplayHolds`, `NoncesAreReplayHolds` | outputs and nonces are those of a replay, in the middle of every loop as well | `~Concurrent` |
| | `NoDoubleSpendHolds` | `failed = {} => NoDoubleSpend` | `~Concurrent` |
| `StorageProofs` | `StoringInvHolds`, `TipIsStoredHolds`, `PersistenceTypeCorrect` | `TipIsStored` and the types, with any errors, crashes and overlapping calls | |
| | `DiskInvHolds`, `LoadsPathHolds`, `DiskMirrorsMemoryHolds`, `RestartKeepsChainHolds` | where the storing is, and the properties of those names | |
| `ServiceProofs` | `TokensInvHolds`, `TokensTypeCorrect`, `BalancesAreOfTokensHolds`, `FirstDeployerKeepsNameHolds` | the tokens' invariant and the properties of those names | |
| | `TransfersConserveTokensHolds` | the sum of a token's balances | finitely many accounts |
| | `RestartInvHolds`, `RestartKeepsBalancesHolds` | how far each pass of the loader is; `RestartKeepsBalances` | |
| | `SeedInvHolds`, `HeldSeedsWereApprovedHolds` | the registry's invariant, whatever overlaps | |
| | `UndisturbedHolds`, `RegistrationsAreKeptHolds`, `RejectedIsForgottenHolds` | while requests do not overlap: one is under way at most, what it read is in the file, and the properties of those names | |
| | `PeersInvHolds`, `PeersTypeCorrect`, `OneEntryPerIPHolds`, `ListedIsHandledHolds` | the peer table's invariant and the properties of those names | |
| `MiningProofs` | `PaidOutIsCovered`, `RewardsAreCoveredHolds` | a block pays out what it may or one unit less, for every reward, fees and number of seed nodes; so does every template | a treasury share of 20 % |
| | `MinedOnceHolds`, `SubmittedOnceHolds` | a block is found once and submitted as found; `SubmittedOnce` | |
| | `LimitHoldsAlways` | `LimitHolds` | |
| | `PaymentsInvHolds`, `MiningTypeCorrect` | what blocks, jobs and the pool pay is prepared; the types | |
| | `LimitsInvHolds` | the difficulty of every known block is within the limits, if these admit the fixed ones | |
| | `ClampsAgreeHolds` | `ClampsAgree` | `DifficultyConfigured` |
| | `FreshInvHolds`, `FreshBlockIsAddedHolds` | what a job has read still fits or its tip is gone for ever; `FreshBlockIsAdded` | |
| `SyncProofs` | `SyncInvHolds`, `ChainsAreClosedHolds` | `ChainsAreClosed`, and a node's tip is as high as any block it stores | |
| | `CalmHolds` | while nothing has gone wrong, a neighbour has each block, or it is on its way | |
| | `QuietNodesAgreeHolds` | `QuietNodesAgree` | `Connected` links |
| | `AnswersFitHolds`, `AnswersCloseGapsHolds` | answers begin no higher than the next block after the tip; `AnswersCloseGaps` | |

Each module's theorems rest on the named `ASSUME`s of the modules it extends, and
those are what TLC evaluates in the runs. `SequenceLemmas` and `BlockTreeProofs` hold
the lemmas that several of them need.

**Blocks.** `BaseInv` (types, `IndexIsClosed`, `WorkIsIndexed`) holds with
any number of callers: a block enters the index only when its parent is there, so
every walk ends at genesis, `calculateChainLength` is the block's number plus one
and two walks always meet.

For one caller `IndInv` adds `SingleInv`. None of the single-caller properties is
inductive: `ChainIsPath` says nothing while a call is in progress, and that the
chain at the end of a reorganization is a path depends on what `adding` and
`commonParent` were when it began. `AdoptInv` carries that: what is still to be
added is the end of the path of one block `b`, higher than `oldBest`, and `blocks`
is the rest of that path. `OneBlockRollback` and `BestIsLongest` need `Outgrown`:
every indexed block that is as high as the tip forks from the tip's chain at the
tip's parent or higher (`ForksAtTip`), and no block but the one being adopted is
higher. It is preserved because `ExpectedParent` lets a block in at the tip's
height only next to the tip, and a higher block only when its parent, which is
indexed, is not lower than the tip. A refused block stays in the index without
being adopted and breaks `Outgrown`, hence `failed = {}`.

The refinement maps `known` to `blockIndex`, `chain` to `mainChain` and `sound` to
`failed = {}`. `StoreForkBlock` and `ExtendBestBlock` map to `Learn`,
`FinishExtend` and `FinishReorganize` to `Adopt`, `RefuseTransaction` to `Refuse`
and everything else to a stutter; `Adopt`'s second conjunct is where
`OneBlockRollback` is used.

**Outputs and nonces.** `LedgerIsReplay` is about the state between calls.
`ReplayInv` says the same of every state of a loop, with *places* (a block and an
index into its transactions) in place of a chain: `placed` are the places whose
transactions are in the ledger, `undone` those that a rollback has taken back, and
`IsBook(utxos, C, S)` says that the outputs are what the places `C` create and `S` spend.
It is inductive only together with `IsSound`: at the places of the ledger no
transaction stands twice and no output is spent twice or before it is created. A
payment cannot stand twice because its inputs were free when it was processed. A
reward has no inputs, so that rests on `RewardAssumption`, which the code sees to by
putting height and time into a reward's hash (2333). A rollback is the reverse only for the
newest block, so `OneBlockRollback` is needed. `NoDoubleSpend` follows from `IsSound`,
while no block has been refused: a refused block leaves outputs of transactions that
are on no chain, which a later block may spend, and the places no longer describe
`utxos`. TLC checks the property there too.

**Storage.** `StoringInv` says that a goroutine past a Put finds what it put: the by-hash key
from then on, the by-number key of that height from the next. Nothing ever deletes
a key, so this survives any interleaving, and `best_block` is written last.
`DiskInv` says how far the storing has come while `trouble` is empty, that is, while
one goroutine stores at a time and no Put has failed; crashes are admitted unless they cut the
storing of a reorganization short. Then either everything is stored,
or all but the last block (`LastToStore`), or a reorganization has stored its
chain up to some block and `best_block` still names a lower one (`StoredUpTo`). While
the process is down it is one of the first two, so a start loads the path of the last
block or of its parent.

**Peers.** `PeersInv` adds `AddingIsOpen` to the two properties of the table: a connection has
been opened and not yet closed when it is listed. That an entry leaves the table
before its connection's goroutine ends is in `ListedIsHandled` itself, whose step
for `removePeer` uses that the entry goes by ID, so at least the goroutine's own is
gone. `OneEntryPerIP` needs that one ID has one IP (`ConnAssumption`) and that the
table holds at most one entry of an IP before `addPeer`, so deleting any one of them
is enough; the code's `break` after the first match relies on it.

**Tokens.** `TokensInv` is `BalancesAreOfTokens` with the types. That balances are
natural numbers is part of it and not only a type: `Transferred` subtracts what
`Covered` has compared in the same step. `FirstDeployerKeepsName` follows action by
action, since each either leaves a deployed name alone or changes its height.
`TransfersConserveTokens` is about a sum over the accounts, a fold: `SumChanges` says
that a sum changes by what one addend changes, and a transfer is two such changes, the
second one from the balance that the first has left, which is what makes a transfer to
oneself come out even. `RestartKeepsBalances` compares two ways through one chain.
`Follows(f, chain)` says that `f[i]` is what the first `i` transactions gave, one after
the other, as `addBlockV2` processes them. `RestartInv` says that the answers are `f` at
the end of the chain while nothing was refused or taken back, and where the loader's
passes are: a name whose deployment the last pass has already gone by is held as `f` has
it at that place, any other name by its creator alone (`HeldBy`). A transfer is replayed
exactly when its name's deployment comes before it (`TransferIsReplayed`), which takes
that the chain is `Orderly`, so that no transfer is among the hashes of earlier ones,
and that block numbers never fall along it. Also the answers after a start that had
nothing to keep are `f` of an orderly chain, as the next restart requires.

**Seeds.** `SeedInv` says of the file and of the list of every request under way what
`HeldSeedsWereApproved` says of memory: active entries are approved pairs. A stale list
may overwrite a newer one, but `approved` only grows, so a list that was sound when it
was read stays sound. With overlaps `RegistrationsAreKept` is false, which is why it names
them; without, `Undisturbed` carries it: one request is under way at most, the list that
it read is the one in the file, and what it will write confirms what clients were told.

**Mining.** `MinedOnce` counts hashes: each found block is named by what is left of the budget, which
every `FindBlock` lowers, so no two blocks of the index share a name, a worker that has
found a block holds the one the index would get, and the main chain is a sequence of
blocks of the index without repetition.

`PaidOutIsCovered` is arithmetic: the shares of the seed nodes with the first one's
remainder add up to the amount (`SharesAddUp`), and two percentages that make 100 lose
less than two units when they are rounded down; with a share other than 20 % the
constant 80 of the code would not fit. `RewardsAreCovered` says this of every template:
what `SelectPayment` has added to the fees is what the payments in the template pay.

`LimitInv` adds that submissions are kept in the order of their times. Those that line
1955 counts are then the last ones, and any minute was counted when its last submission
came.

`PaymentsInv` closes prepared payments over pool, jobs and chain: a payment
in a block has a nonce above zero, so a reorganization that undoes it leaves a natural number.

`LimitsInv` says that the difficulty of every known block is within the configured limits.
What follows is computed from the tip's difficulty, which some branches of
`CalculateDifficulty` return as it is; only because it is within the limits does
the clamp of the validation change nothing. `DifficultyConfigured` says that the limits
admit the genesis block's difficulty and the guard's, which other branches return and
only the validation clamps. The average of intervals is never over none:
`Filtered` keeps the first time, and times that rise.

`FreshInv` is about a job between its reads. A tip that is left never returns, because
every new tip is a block that was not in the index before, so a job whose tip is gone
has nothing to show. While the tip stays, the nonces change only through a block that
was refused after its first payment, which `FreshBlockIsAdded` names (`traces`), and
what a payment says is fixed once it has a nonce. What the job has selected still fits.
Nothing is said of its time: the parent may come from a clock ahead of the node's, and
then the block is refused, which the property names.

**Synchronisation.** `SyncInv` says that blocks count down the budget, so that an id
names one block in all nodes, messages, answers and goroutines, that a node's blocks are
closed under parents, and that a goroutine reorganizes to a block its node has. `Calm`:
while nothing that `syncTrouble` lists has happened, all links are up, a node's tip is
its one highest block, and each block of a node is at its neighbour, in the node's own
channel, in the connection between them in a `block` message, or still to be added by a
goroutine there (`Passed`). When channels and connections are empty and no goroutine
adds, neighbours have the same blocks, and from `Connected` follows that all have.
`AnswersFit` says of requests, of answers while they are read block by block, of answers
under way and of goroutines, that what they begin with is at most one above the tip of
the node that asked, and that answers have only blocks of their sender. Tips do not get
lower while nothing went back, so this survives every step of the other goroutines. An
answer of one branch that has the tip on it then begins at or below the block after the
tip, so its first block or that block's parent is stored (`JobFits`); blocks are not
dropped, and each further block has the one before as its parent. `PathTo` is the
smallest set of blocks with a block and its parents and not a recursive operator, so
that two branches through one block can be shown to agree below it (`PathShared`).

**Sums and folds.** The library's induction theorems take a predicate as a parameter
and cannot be used, but induction with a set in place of the predicate can: `UpTo` says
that a set of numbers that has 0 and every successor up to `n` has all of `0..n`.
`FoldExists`, `FoldLeftExists`, `FoldType` and `SumChanges` use it to show what the
folds of the community modules compute.

**Only model-checked.** `NoDoubleSpend` after a refused block (`chain`) and with several
callers (`concurrent`); the two liveness properties `CallsReturn` and
`LongestChainWins` (fairness and `ENABLED` are outside TLAPS).

## 5. Findings

Each is a run whose property quotes the repository.

1. **A reorganization may shorten the chain** (`chain_race`). Line 446 says
   "Longest chain rule: if new chain is longer, reorganize"; the comparison is
   made before `bc.mu` is released at 452 and not repeated after 1244. A call that
   extends the main chain in between loses its block to a chain no longer than
   its own.
2. **A fork two blocks deep never wins** (`deep_fork`). A block at the tip's height
   is validated against the tip's parent (372-375), so a branch that leaves the
   main chain earlier is refused when it reaches that height, and never becomes
   longer.
3. **A refused block leaves traces** (`refused_block`). Line 345 says "addBlockV2 adds a
   block atomically"; when a later transaction fails (500-503), the outputs,
   spent inputs, nonces and mempool removals of the earlier ones stay.
4. **A crash can mix two branches** (`torn_store`). Line 2554 says "Load all
   blocks from genesis to best block". While a reorganization stores its blocks
   (1435-1439) a number key already names the new branch and `best_block` still
   the old tip; a start after a crash there sets `bestBlock` to the one and loads
   the other.
5. **`Stop` can block for ever** (`stop_blocks`). `network/p2p.go:197` says "Stop
   stops the P2P network". `Stop` holds `mu` while it takes `peerMutex` (215);
   `addPeer` (782, 792) and `GetNetworkInfo` (965, 984) take them the other way
   round. When both run at once neither returns, and `peerMutex` stays locked for
   everyone.
6. **Nodes with one tip differ in their outputs** (`same_tip`). Line 988 says
   "AddBlockV2 is the main function for adding blocks - ensures UTXO processing".
   `ConvertCoreBlockToNetworkBlock` (`network/converter.go` 35-50) leaves out the
   inputs and outputs of transactions, and the conversion back (88-107) cannot have
   them: a block that comes from a peer is added without creating or spending any
   output.

Two things seen while modelling that no text of the repository contradicts, and that
are in the hazards: a node of this build is never asked for blocks, because its
version messages have no height (`p2p.go` 456); and a coin
of the snapshot that an undone block spent is not restored (1330).

## 6. What is left out

- **Cryptography, hashes and formats**: a hash names one block or transaction,
  signatures and proofs of work are right. Amounts and owners are fixed by the
  output.
- **Snapshots**: creating one and restoring one over RPC. That snapshot balances become
  outputs only at height 0 is taken for granted by `Mining`.
- **P2P messages that are never sent**: transactions are never broadcast and pings never
  sent, so their handlers are dead.
- **Rewards of seed nodes in templates**: eligibility needs a height that
  `UpdateSeedNodeHeight` would set, which nothing calls. The split itself is in
  `Consensus` and proved about.
- **Limits in bytes** of a block and of the limiter of requests per client, names of
  miners and wallets, and the queries of the RPC server, which change nothing.
- **`src/mining`**: no program uses it. The start-up flags and `Stop` of the node, the
  miner's statistics.
- **The state manager**: nothing reads its map.
- **Keys, files and menus of the wallet, SDK, scripts, `reset-leveldb-to-zero.go`**:
  clients and tools that run outside the node.
- `Mempool.Clear`, `BlockHistory.Clear` and `ConsensusManager.ValidateBlock` have
  no caller in the node.

## 7. Plan

Done: all modules of section 2 with their runs and the theorems of section 4. In the
order of what they would add:

1. Snapshots as part of `Persistence`: balances after a restart.
2. `Mining` over `Blockchain`'s steps in place of whole calls, on a tree of three blocks.
3. `NoDoubleSpend` with refused blocks: which phantom outputs can be on no chain.
