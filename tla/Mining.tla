------------------------------- MODULE Mining -------------------------------
(***************************************************************************)
(* The way of a payment into a block and of a block into the chain: a      *)
(* client prepares, signs and sends payments, the node puts a template     *)
(* together (CreateNewBlockV2), a miner (cmd/kalon-miner-v2) fetches it,   *)
(* checks it, searches and submits what it finds, over HTTP with replies   *)
(* that get lost, and the node limits, tests and adds the block.           *)
(*                                                                         *)
(* Every critical section of the node and every request is a step of its   *)
(* own; blocks of other miners arrive between any two of them.             *)
(***************************************************************************)
EXTENDS Consensus, FiniteSets

CONSTANTS Worker,        \* mining threads, all with one IP
          PayId,         \* payments
          PayerOf,       \* [PayId -> account]
          FeeOf,         \* [PayId -> Nat]
          SnapshotCoin,  \* outputs of the snapshot in the genesis configuration
          CoinOwner,     \* [SnapshotCoin -> account]
          MaxBlockTxs,   \* DefaultMaxTransactionsPerBlock
          TemplateTTL, MaxTries,                 \* templateTTL, maxRetries
          MaxBlockSubmissionsPerMinute, Minute,
          Delays,        \* bound: by how much the clock advances in a step
          Drifts,        \* bound: how far the clocks of other miners are from the node's
          Budgets        \* bounds: how often a behaviour may do what

ASSUME MiningAssumption ==
    /\ DOMAIN PayerOf = PayId /\ FeeOf \in [PayId -> Nat]
    /\ DOMAIN CoinOwner = SnapshotCoin /\ PayId \cap SnapshotCoin = {}
    /\ MaxTries \in Nat \ {0} /\ TemplateTTL \in Nat
    /\ MaxBlockSubmissionsPerMinute \in Nat /\ Minute \in Nat
    /\ Delays \subseteq Nat /\ Drifts \subseteq Int
    /\ Budgets \subseteq [payments : Nat, templates : Nat, found : Nat, others : Nat, ticks : Nat]

Payer == {PayerOf[p] : p \in PayId}

\* A payment spends one coin; its change is the coin of its own name.
Coin == PayId \cup SnapshotCoin
OwnerOf(coin) == IF coin \in PayId THEN PayerOf[coin] ELSE CoinOwner[coin]

VARIABLES
    clock,
    mineChain,     \* blocks of the main chain, from genesis
    mineIndex,     \* all blocks that the node knows
    mineNonces,    \* accountNonces
    mineCoins,     \* unspent coins
    payments,      \* by payment: the coin it spends, its nonce, zero until it is read, and
                   \* whether a request that sends it has passed the test of the nonce
    minePool,      \* payments in the mempool
    jobs,          \* by worker: what it is doing
    submissions,   \* times of the submissions that were let through
    reported,      \* history: blocks whose submission was reported as a success
    left,          \* what is left of the budget
    traces         \* history: a block was refused after its first payment

nodeVars == <<mineChain, mineIndex, mineNonces, mineCoins, minePool>>
miningVars == <<clock, nodeVars, payments, jobs, submissions, reported, left, traces>>

\* The hash of a block identifies it; two miners never find the same one, because the
\* reward transaction holds a time in nanoseconds.
NoHash == <<"none", 0>>

GenesisBlock == [id |-> <<"genesis", 0>>, parent |-> NoHash, number |-> 0, time |-> 0,
                 difficulty |-> Difficulty.initial, txs |-> <<>>, root |-> <<>>]

MiningInit ==
    /\ clock = 0
    /\ mineChain = <<GenesisBlock>> /\ mineIndex = {GenesisBlock}
    /\ mineNonces = [a \in Payer |-> 0]
    /\ mineCoins = SnapshotCoin
    /\ payments = [p \in {} |-> 0]
    /\ minePool = {}
    /\ jobs = [w \in Worker |-> [step |-> "rest"]]
    /\ submissions = <<>>
    /\ reported = {}
    /\ left \in Budgets
    /\ traces = FALSE

Spend(what, n) ==
    /\ left[what] >= n
    /\ left' = [left EXCEPT ![what] = @ - n]

Tip == Last(mineChain)

\* blockHistory.GetWindow; Blockchain shows that it holds the main chain's last blocks.
History ==
    LET window == IF Difficulty.window = 0 THEN 120 ELSE Difficulty.window
        size == AtMost(window, Len(mineChain))
    IN  [i \in 1..size |-> mineChain[Len(mineChain) - size + i].time]

NextNonce(p) == mineNonces[PayerOf[p]] + 1

-----------------------------------------------------------------------------
(* Payments: prepareTransaction, signing by the client, sendTransaction.    *)

Prepared(p) == p \in DOMAIN payments

SetPayment(p, data) ==
    payments' = [q \in DOMAIN payments \cup {p} |-> IF q = p THEN data ELSE payments[q]]

\* CreateTransactionWithData selects unspent outputs of the sender,
SelectCoin(p, coin) ==
    /\ ~Prepared(p)
    /\ coin \in mineCoins /\ OwnerOf(coin) = PayerOf[p]
    /\ SetPayment(p, [spends |-> coin, nonce |-> 0, checked |-> FALSE])
    /\ Spend("payments", 1)
    /\ UNCHANGED <<clock, nodeVars, jobs, submissions, reported, traces>>

\* and reads the nonce in a critical section of its own.
ReadNonce(p) ==
    /\ Prepared(p) /\ payments[p].nonce = 0
    /\ SetPayment(p, [payments[p] EXCEPT !.nonce = NextNonce(p)])
    /\ UNCHANGED <<clock, nodeVars, jobs, submissions, reported, left, traces>>

HasNextNonce(p) == payments[p].nonce = NextNonce(p)

\* The wallet has the answer, which holds a nonce, and signs it as it is.
IsSigned(p) == Prepared(p) /\ payments[p].nonce > 0

\* The node looks at the nonce in one critical section, and does not look up the inputs;
handleSendTransaction(p) ==
    /\ IsSigned(p) /\ ~payments[p].checked
    /\ HasNextNonce(p)
    /\ SetPayment(p, [payments[p] EXCEPT !.checked = TRUE])
    /\ UNCHANGED <<clock, nodeVars, jobs, submissions, reported, left, traces>>

\* the payment enters the pool in another.  Any number of requests with one payment may
\* have passed the test at the time, so that it may enter again after it was mined.
AddTransactionToMempool(p) ==
    /\ Prepared(p) /\ payments[p].checked
    /\ p \notin minePool
    /\ minePool' = minePool \cup {p}
    /\ UNCHANGED <<clock, mineChain, mineIndex, mineNonces, mineCoins, payments, jobs,
                   submissions, reported, left, traces>>

-----------------------------------------------------------------------------
(* Acceptance of a block: addBlockV2, whose steps module Blockchain shows.   *)

\* A block at the tip's height is tested against the tip's parent.
ParentFor(b) ==
    IF b.number = Tip.number /\ b.id # Tip.id
    THEN {mineChain[Len(mineChain) - 1]}
    ELSE {c \in mineIndex : c.id = b.parent}

IsForkBlock(b) == IF b.number = Tip.number THEN b.id # Tip.id ELSE b.parent # Tip.id

\* The Merkle root and the number of transactions stand for their list.
HasRoot(b) == b.root = b.txs

IsValidBlock(b) ==
    /\ HasRoot(b)
    /\ \E parent \in ParentFor(b) :
          /\ b.parent = parent.id /\ b.number = parent.number + 1 /\ b.time >= parent.time
          /\ b.difficulty = ExpectedDifficulty(b.number, parent.difficulty, History, clock)
    /\ \A i \in DOMAIN b.txs : HasNextNonce(b.txs[i])
    /\ HasTarget(b.difficulty)

\* One transaction after the other until one spends what is not there.
ProcessPayment(done, p) ==
    IF done.ok /\ payments[p].spends \in done.coins
    THEN [ok |-> TRUE,
          nonces |-> [done.nonces EXCEPT ![PayerOf[p]] = payments[p].nonce],
          coins |-> (done.coins \ {payments[p].spends}) \cup {p},
          mined |-> done.mined \cup {p}]
    ELSE [done EXCEPT !.ok = FALSE]

Process(txs) ==
    FoldLeft(ProcessPayment, [ok |-> TRUE, nonces |-> mineNonces, coins |-> mineCoins,
                              mined |-> {}], txs)

\* (mutant) A block that is known already is not told apart.
NeverExists(b) == FALSE

Exists(b) == b \in mineIndex

Verdict(b) ==
    IF Exists(b) THEN "exists"
    ELSE IF ~IsValidBlock(b) THEN "invalid"
    ELSE IF IsForkBlock(b) THEN "fork"
    ELSE IF Process(b.txs).ok THEN "added" ELSE "spent"

\* The effect of a verdict.  A block that the miner was given extends what was a tip,
\* so that a fork block of its own is never higher than the tip.
Apply(b, verdict) ==
    LET done == Process(b.txs)
    IN  IF verdict \in {"added", "spent"}
        THEN /\ mineIndex' = mineIndex \cup {b}
             /\ mineNonces' = done.nonces /\ mineCoins' = done.coins
             /\ minePool' = minePool \ done.mined
             /\ mineChain' = IF verdict = "added" THEN Append(mineChain, b) ELSE mineChain
             /\ traces' = (traces \/ (verdict = "spent" /\ done.mined # {}))
        ELSE /\ mineIndex' = IF verdict = "fork" THEN mineIndex \cup {b} ELSE mineIndex
             /\ UNCHANGED <<mineChain, mineNonces, mineCoins, minePool, traces>>

\* A block of another miner after a parent.  Its time is that of another clock; the
\* difficulty is the one that the node expects when the block arrives.
OthersBlock(name, parent, time, txs) ==
    [id |-> <<"others", name>>, parent |-> parent.id, number |-> parent.number + 1,
     time |-> time, txs |-> txs, root |-> txs,
     difficulty |-> ExpectedDifficulty(parent.number + 1, parent.difficulty, History, clock)]

OthersTimes == {clock + drift : drift \in Drifts}

\* A block of another miner, with at most two payments, extends the tip.  A time before the
\* parent's is refused, one ahead of the node's clock is not.
OthersExtend(txs, time) ==
    LET b == OthersBlock(left.others, Tip, time, txs)
    IN  /\ Spend("others", 1)
        /\ \A i \in DOMAIN txs : Prepared(txs[i])
        /\ Verdict(b) = "added"
        /\ Apply(b, "added")
        /\ UNCHANGED <<clock, payments, jobs, submissions, reported>>

\* (mutant) Every undone payment counts.
EachUndone(nonces, p) == [nonces EXCEPT ![PayerOf[p]] = @ - 1]

\* Of two payments of one block with the same nonce one counts.
UndoneNonce(nonces, p) ==
    IF nonces[PayerOf[p]] = payments[p].nonce
    THEN [nonces EXCEPT ![PayerOf[p]] = @ - 1] ELSE nonces

\* What a reorganization does with the tip's payments.  Nothing brings them back into
\* the pool, and a coin of the snapshot is in no block and is not restored.
UndoPayment(undone, p) ==
    [nonces |-> UndoneNonce(undone.nonces, p),
     coins |-> (undone.coins \cup ({payments[p].spends} \ SnapshotCoin)) \ {p}]

Undo(txs) == FoldLeft(UndoPayment, [nonces |-> mineNonces, coins |-> mineCoins], txs)

\* Two blocks of other miners, without payments, take the place of the tip.
OthersReorganize(time, time2) ==
    LET parent == mineChain[Len(mineChain) - 1]
        b == OthersBlock(left.others, parent, time, <<>>)
        c == OthersBlock(left.others - 1, b, time2, <<>>)
        undone == Undo(Tip.txs)
    IN  /\ Spend("others", 2)
        /\ Tip.number > 0
        /\ time >= parent.time /\ time2 >= time
        /\ HasTarget(b.difficulty) /\ HasTarget(c.difficulty)
        /\ mineChain' = Front(mineChain) \o <<b, c>>
        /\ mineIndex' = mineIndex \cup {b, c}
        /\ mineNonces' = undone.nonces /\ mineCoins' = undone.coins
        /\ UNCHANGED <<clock, minePool, payments, jobs, submissions, reported, traces>>

-----------------------------------------------------------------------------
(* CreateNewBlockV2: the tip, the history, the pool and each nonce are read  *)
(* one after the other.                                                      *)

At(w, step) == jobs[w].step = step

SetJob(w, job) == jobs' = [jobs EXCEPT ![w] = job]

OnlyJobs == UNCHANGED <<clock, nodeVars, payments, submissions, reported, left, traces>>

Rest(w) == SetJob(w, [step |-> "rest"]) /\ OnlyJobs

ReadTip(w) ==
    /\ At(w, "rest")
    /\ SetJob(w, [step |-> "history", parent |-> Tip])
    /\ Spend("templates", 1)
    /\ UNCHANGED <<clock, nodeVars, payments, submissions, reported, traces>>

ReadHistory(w) ==
    /\ At(w, "history")
    /\ LET parent == jobs[w].parent
       IN  SetJob(w, [step |-> "pool", parent |-> parent,
                      difficulty |-> CalculateDifficulty(parent.number + 1, parent.difficulty,
                                                         History, clock)])
    /\ OnlyJobs

\* Highest fee first, equal fees in any order.
ByFee(pool) ==
    {s \in SetToSeqs(pool) : \A i, j \in DOMAIN s : i < j => FeeOf[s[i]] >= FeeOf[s[j]]}

ReadPool(w) ==
    /\ At(w, "pool")
    /\ \E pending \in ByFee(minePool) :
          SetJob(w, [step |-> "select", parent |-> jobs[w].parent, difficulty |-> jobs[w].difficulty,
                     pending |-> pending, txs |-> <<>>])
    /\ OnlyJobs

\* (mutant) The template takes every payment of the pool.
AnyNonce(p) == TRUE

IsSelectable(p) == HasNextNonce(p)

SelectPayment(w) ==
    /\ At(w, "select")
    /\ jobs[w].pending # <<>>
    /\ LET job == jobs[w]
           p == Head(job.pending)
       IN  SetJob(w, IF ~IsSelectable(p) THEN [job EXCEPT !.pending = Tail(@)]
                     ELSE IF Len(job.txs) >= MaxBlockTxs THEN [job EXCEPT !.pending = <<>>]
                     ELSE [job EXCEPT !.pending = Tail(@), !.txs = Append(@, p)])
    /\ OnlyJobs

FeesOf(set) == MapThenSumSet(LAMBDA p : FeeOf[p], set)

\* (mutant) The fees are those of the whole pool, as they are first computed.
FeesOfPool(txs) == FeesOf(minePool)

FeesOfSelected(txs) == FeesOf({txs[i] : i \in DOMAIN txs})

\* The answer leaves out the fees in the header, and the hash.
ServedTemplate(b) == [f \in DOMAIN b \ {"id", "networkFee"} |-> b[f]]

\* The template is complete, with the transactions that pay out the reward.  No seed node
\* is eligible, since nothing tells the node their heights.
FinishTemplate(w) ==
    /\ At(w, "select")
    /\ jobs[w].pending = <<>>
    /\ LET number == jobs[w].parent.number + 1
           txs == jobs[w].txs
           fees == FeesOfSelected(txs)
       IN  SetJob(w, [step |-> "served",
                      template |-> ServedTemplate(
                         [id |-> NoHash, parent |-> jobs[w].parent.id,
                          number |-> number, time |-> clock,
                          difficulty |-> jobs[w].difficulty, txs |-> txs, root |-> txs,
                          paid |-> PaidOut(GetCurrentReward(number), fees, 0),
                          networkFee |-> fees])])
    /\ OnlyJobs

-----------------------------------------------------------------------------
(* The miner: mineBlock.  A check whose request fails is left as passed.   *)

\* The Merkle root is taken over from the node.
BlockFromTemplate(t) ==
    [f \in DOMAIN t \cup {"id", "networkFee"} |->
        IF f = "id" THEN NoHash ELSE IF f = "networkFee" THEN 0 ELSE t[f]]

ReceiveTemplate(w) ==
    /\ At(w, "served")
    /\ SetJob(w, [step |-> "height", block |-> BlockFromTemplate(jobs[w].template)])
    /\ OnlyJobs

\* Another request of the miner makes another template.
LoseTemplate(w) == At(w, "served") /\ Rest(w)

Pass(w, next, stale) ==
    \/ Rest(w) /\ stale
    \/ SetJob(w, [jobs[w] EXCEPT !.step = next]) /\ OnlyJobs

CheckHeight(w) ==
    /\ At(w, "height")
    /\ Pass(w, "best", Tip.number >= jobs[w].block.number)

CheckBest(w) ==
    /\ At(w, "best")
    /\ Pass(w, "info", Tip.id # jobs[w].block.parent)

\* getMiningInfo computes the difficulty that a template would have now.
CheckMiningInfo(w) ==
    LET expected == CalculateDifficulty(Tip.number + 1, Tip.difficulty, History, clock)
    IN  /\ At(w, "info")
        /\ \/ /\ \/ expected > 0 /\ jobs[w].block.difficulty # expected
                 \/ Tip.id # jobs[w].block.parent
              /\ Rest(w)
           \/ /\ SetJob(w, [step |-> "search", block |-> jobs[w].block, since |-> clock])
              /\ OnlyJobs

FindBlock(w) ==
    /\ At(w, "search")
    /\ HasTarget(jobs[w].block.difficulty)
    /\ clock - jobs[w].since <= TemplateTTL
    /\ SetJob(w, [step |-> "submit", tries |-> MaxTries,
                  block |-> [jobs[w].block EXCEPT !.id = <<"miner", left.found>>]])
    /\ Spend("found", 1)
    /\ UNCHANGED <<clock, nodeVars, payments, submissions, reported, traces>>

ExpireTemplate(w) ==
    /\ At(w, "search")
    /\ clock - jobs[w].since > TemplateTTL
    /\ Rest(w)

\* (mutant) Submissions since the beginning of the current minute.
SubmissionsThisMinute == {i \in DOMAIN submissions : submissions[i] \div Minute = clock \div Minute}

\* checkBlockSubmissionRateLimit: submissions of the last minute.
RecentSubmissions == {i \in DOMAIN submissions : clock - submissions[i] <= Minute}

Limited == Cardinality(RecentSubmissions) >= MaxBlockSubmissionsPerMinute

\* What the miner sends of a block, and what the node makes of it.
SentBlock(b) == [f \in DOMAIN b \ {"networkFee"} |-> b[f]]

parseBlockData(sent) ==
    [f \in DOMAIN sent \cup {"networkFee"} |-> IF f = "networkFee" THEN 0 ELSE sent[f]]

handleRequest(b) == IF Limited THEN "limited" ELSE Verdict(b)

\* The request reaches the node, which answers.
Submit(w) ==
    /\ At(w, "submit")
    /\ LET b == parseBlockData(SentBlock(jobs[w].block))
           verdict == handleRequest(b)
       IN  /\ SetJob(w, [step |-> "answer", block |-> b, tries |-> jobs[w].tries, verdict |-> verdict])
           /\ submissions' = IF Limited THEN submissions ELSE Append(submissions, clock)
           /\ Apply(b, verdict)
    /\ UNCHANGED <<clock, payments, reported, left>>

\* The request fails, or its answer is lost: callRPC sends it again, at most MaxTries
\* times in all.
TryAgain(w) ==
    /\ At(w, "submit") \/ At(w, "answer")
    /\ SetJob(w, IF jobs[w].tries = 1 THEN [step |-> "rest"]
                 ELSE [step |-> "submit", block |-> jobs[w].block, tries |-> jobs[w].tries - 1])
    /\ OnlyJobs

\* Also a block that is kept as a fork is answered with success.
IsSuccess(verdict) == verdict \in {"added", "fork"}

Answered(w) ==
    /\ At(w, "answer")
    /\ SetJob(w, [step |-> "rest"])
    /\ reported' = IF IsSuccess(jobs[w].verdict) THEN reported \cup {jobs[w].block} ELSE reported
    /\ UNCHANGED <<clock, nodeVars, payments, submissions, left, traces>>

Tick(delay) ==
    /\ clock' = clock + delay
    /\ Spend("ticks", 1)
    /\ UNCHANGED <<nodeVars, payments, jobs, submissions, reported, traces>>

-----------------------------------------------------------------------------
MiningNext ==
    \/ \E p \in PayId : \/ \E coin \in Coin : SelectCoin(p, coin)
                        \/ ReadNonce(p) \/ handleSendTransaction(p) \/ AddTransactionToMempool(p)
    \/ \E time \in OthersTimes :
          \/ \E txs \in SeqOf(PayId, 2) : OthersExtend(txs, time)
          \/ \E time2 \in OthersTimes : OthersReorganize(time, time2)
    \/ \E w \in Worker :
          \/ ReadTip(w) \/ ReadHistory(w) \/ ReadPool(w) \/ SelectPayment(w) \/ FinishTemplate(w)
          \/ ReceiveTemplate(w) \/ LoseTemplate(w) \/ CheckHeight(w) \/ CheckBest(w) \/ CheckMiningInfo(w)
          \/ FindBlock(w) \/ ExpireTemplate(w)
          \/ Submit(w) \/ TryAgain(w) \/ Answered(w)
    \/ \E delay \in Delays : Tick(delay)

MiningSpec == MiningInit /\ [][MiningNext]_miningVars

-----------------------------------------------------------------------------
MiningTypeOK ==
    /\ clock \in Nat
    /\ mineChain \in Seq(mineIndex) /\ GenesisBlock \in mineIndex
    /\ mineNonces \in [Payer -> Nat]
    /\ mineCoins \subseteq Coin
    /\ DOMAIN payments \subseteq PayId
    /\ \A p \in DOMAIN payments : payments[p] \in [spends : Coin, nonce : Nat, checked : BOOLEAN]
    /\ minePool \subseteq DOMAIN payments
    /\ submissions \in Seq(Nat)
    /\ reported \subseteq mineIndex

SpendsWhatIsThere(b) == Process(b.txs).ok

\* A template is read under six locks, one after the other, and searched for a while.
\* If its parent is still the tip when the block is submitted, the block is added, unless
\* the limit is reached, the parent came from a clock ahead of the node's and the template
\* was made before the parent's time (blockchain.go:1081), the difficulty has changed with
\* time, a payment spends what is not there (two payments prepared from the same coins, or
\* one prepared while a block was added) or a block refused half-way has left its traces:
\* that one nonce after the other was read does no harm ("This prevents blocks from being
\* rejected due to invalid transactions", blockchain.go:2130).
FreshBlockIsAdded ==
    [][\A w \in Worker :
          LET b == jobs[w].block
          IN  /\ At(w, "submit") /\ jobs'[w].step = "answer" /\ ~Limited
              /\ b.parent = Tip.id /\ ~Exists(b) /\ b.time >= Tip.time
              /\ b.difficulty = ExpectedDifficulty(b.number, Tip.difficulty, History, clock)
              /\ SpendsWhatIsThere(b) /\ ~traces
              => mineChain' = Append(mineChain, b)]_miningVars

\* A block pays out the reward for its height and the fees of the payments in it, up to
\* what two conversions round off; without a treasury address the treasury's part is paid
\* to nobody.  The distribution is computed before the payments are selected and again
\* after ("Recalculate block reward distribution with actual fees", blockchain.go:2211).
RewardsAreCovered ==
    \A w \in Worker : At(w, "height") =>
        LET b == jobs[w].block
            reward == GetCurrentReward(b.number)
            fees == FeesOf({b.txs[i] : i \in DOMAIN b.txs})
            due == reward + fees
        IN  b.paid + Withheld(reward, fees, 0) \in (due - 1)..due

\* Requests and answers get lost and callRPC sends a block again, after it was added or
\* after others have built on it: no block is twice on the main chain, and what the
\* miner was told is accepted the node has.
SubmittedOnce ==
    /\ \A i, j \in DOMAIN mineChain : i # j => mineChain[i].id # mineChain[j].id
    /\ reported \subseteq mineIndex

\* The submissions of an address that are let through in any minute, not only in one that
\* starts with the clock's, are at most as many as the limit, but for those of the node's
\* own host, which are not counted (server_v2.go:1936).
LimitHolds ==
    \A i \in DOMAIN submissions :
        i + MaxBlockSubmissionsPerMinute \in DOMAIN submissions =>
            submissions[i + MaxBlockSubmissionsPerMinute] - submissions[i] > Minute

\* Creation and validation bound the difficulty in two places and in different ways.
\* They agree on what comes after the tip, whatever the waiting time, but for one case:
\* from the sixth to the tenth minute after a block of the least difficulty, creation
\* goes below the minimum and validation does not.
ClampsAgree ==
    LET next == Tip.number + 1
        wait == clock - Tip.time
    IN  \/ CalculateDifficulty(next, Tip.difficulty, History, clock)
              = ExpectedDifficulty(next, Tip.difficulty, History, clock)
        \/ Tip.difficulty = Difficulty.min /\ wait > StuckWait /\ wait <= TimeoutWait
=============================================================================
