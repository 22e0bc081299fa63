---------------------------- MODULE MiningProofs ----------------------------
(***************************************************************************)
(* What a block pays out, what miners submit and how difficult blocks are, *)
(* for any workers, payments, fees, limits and budgets:                    *)
(*  - what a block pays out is what it may, up to what is rounded off, and *)
(*    so does every template, for the payments selected into it;           *)
(*  - a block is found once and submitted as found, so that repeating a    *)
(*    submission puts no block on the chain twice;                         *)
(*  - no minute has more submissions let through than the limit;           *)
(*  - payments, nonces and coins keep their types through reorganizations; *)
(*  - difficulties stay within the configured limits, and creation and     *)
(*    validation agree on the next one;                                    *)
(*  - a block is added if its parent is still the tip, but for the limit,  *)
(*    a parent from a clock ahead of the node's, the difficulty, what      *)
(*    payments spend, and traces of a refused block.                       *)
(***************************************************************************)
EXTENDS Mining, SequenceLemmas

-----------------------------------------------------------------------------
(* The reward. *)

LEMMA PercentSplits ==
    ASSUME NEW amount \in Nat
    PROVE  Percent(amount, 20) + Percent(amount, 80) \in (amount - 1)..amount
  BY DEF Percent

LEMMA PercentType ==
    ASSUME NEW amount \in Nat, NEW pct \in Nat
    PROVE  Percent(amount, pct) \in Nat
<1> DEFINE product == amount * pct
<1>1. product \in Nat
  OBVIOUS
<1>2. product \div 100 \in Nat
  <2> HIDE DEF product
  <2> QED BY <1>1
<1> QED BY <1>2 DEF Percent

LEMMA OneShareMore ==
    ASSUME NEW n \in Int, NEW q \in Int
    PROVE  (n - 1) * q = n * q - q
  OBVIOUS

LEMMA SharesAddUp ==
    ASSUME NEW amount \in Nat, NEW seeds \in Nat \ {0}
    PROVE  /\ amount \div seeds \in Int /\ amount % seeds \in Int
           /\ (seeds - 1) * (amount \div seeds) \in Int
           /\ (amount \div seeds) + (amount % seeds) + (seeds - 1) * (amount \div seeds) = amount
<1> DEFINE q == amount \div seeds
           r == amount % seeds
<1>1. amount = seeds * q + r
  OBVIOUS
<1>2. q \in Int /\ r \in Int
  OBVIOUS
<1> HIDE DEF q, r
<1>3. (seeds - 1) * q = seeds * q - q
  BY <1>2, OneShareMore
<1>4. seeds * q \in Int
  BY <1>2
<1> DEFINE product == seeds * q
           rest == (seeds - 1) * q
<1>5. rest = product - q /\ amount = product + r /\ product \in Int
  BY <1>1, <1>3, <1>4
<1>6. rest \in Int /\ q + r + rest = amount
  <2> HIDE DEF product, rest
  <2> QED BY <1>2, <1>5
<1> QED BY <1>2, <1>6 DEF q, r

\* With the shares of the shipped configuration a block pays out its reward and its fees,
\* but for one of the smallest units that two conversions may round off, whether no seed
\* node is eligible or any number of them (CalculateNetworkFees, types.go:436); without a
\* treasury address what is missing is the treasury's part (blockchain.go:2218).
THEOREM PaidOutIsCovered ==
    ASSUME NEW reward \in Nat, NEW fees \in Nat, NEW seeds \in Nat,
           NetworkFee.treasuryPct = 20
    PROVE  PaidOut(reward, fees, seeds) + Withheld(reward, fees, seeds)
              \in (reward + fees - 1)..(reward + fees)
<1> DEFINE fromBlock == Percent(reward, NetworkFee.blockFeePct)
           fromFees == Percent(fees, 20)
           forSeeds == Percent(fees, SeedShare)
<1>1. fromBlock \in Nat /\ fromFees \in Nat /\ forSeeds \in Nat
  <2>1. NetworkFee \in [blockFeePct : 0..100, treasuryPct : 0..100]
    BY ConsensusAssumption, Zenon
  <2>2. NetworkFee.blockFeePct \in Nat
    BY <2>1
  <2> QED BY <2>2, PercentType DEF SeedShare
<1>2. fromFees + forSeeds \in (fees - 1)..fees
  BY PercentSplits DEF SeedShare
<1> DEFINE paid == PaidOut(reward, fees, seeds) + Withheld(reward, fees, seeds)
<1>4. ASSUME NEW miner \in Int, NEW treasury \in Int, NEW first \in Int, NEW others \in Int,
             CalculateNetworkFees(reward, fees, seeds).miner = miner,
             CalculateNetworkFees(reward, fees, seeds).treasury = treasury,
             CalculateNetworkFees(reward, fees, seeds).first = first,
             (seeds - 1) * CalculateNetworkFees(reward, fees, seeds).each = others
      PROVE  paid = miner + treasury + first + others
  <2>1. PaidOut(reward, fees, seeds)
          = miner + (IF HasTreasury THEN treasury ELSE 0) + first + others
    BY <1>4 DEF PaidOut
  <2>2. Withheld(reward, fees, seeds) = IF HasTreasury THEN 0 ELSE treasury
    BY <1>4 DEF Withheld
  <2> QED BY <2>1, <2>2
<1> HIDE DEF paid
<1>3. paid = reward + fromFees + forSeeds
  <2>1. CASE seeds = 0
    <3>1. /\ CalculateNetworkFees(reward, fees, seeds).miner = reward - fromBlock
          /\ CalculateNetworkFees(reward, fees, seeds).treasury = fromBlock + fromFees + forSeeds
          /\ CalculateNetworkFees(reward, fees, seeds).first = 0
          /\ (seeds - 1) * CalculateNetworkFees(reward, fees, seeds).each = 0
      BY <2>1 DEF CalculateNetworkFees
    <3> HIDE DEF fromBlock, fromFees, forSeeds
    <3>2. reward - fromBlock \in Int /\ fromBlock + fromFees + forSeeds \in Int /\ 0 \in Int
      BY <1>1
    <3>3. paid = (reward - fromBlock) + (fromBlock + fromFees + forSeeds) + 0 + 0
      BY <1>4, <3>1, <3>2
    <3> QED BY <1>1, <3>3
  <2>2. CASE seeds # 0
    <3> DEFINE each == forSeeds \div seeds
               rest == forSeeds % seeds
               others == (seeds - 1) * each
    <3>1. /\ CalculateNetworkFees(reward, fees, seeds).miner = reward - fromBlock
          /\ CalculateNetworkFees(reward, fees, seeds).treasury = fromBlock + fromFees + 0
          /\ CalculateNetworkFees(reward, fees, seeds).first = each + rest
          /\ (seeds - 1) * CalculateNetworkFees(reward, fees, seeds).each = others
      BY <2>2 DEF CalculateNetworkFees
    <3>2. /\ each \in Int /\ rest \in Int /\ others \in Int
          /\ each + rest + others = forSeeds
      <4> HIDE DEF forSeeds
      <4> QED BY <1>1, <2>2, SharesAddUp
    <3> HIDE DEF fromBlock, fromFees, forSeeds, each, rest, others
    <3>3. reward - fromBlock \in Int /\ fromBlock + fromFees + 0 \in Int /\ each + rest \in Int
      BY <1>1, <3>2
    <3>4. paid = (reward - fromBlock) + (fromBlock + fromFees + 0) + (each + rest) + others
      BY <1>4, <3>1, <3>2, <3>3
    <3> QED BY <1>1, <3>2, <3>4
  <2> QED BY <2>1, <2>2
<1> HIDE DEF fromBlock, fromFees, forSeeds
<1> QED BY <1>1, <1>2, <1>3 DEF paid

-----------------------------------------------------------------------------
(* Mining.  What concerns a block's identity: which hashes have been used, *)
(* and what a worker that has found a block knows of it.                   *)

MiningBudgets == [payments : Nat, templates : Nat, found : Nat, others : Nat, ticks : Nat]

\* Hashes count down with the budget that finding them uses up.
Used(id, budget) ==
    \/ id = <<"genesis", 0>>
    \/ \E n \in Nat : n > budget.others /\ id = <<"others", n>>
    \/ \E n \in Nat : n > budget.found /\ id = <<"miner", n>>

\* Sending a block and parsing it gives it back.
Faithful(b) ==
    /\ b = [f \in DOMAIN b |-> b[f]]
    /\ {"id", "networkFee"} \subseteq DOMAIN b /\ b.networkFee = 0

Found(job) == job.step \in {"submit", "answer"}

HasBlock(job) == job.step \in {"height", "best", "info", "search"} \/ Found(job)

GoodJob(job, index, budget) ==
    /\ "step" \in DOMAIN job
    /\ HasBlock(job) => "block" \in DOMAIN job /\ Faithful(job.block)
    /\ Found(job) =>
          /\ \E n \in Nat : n > budget.found /\ job.block.id = <<"miner", n>>
          /\ \A b \in index : b.id = job.block.id => b = job.block
    /\ job.step = "answer" /\ IsSuccess(job.verdict) => job.block \in index

ChainOnce ==
    /\ mineChain \in Seq(mineIndex) /\ mineChain # <<>>
    /\ \A i, j \in DOMAIN mineChain : mineChain[i] = mineChain[j] => i = j

IndexOnce ==
    /\ \A b \in mineIndex : Used(b.id, left)
    /\ \A b, c \in mineIndex : b.id = c.id => b = c

JobsOnce ==
    /\ DOMAIN jobs = Worker
    /\ \A w \in Worker : GoodJob(jobs[w], mineIndex, left)
    /\ \A v, w \in Worker : v # w /\ Found(jobs[v]) /\ Found(jobs[w]) =>
                               jobs[v].block.id # jobs[w].block.id

MinedOnce ==
    /\ left \in MiningBudgets /\ reported \subseteq mineIndex
    /\ ChainOnce /\ IndexOnce /\ JobsOnce

\* The budget never grows, and what is unused stays so.
Shrinks ==
    left' \in MiningBudgets /\ left'.others <= left.others /\ left'.found <= left.found

LEMMA SpendShrinks ==
    ASSUME left \in MiningBudgets, NEW n \in Nat,
           NEW what \in {"payments", "templates", "found", "others", "ticks"}, Spend(what, n)
    PROVE  Shrinks /\ left'[what] = left[what] - n
<1>1. left[what] \in Nat /\ left[what] >= n /\ left' = [left EXCEPT ![what] = left[what] - n]
  BY DEF Spend, MiningBudgets
<1>2. left[what] - n \in Nat
  BY <1>1
<1>3. left' \in MiningBudgets
  BY <1>1, <1>2 DEF MiningBudgets
<1>4. left'[what] = left[what] - n
  BY <1>1 DEF MiningBudgets
<1>5. left'.others <= left.others
  <2>1. CASE what = "others"
    BY <1>1, <1>4, <2>1
  <2>2. CASE what # "others"
    BY <1>1, <2>2 DEF MiningBudgets
  <2> QED BY <2>1, <2>2
<1>6. left'.found <= left.found
  <2>1. CASE what = "found"
    BY <1>1, <1>4, <2>1
  <2>2. CASE what # "found"
    BY <1>1, <2>2 DEF MiningBudgets
  <2> QED BY <2>1, <2>2
<1> QED BY <1>3, <1>4, <1>5, <1>6 DEF Shrinks

LEMMA StaysShrinks ==
    ASSUME left \in MiningBudgets, UNCHANGED left
    PROVE  Shrinks
<1>1. left.others \in Nat /\ left.found \in Nat
  BY DEF MiningBudgets
<1> QED BY <1>1 DEF Shrinks

LEMMA UsedStays ==
    ASSUME left \in MiningBudgets, Shrinks, NEW id, Used(id, left)
    PROVE  Used(id, left')
<1>1. /\ left.others \in Nat /\ left.found \in Nat
      /\ left'.others \in Nat /\ left'.found \in Nat
  BY DEF MiningBudgets, Shrinks
<1> QED BY <1>1 DEF Used, Shrinks

LEMMA GoodJobStays ==
    ASSUME left \in MiningBudgets, Shrinks, NEW job, NEW index, NEW more,
           GoodJob(job, index, left), index \subseteq more,
           Found(job) => \A b \in more \ index : b.id # job.block.id \/ b = job.block
    PROVE  GoodJob(job, more, left')
<1>1. left.found \in Nat /\ left'.found \in Nat
  BY DEF MiningBudgets, Shrinks
<1> QED BY <1>1 DEF GoodJob, Shrinks

LEMMA IndexStays ==
    ASSUME left \in MiningBudgets, IndexOnce, Shrinks, UNCHANGED mineIndex
    PROVE  IndexOnce'
  BY UsedStays DEF IndexOnce

\* Steps that touch neither blocks nor jobs.
LEMMA FrameOnce ==
    ASSUME MinedOnce, Shrinks, UNCHANGED <<mineChain, mineIndex, jobs, reported>>
    PROVE  MinedOnce'
<1>1. IndexOnce'
  BY IndexStays DEF MinedOnce
<1>2. JobsOnce'
  BY GoodJobStays DEF MinedOnce, JobsOnce
<1>3. ChainOnce'
  BY DEF MinedOnce, ChainOnce
<1> QED BY <1>1, <1>2, <1>3 DEF MinedOnce, Shrinks

\* Steps that touch one job.
LEMMA JobOnce ==
    ASSUME MinedOnce, Shrinks, UNCHANGED <<mineChain, mineIndex, reported>>,
           NEW w \in Worker, NEW job, SetJob(w, job), GoodJob(job, mineIndex, left'),
           Found(job) => Found(jobs[w]) /\ job.block.id = jobs[w].block.id
    PROVE  MinedOnce'
<1>1. IndexOnce'
  BY IndexStays DEF MinedOnce
<1>2. /\ DOMAIN jobs' = Worker /\ jobs'[w] = job
      /\ \A v \in Worker \ {w} : jobs'[v] = jobs[v]
  BY DEF SetJob, MinedOnce, JobsOnce
<1>3. \A v \in Worker : GoodJob(jobs'[v], mineIndex, left')
  BY <1>2, GoodJobStays DEF MinedOnce, JobsOnce
<1>4. \A v, u \in Worker : v # u /\ Found(jobs'[v]) /\ Found(jobs'[u]) =>
                              jobs'[v].block.id # jobs'[u].block.id
  BY <1>2 DEF MinedOnce, JobsOnce
<1>5. JobsOnce'
  BY <1>2, <1>3, <1>4 DEF JobsOnce, Found
<1>6. ChainOnce'
  BY DEF MinedOnce, ChainOnce
<1> QED BY <1>1, <1>5, <1>6 DEF MinedOnce, Shrinks

\* A worker rests or works on a template.
LEMMA NoBlockJob ==
    ASSUME NEW job, "step" \in DOMAIN job, job.step \in {"rest", "history", "pool", "select", "served"},
           NEW index, NEW budget
    PROVE  GoodJob(job, index, budget) /\ ~Found(job)
  BY DEF GoodJob, HasBlock, Found

-----------------------------------------------------------------------------
(* The actions of Mining. *)

LEMMA ApplyFacts ==
    ASSUME NEW b, NEW verdict, Apply(b, verdict)
    PROVE  /\ mineChain' = IF verdict = "added" THEN Append(mineChain, b) ELSE mineChain
           /\ mineIndex' = IF verdict \in {"added", "spent", "fork"} THEN mineIndex \cup {b}
                           ELSE mineIndex
  BY DEF Apply

LEMMA AppendOnce ==
    ASSUME ChainOnce, NEW b, b \notin mineIndex, mineChain' = Append(mineChain, b),
           mineIndex' = mineIndex \cup {b}
    PROVE  ChainOnce'
<1>1. mineChain \in Seq(mineIndex')
  BY DEF ChainOnce
<1>2. mineChain' \in Seq(mineIndex') /\ mineChain' # <<>>
  BY <1>1
<1>3. /\ DOMAIN mineChain' = 1..(Len(mineChain) + 1)
      /\ mineChain'[Len(mineChain) + 1] = b
      /\ \A i \in DOMAIN mineChain : mineChain'[i] = mineChain[i] /\ mineChain[i] \in mineIndex
      /\ DOMAIN mineChain = 1..Len(mineChain) /\ Len(mineChain) \in Nat
  BY DEF ChainOnce
<1>4. \A i, j \in DOMAIN mineChain' : mineChain'[i] = mineChain'[j] => i = j
  BY <1>3 DEF ChainOnce
<1> QED BY <1>2, <1>4 DEF ChainOnce

LEMMA IndexGrows ==
    ASSUME left \in MiningBudgets, IndexOnce, Shrinks, NEW b, Used(b.id, left'),
           \A c \in mineIndex : c.id = b.id => c = b, mineIndex' = mineIndex \cup {b}
    PROVE  IndexOnce'
  BY UsedStays DEF IndexOnce

LEMMA FreshOthers ==
    ASSUME left \in MiningBudgets, IndexOnce, NEW n \in Nat, n <= left.others
    PROVE  \A c \in mineIndex : c.id # <<"others", n>>
<1>1. left.others \in Nat
  BY DEF MiningBudgets
<1> QED BY <1>1 DEF IndexOnce, Used

\* Blocks of others are not those of a worker.
LEMMA OthersJobs ==
    ASSUME MinedOnce, Shrinks, UNCHANGED jobs, mineIndex \subseteq mineIndex',
           \A b \in mineIndex' \ mineIndex : \E n \in Nat : b.id = <<"others", n>>
    PROVE  JobsOnce'
<1>1. \A w \in Worker : GoodJob(jobs[w], mineIndex', left')
  <2> SUFFICES ASSUME NEW w \in Worker
               PROVE  GoodJob(jobs[w], mineIndex', left')
    OBVIOUS
  <2>1. GoodJob(jobs[w], mineIndex, left)
    BY DEF MinedOnce, JobsOnce
  <2>2. Found(jobs[w]) => \A b \in mineIndex' \ mineIndex : b.id # jobs[w].block.id
    BY <2>1 DEF GoodJob
  <2> QED BY <2>1, <2>2, GoodJobStays DEF MinedOnce
<1> QED BY <1>1 DEF MinedOnce, JobsOnce

\* The fields of a block of another miner.
LEMMA OthersFields ==
    ASSUME NEW name, NEW parent, NEW time, NEW txs
    PROVE  LET b == OthersBlock(name, parent, time, txs)
           IN  /\ b.id = <<"others", name>> /\ b.parent = parent.id
               /\ b.number = parent.number + 1 /\ b.time = time /\ b.txs = txs
               /\ b.difficulty
                     = ExpectedDifficulty(parent.number + 1, parent.difficulty, History, clock)
  BY DEF OthersBlock

LEMMA OthersExtendOnce ==
    ASSUME MinedOnce, NEW txs, NEW time, OthersExtend(txs, time)
    PROVE  MinedOnce'
<1> DEFINE b == OthersBlock(left.others, Tip, time, txs)
<1>1. Apply(b, "added") /\ Spend("others", 1) /\ UNCHANGED <<jobs, reported>>
  BY DEF OthersExtend
<1>2. b.id = <<"others", left.others>>
  BY OthersFields
<1> HIDE DEF b
<1>3. left.others \in Nat /\ left \in MiningBudgets
  BY DEF MinedOnce, MiningBudgets
<1>4. Shrinks /\ left'.others = left.others - 1
  BY <1>1, <1>3, SpendShrinks
<1>5. mineChain' = Append(mineChain, b) /\ mineIndex' = mineIndex \cup {b}
  BY <1>1, ApplyFacts
<1>6. \A c \in mineIndex : c.id # b.id
  BY <1>2, <1>3, FreshOthers DEF MinedOnce
<1>7. Used(b.id, left')
  BY <1>2, <1>3, <1>4 DEF Used
<1>8. IndexOnce'
  BY <1>3, <1>4, <1>5, <1>6, <1>7, IndexGrows DEF MinedOnce
<1>9. ChainOnce'
  BY <1>5, <1>6, AppendOnce DEF MinedOnce
<1>10. JobsOnce'
  BY <1>1, <1>2, <1>3, <1>4, <1>5, OthersJobs
<1> QED BY <1>1, <1>4, <1>5, <1>8, <1>9, <1>10 DEF MinedOnce, Shrinks

LEMMA ConcatPair ==
    ASSUME NEW S, NEW s \in Seq(S), NEW b \in S, NEW c \in S
    PROVE  /\ s \o <<b, c>> \in Seq(S) /\ Len(s \o <<b, c>>) = Len(s) + 2
           /\ \A i \in 1..Len(s) : (s \o <<b, c>>)[i] = s[i]
           /\ (s \o <<b, c>>)[Len(s) + 1] = b /\ (s \o <<b, c>>)[Len(s) + 2] = c
<1> DEFINE pair == <<b, c>>
           all == s \o pair
<1>1. pair \in Seq(S) /\ Len(pair) = 2 /\ pair[1] = b /\ pair[2] = c
  OBVIOUS
<1>2. Len(s) \in Nat
  OBVIOUS
<1> HIDE DEF pair
<1>3. /\ all \in Seq(S) /\ Len(all) = Len(s) + Len(pair)
      /\ \A i \in 1..(Len(s) + Len(pair)) :
            all[i] = IF i <= Len(s) THEN s[i] ELSE pair[i - Len(s)]
  BY <1>1, ConcatProperties
<1> HIDE DEF all
<1>4. \A i \in 1..Len(s) : all[i] = s[i]
  BY <1>1, <1>2, <1>3
<1>5. all[Len(s) + 1] = pair[1]
  <2>1. Len(s) + 1 \in 1..(Len(s) + Len(pair)) /\ ~(Len(s) + 1 <= Len(s))
        /\ (Len(s) + 1) - Len(s) = 1
    BY <1>1, <1>2
  <2> QED BY <1>3, <2>1
<1>6. all[Len(s) + 2] = pair[2]
  <2>1. Len(s) + 2 \in 1..(Len(s) + Len(pair)) /\ ~(Len(s) + 2 <= Len(s))
        /\ (Len(s) + 2) - Len(s) = 2
    BY <1>1, <1>2
  <2> QED BY <1>3, <2>1
<1> QED BY <1>1, <1>3, <1>4, <1>5, <1>6 DEF all, pair

LEMMA ReplacedOnce ==
    ASSUME ChainOnce, NEW b, NEW c, b \notin mineIndex, c \notin mineIndex, b # c,
           mineChain' = Front(mineChain) \o <<b, c>>, mineIndex' = mineIndex \cup {b, c}
    PROVE  ChainOnce'
<1> DEFINE n == Len(mineChain)
<1>1. n \in Nat \ {0} /\ DOMAIN mineChain = 1..n /\ mineChain \in Seq(mineIndex)
  BY DEF ChainOnce
<1>2. /\ Front(mineChain) \in Seq(mineIndex) /\ Len(Front(mineChain)) = n - 1
      /\ \A i \in 1..(n - 1) : Front(mineChain)[i] = mineChain[i]
  BY <1>1 DEF Front
<1> DEFINE front == Front(mineChain)
<1> HIDE DEF front, n
<1>3. front \in Seq(mineIndex') /\ Len(front) = n - 1 /\ mineChain' = front \o <<b, c>>
  BY <1>2 DEF front
<1>4. /\ mineChain' \in Seq(mineIndex') /\ Len(mineChain') = n + 1
      /\ \A i \in 1..(n - 1) : mineChain'[i] = front[i]
      /\ mineChain'[n] = b /\ mineChain'[n + 1] = c
  <2>1. b \in mineIndex' /\ c \in mineIndex'
    OBVIOUS
  <2>2. /\ front \o <<b, c>> \in Seq(mineIndex') /\ Len(front \o <<b, c>>) = Len(front) + 2
        /\ \A i \in 1..Len(front) : (front \o <<b, c>>)[i] = front[i]
        /\ (front \o <<b, c>>)[Len(front) + 1] = b /\ (front \o <<b, c>>)[Len(front) + 2] = c
    BY <1>3, <2>1, ConcatPair
  <2>3. Len(front) + 1 = n /\ Len(front) + 2 = n + 1
    BY <1>1, <1>3
  <2> QED BY <1>3, <2>2, <2>3
<1>5. \A i \in 1..(n - 1) : mineChain'[i] = mineChain[i] /\ mineChain[i] \in mineIndex
  BY <1>1, <1>2, <1>4 DEF front
<1>6. \A i, j \in DOMAIN mineChain' : mineChain'[i] = mineChain'[j] => i = j
  <2>1. DOMAIN mineChain' = 1..(n + 1)
    BY <1>4
  <2> QED BY <1>1, <1>4, <1>5, <2>1 DEF ChainOnce
<1>7. mineChain' # <<>>
  BY <1>1, <1>4
<1> QED BY <1>4, <1>6, <1>7 DEF ChainOnce

\* The two blocks that take the place of the tip.
IsPair(b, c, time, time2) ==
    LET parent == mineChain[Len(mineChain) - 1]
    IN  /\ b.id = <<"others", left.others>> /\ c.id = <<"others", left.others - 1>>
        /\ b.number = parent.number + 1 /\ c.number = b.number + 1
        /\ b.time = time /\ c.time = time2 /\ b.txs = <<>> /\ c.txs = <<>>
        /\ b.difficulty
              = ExpectedDifficulty(parent.number + 1, parent.difficulty, History, clock)
        /\ c.difficulty = ExpectedDifficulty(b.number + 1, b.difficulty, History, clock)
        /\ mineChain' = Front(mineChain) \o <<b, c>>
        /\ mineIndex' = mineIndex \cup {b, c}

LEMMA OthersPair ==
    ASSUME NEW time, NEW time2, OthersReorganize(time, time2)
    PROVE  \E b, c : IsPair(b, c, time, time2)
<1> DEFINE parent == mineChain[Len(mineChain) - 1]
           b == OthersBlock(left.others, parent, time, <<>>)
           c == OthersBlock(left.others - 1, b, time2, <<>>)
<1>1. mineChain' = Front(mineChain) \o <<b, c>> /\ mineIndex' = mineIndex \cup {b, c}
  BY DEF OthersReorganize
<1> HIDE DEF parent
<1>2. /\ b.id = <<"others", left.others>> /\ b.number = parent.number + 1
      /\ b.time = time /\ b.txs = <<>>
      /\ b.difficulty = ExpectedDifficulty(parent.number + 1, parent.difficulty, History, clock)
  BY OthersFields
<1> HIDE DEF b
<1>3. /\ c.id = <<"others", left.others - 1>> /\ c.number = b.number + 1
      /\ c.time = time2 /\ c.txs = <<>>
      /\ c.difficulty = ExpectedDifficulty(b.number + 1, b.difficulty, History, clock)
  BY OthersFields
<1> HIDE DEF c
<1>4. IsPair(b, c, time, time2)
  BY <1>1, <1>2, <1>3 DEF IsPair, parent
<1> QED BY <1>4

LEMMA OthersReorganizeOnce ==
    ASSUME MinedOnce, NEW time, NEW time2, OthersReorganize(time, time2)
    PROVE  MinedOnce'
<1>1. PICK b, c : /\ b.id = <<"others", left.others>> /\ c.id = <<"others", left.others - 1>>
                  /\ mineChain' = Front(mineChain) \o <<b, c>>
                  /\ mineIndex' = mineIndex \cup {b, c}
                  /\ Spend("others", 2) /\ UNCHANGED <<jobs, reported>>
  <2>1. Spend("others", 2) /\ UNCHANGED <<jobs, reported>>
    BY DEF OthersReorganize
  <2>2. PICK b, c : IsPair(b, c, time, time2)
    BY OthersPair
  <2> QED BY <2>1, <2>2 DEF IsPair
<1>2. left.others \in Nat /\ left \in MiningBudgets
  BY DEF MinedOnce, MiningBudgets
<1>3. Shrinks /\ left'.others = left.others - 2
  BY <1>1, <1>2, SpendShrinks
<1>4. left'.others \in Nat
  BY <1>3 DEF Shrinks, MiningBudgets
<1>5. left.others - 1 \in Nat /\ left.others - 1 <= left.others
  BY <1>2, <1>3, <1>4
<1>6. \A d \in mineIndex : d.id # b.id /\ d.id # c.id
  BY <1>1, <1>2, <1>5, FreshOthers DEF MinedOnce
<1>7. b.id # c.id
  BY <1>1, <1>2
<1>8. Used(b.id, left') /\ Used(c.id, left')
  BY <1>1, <1>2, <1>3, <1>5 DEF Used
<1>9. IndexOnce'
  BY <1>1, <1>2, <1>3, <1>6, <1>7, <1>8, UsedStays DEF MinedOnce, IndexOnce
<1>10. ChainOnce'
  BY <1>1, <1>6, <1>7, ReplacedOnce DEF MinedOnce
<1>11. JobsOnce'
  BY <1>1, <1>2, <1>3, <1>5, OthersJobs
<1> QED BY <1>1, <1>3, <1>9, <1>10, <1>11 DEF MinedOnce, Shrinks

\* The steps of a template.
LEMMA TemplateOnce ==
    ASSUME MinedOnce, NEW w \in Worker,
           \/ ReadTip(w) \/ ReadHistory(w) \/ ReadPool(w) \/ SelectPayment(w) \/ FinishTemplate(w)
           \/ LoseTemplate(w)
    PROVE  MinedOnce'
<1>1. PICK job : /\ SetJob(w, job) /\ "step" \in DOMAIN job
                 /\ job.step \in {"rest", "history", "pool", "select", "served"}
  <2>1. CASE ReadTip(w)
    BY <2>1 DEF ReadTip
  <2>2. CASE ReadHistory(w)
    BY <2>2 DEF ReadHistory
  <2>3. CASE ReadPool(w)
    BY <2>3 DEF ReadPool
  <2>4. CASE SelectPayment(w)
    <3> DEFINE job == jobs[w]
               p == Head(job.pending)
               next == IF ~IsSelectable(p) THEN [job EXCEPT !.pending = Tail(@)]
                       ELSE IF Len(job.txs) >= MaxBlockTxs THEN [job EXCEPT !.pending = <<>>]
                       ELSE [job EXCEPT !.pending = Tail(@), !.txs = Append(@, p)]
    <3>1. job.step = "select" /\ SetJob(w, next)
      BY <2>4 DEF SelectPayment, At
    <3>2. "step" \in DOMAIN job
      BY DEF MinedOnce, JobsOnce, GoodJob
    <3>3. "step" \in DOMAIN next /\ next.step = "select"
      BY <3>1, <3>2
    <3> HIDE DEF next
    <3> QED BY <3>1, <3>3
  <2>5. CASE FinishTemplate(w)
    BY <2>5 DEF FinishTemplate
  <2>6. CASE LoseTemplate(w)
    BY <2>6 DEF LoseTemplate, Rest
  <2> QED BY <2>1, <2>2, <2>3, <2>4, <2>5, <2>6
<1>2. GoodJob(job, mineIndex, left') /\ ~Found(job)
  BY <1>1, NoBlockJob
<1>3. Shrinks /\ UNCHANGED <<mineChain, mineIndex, reported>>
  BY SpendShrinks, StaysShrinks
     DEF MinedOnce, ReadTip, ReadHistory, ReadPool, SelectPayment, FinishTemplate, LoseTemplate,
         Rest, OnlyJobs, nodeVars
<1> QED BY <1>1, <1>2, <1>3, JobOnce

LEMMA RestOnce ==
    ASSUME MinedOnce, NEW w \in Worker, Rest(w)
    PROVE  MinedOnce'
<1> DEFINE job == [step |-> "rest"]
<1>1. SetJob(w, job) /\ "step" \in DOMAIN job /\ job.step = "rest"
  BY DEF Rest
<1> HIDE DEF job
<1>2. GoodJob(job, mineIndex, left') /\ ~Found(job)
  BY <1>1, NoBlockJob
<1> QED BY <1>1, <1>2, StaysShrinks, JobOnce DEF Rest, OnlyJobs, nodeVars, MinedOnce

LEMMA ParsedIsFaithful ==
    ASSUME NEW b, Faithful(b)
    PROVE  parseBlockData(SentBlock(b)) = b
<1> DEFINE sent == SentBlock(b)
<1>1. DOMAIN sent = DOMAIN b \ {"networkFee"} /\ \A f \in DOMAIN sent : sent[f] = b[f]
  BY DEF SentBlock
<1> HIDE DEF sent
<1>2. DOMAIN sent \cup {"networkFee"} = DOMAIN b
  BY <1>1 DEF Faithful
<1>3. parseBlockData(sent) = [f \in DOMAIN b |-> IF f = "networkFee" THEN 0 ELSE sent[f]]
  BY <1>2 DEF parseBlockData
<1>4. \A f \in DOMAIN b : (IF f = "networkFee" THEN 0 ELSE sent[f]) = b[f]
  BY <1>1 DEF Faithful
<1>5. parseBlockData(sent) = [f \in DOMAIN b |-> b[f]]
  BY <1>3, <1>4
<1> QED BY <1>5 DEF Faithful, sent

LEMMA TemplateIsFaithful ==
    ASSUME NEW t
    PROVE  Faithful(BlockFromTemplate(t))
<1> DEFINE b == BlockFromTemplate(t)
<1>1. /\ DOMAIN b = DOMAIN t \cup {"id", "networkFee"} /\ b["networkFee"] = 0
      /\ b = [f \in DOMAIN b |-> b[f]]
  BY DEF BlockFromTemplate
<1> HIDE DEF b
<1>2. Faithful(b)
  BY <1>1 DEF Faithful
<1> QED BY <1>2 DEF b

LEMMA RenamedIsFaithful ==
    ASSUME NEW b, NEW id, Faithful(b)
    PROVE  Faithful([b EXCEPT !.id = id]) /\ [b EXCEPT !.id = id].id = id
<1> DEFINE new == [b EXCEPT !.id = id]
<1>1. /\ DOMAIN new = DOMAIN b /\ new = [f \in DOMAIN new |-> new[f]]
      /\ new["networkFee"] = b["networkFee"] /\ new["id"] = id
  BY DEF Faithful
<1> HIDE DEF new
<1>2. Faithful(new) /\ new.id = id
  BY <1>1 DEF Faithful
<1> QED BY <1>2 DEF new

\* A job that still has its block, which nobody has found yet.
LEMMA SearchingJob ==
    ASSUME NEW job, "step" \in DOMAIN job, "block" \in DOMAIN job, Faithful(job.block),
           job.step \in {"height", "best", "info", "search"}, NEW index, NEW budget
    PROVE  GoodJob(job, index, budget) /\ ~Found(job)
  BY DEF GoodJob, HasBlock, Found

LEMMA CheckOnce ==
    ASSUME MinedOnce, NEW w \in Worker,
           \/ ReceiveTemplate(w) \/ CheckHeight(w) \/ CheckBest(w) \/ CheckMiningInfo(w)
           \/ ExpireTemplate(w)
    PROVE  MinedOnce'
<1> SUFFICES ASSUME ~Rest(w)
             PROVE  MinedOnce'
  BY RestOnce
<1>1. PICK job : /\ SetJob(w, job) /\ "step" \in DOMAIN job /\ "block" \in DOMAIN job
                 /\ Faithful(job.block) /\ job.step \in {"height", "best", "info", "search"}
                 /\ OnlyJobs
  <2>1. CASE ReceiveTemplate(w)
    BY <2>1, TemplateIsFaithful DEF ReceiveTemplate
  <2>2. ASSUME NEW step \in {"height", "best"}, NEW next \in {"best", "info"}, NEW stale,
               At(w, step), Pass(w, next, stale)
        PROVE  \E job : /\ SetJob(w, job) /\ "step" \in DOMAIN job /\ "block" \in DOMAIN job
                        /\ Faithful(job.block) /\ job.step \in {"height", "best", "info", "search"}
                        /\ OnlyJobs
    <3> DEFINE old == jobs[w]
               new == [old EXCEPT !.step = next]
    <3>1. "step" \in DOMAIN old /\ "block" \in DOMAIN old /\ Faithful(old.block)
      BY <2>2 DEF MinedOnce, JobsOnce, GoodJob, HasBlock, At
    <3>2. SetJob(w, new) /\ OnlyJobs
      BY <2>2 DEF Pass
    <3> HIDE DEF old
    <3>3. /\ "step" \in DOMAIN new /\ "block" \in DOMAIN new
          /\ new.block = old.block /\ new.step = next
      BY <3>1
    <3> HIDE DEF new
    <3> QED BY <3>1, <3>2, <3>3
  <2>3. CASE CheckHeight(w)
    BY <2>2, <2>3 DEF CheckHeight
  <2>4. CASE CheckBest(w)
    BY <2>2, <2>4 DEF CheckBest
  <2>5. CASE CheckMiningInfo(w)
    <3>1. Faithful(jobs[w].block)
      BY <2>5 DEF CheckMiningInfo, MinedOnce, JobsOnce, GoodJob, HasBlock, At
    <3> QED BY <2>5, <3>1 DEF CheckMiningInfo
  <2>6. CASE ExpireTemplate(w)
    BY <2>6 DEF ExpireTemplate
  <2> QED BY <2>1, <2>3, <2>4, <2>5, <2>6
<1>2. GoodJob(job, mineIndex, left') /\ ~Found(job)
  BY <1>1, SearchingJob
<1> QED BY <1>1, <1>2, StaysShrinks, JobOnce DEF OnlyJobs, nodeVars, MinedOnce

LEMMA FindOnce ==
    ASSUME MinedOnce, NEW w \in Worker, FindBlock(w)
    PROVE  MinedOnce'
<1> DEFINE id == <<"miner", left.found>>
           b == [jobs[w].block EXCEPT !.id = id]
           job == [step |-> "submit", tries |-> MaxTries, block |-> b]
<1>1. left \in MiningBudgets /\ left.found \in Nat
  BY DEF MinedOnce, MiningBudgets
<1>2. Shrinks /\ left'.found = left.found - 1
  BY <1>1, SpendShrinks DEF FindBlock
<1>3. Faithful(b) /\ b.id = id
  <2>1. Faithful(jobs[w].block)
    BY DEF FindBlock, MinedOnce, JobsOnce, GoodJob, HasBlock, At
  <2> QED BY <2>1, RenamedIsFaithful
<1>4. /\ SetJob(w, job) /\ UNCHANGED <<mineChain, mineIndex, reported>>
      /\ "step" \in DOMAIN job /\ "block" \in DOMAIN job
      /\ job.step = "submit" /\ job.block = b
  BY DEF FindBlock, nodeVars
<1> HIDE DEF job, b
<1>5. \A c \in mineIndex : c.id # id
  BY <1>1 DEF MinedOnce, IndexOnce, Used
<1>6. GoodJob(job, mineIndex, left')
  BY <1>1, <1>2, <1>3, <1>4, <1>5 DEF GoodJob, HasBlock
<1>7. /\ DOMAIN jobs' = Worker /\ jobs'[w] = job
      /\ \A v \in Worker \ {w} : jobs'[v] = jobs[v]
  BY <1>4 DEF SetJob, MinedOnce, JobsOnce
<1>8. \A v \in Worker : GoodJob(jobs'[v], mineIndex, left')
  BY <1>2, <1>6, <1>7, GoodJobStays DEF MinedOnce, JobsOnce
<1>9. \A v \in Worker \ {w} : Found(jobs[v]) => jobs[v].block.id # id
  <2> SUFFICES ASSUME NEW v \in Worker \ {w}, Found(jobs[v])
               PROVE  jobs[v].block.id # id
    OBVIOUS
  <2>1. PICK n \in Nat : n > left.found /\ jobs[v].block.id = <<"miner", n>>
    BY DEF MinedOnce, JobsOnce, GoodJob
  <2> QED BY <1>1, <2>1
<1>10. \A v, u \in Worker : v # u /\ Found(jobs'[v]) /\ Found(jobs'[u]) =>
                               jobs'[v].block.id # jobs'[u].block.id
  BY <1>3, <1>4, <1>7, <1>9 DEF MinedOnce, JobsOnce
<1>11. JobsOnce'
  BY <1>4, <1>7, <1>8, <1>10 DEF JobsOnce, Found
<1>12. IndexOnce' /\ ChainOnce'
  BY <1>2, <1>4, IndexStays DEF MinedOnce, ChainOnce
<1> QED BY <1>2, <1>4, <1>11, <1>12 DEF MinedOnce, Shrinks

LEMMA TryAgainOnce ==
    ASSUME MinedOnce, NEW w \in Worker, TryAgain(w)
    PROVE  MinedOnce'
<1>1. CASE jobs[w].tries = 1
  BY <1>1, RestOnce DEF TryAgain, Rest
<1>2. CASE jobs[w].tries # 1
  <2> DEFINE job == [step |-> "submit", block |-> jobs[w].block, tries |-> jobs[w].tries - 1]
  <2>1. SetJob(w, job) /\ OnlyJobs /\ Found(jobs[w])
    BY <1>2 DEF TryAgain, At, Found
  <2>2. /\ "step" \in DOMAIN job /\ "block" \in DOMAIN job
        /\ job.step = "submit" /\ job.block = jobs[w].block
    OBVIOUS
  <2> HIDE DEF job
  <2>3. GoodJob(job, mineIndex, left)
    BY <2>1, <2>2 DEF MinedOnce, JobsOnce, GoodJob, HasBlock, Found
  <2> QED BY <2>1, <2>2, <2>3, StaysShrinks, JobOnce DEF OnlyJobs, nodeVars, MinedOnce
<1> QED BY <1>1, <1>2

LEMMA AnsweredOnce ==
    ASSUME MinedOnce, NEW w \in Worker, Answered(w)
    PROVE  MinedOnce'
<1> DEFINE job == [step |-> "rest"]
<1>1. SetJob(w, job) /\ "step" \in DOMAIN job /\ job.step = "rest"
  BY DEF Answered
<1> HIDE DEF job
<1>2. GoodJob(job, mineIndex, left) /\ ~Found(job)
  BY <1>1, NoBlockJob
<1>3. UNCHANGED <<mineChain, mineIndex, left>>
  BY DEF Answered, nodeVars
<1>4. reported' \subseteq mineIndex
  BY DEF Answered, At, MinedOnce, JobsOnce, GoodJob
<1>5. /\ DOMAIN jobs' = Worker /\ jobs'[w] = job
      /\ \A v \in Worker \ {w} : jobs'[v] = jobs[v]
  BY <1>1 DEF SetJob, MinedOnce, JobsOnce
<1>6. JobsOnce'
  <2>1. \A v \in Worker : GoodJob(jobs'[v], mineIndex, left)
    BY <1>2, <1>5 DEF MinedOnce, JobsOnce
  <2>2. \A v, u \in Worker : v # u /\ Found(jobs'[v]) /\ Found(jobs'[u]) =>
                                jobs'[v].block.id # jobs'[u].block.id
    BY <1>2, <1>5 DEF MinedOnce, JobsOnce
  <2> QED BY <1>3, <1>5, <2>1, <2>2 DEF JobsOnce, Found
<1>7. IndexOnce' /\ ChainOnce'
  BY <1>3 DEF MinedOnce, IndexOnce, ChainOnce
<1> QED BY <1>3, <1>4, <1>6, <1>7 DEF MinedOnce

\* A block that is submitted is the one that was found, however often it was sent, and is
\* on the chain only if it was not known.
LEMMA SubmitOnce ==
    ASSUME MinedOnce, NEW w \in Worker, Submit(w)
    PROVE  MinedOnce'
<1> DEFINE b == jobs[w].block
           verdict == handleRequest(b)
           job == [step |-> "answer", block |-> b, tries |-> jobs[w].tries, verdict |-> verdict]
<1>1. Found(jobs[w]) /\ Faithful(b)
  BY DEF Submit, At, Found, HasBlock, MinedOnce, JobsOnce, GoodJob
<1>2. parseBlockData(SentBlock(b)) = b
  BY <1>1, ParsedIsFaithful
<1>3. SetJob(w, job) /\ Apply(b, verdict) /\ UNCHANGED <<left, reported>>
  BY <1>2 DEF Submit
<1>4. /\ "step" \in DOMAIN job /\ "block" \in DOMAIN job
      /\ job.step = "answer" /\ job.block = b /\ job.verdict = verdict
  OBVIOUS
<1>5. /\ verdict \in {"added", "fork", "spent"} => b \notin mineIndex
  BY DEF handleRequest, Verdict, Exists
<1> HIDE DEF job, verdict
<1>6. /\ mineChain' = IF verdict = "added" THEN Append(mineChain, b) ELSE mineChain
      /\ mineIndex' = IF verdict \in {"added", "spent", "fork"} THEN mineIndex \cup {b}
                      ELSE mineIndex
  BY <1>3, ApplyFacts
<1>7. /\ \E n \in Nat : n > left.found /\ b.id = <<"miner", n>>
      /\ \A c \in mineIndex : c.id = b.id => c = b
      /\ \A v \in Worker \ {w} : Found(jobs[v]) => b.id # jobs[v].block.id
  BY <1>1 DEF MinedOnce, JobsOnce, GoodJob
<1>8. left \in MiningBudgets /\ Shrinks
  BY <1>3, StaysShrinks DEF MinedOnce
<1>9. mineIndex \subseteq mineIndex' /\ mineIndex' \subseteq mineIndex \cup {b}
  BY <1>6
<1> HIDE DEF b
<1>10. IndexOnce'
  <2>1. Used(b.id, left)
    BY <1>7 DEF Used
  <2>2. \A c \in mineIndex' : Used(c.id, left) /\ (c \in mineIndex \/ c = b)
    BY <1>9, <2>1 DEF MinedOnce, IndexOnce
  <2>3. \A c, d \in mineIndex' : c.id = d.id => c = d
    BY <1>7, <2>2 DEF MinedOnce, IndexOnce
  <2> QED BY <1>3, <2>2, <2>3 DEF IndexOnce
<1>11. ChainOnce'
  <2>1. CASE verdict = "added"
    BY <1>5, <1>6, <2>1, AppendOnce DEF MinedOnce
  <2>2. CASE verdict # "added"
    BY <1>6, <1>9, <2>2 DEF MinedOnce, ChainOnce
  <2> QED BY <2>1, <2>2
<1>12. GoodJob(job, mineIndex', left)
  <2>1. \A c \in mineIndex' : c.id = b.id => c = b
    BY <1>7, <1>9
  <2>2. IsSuccess(verdict) => b \in mineIndex'
    BY <1>6 DEF IsSuccess
  <2> QED BY <1>1, <1>4, <1>7, <2>1, <2>2 DEF GoodJob
<1>13. /\ DOMAIN jobs' = Worker /\ jobs'[w] = job
       /\ \A v \in Worker \ {w} : jobs'[v] = jobs[v]
  BY <1>3 DEF SetJob, MinedOnce, JobsOnce
<1>14. \A v \in Worker : GoodJob(jobs'[v], mineIndex', left)
  <2> SUFFICES ASSUME NEW v \in Worker \ {w}
               PROVE  GoodJob(jobs[v], mineIndex', left)
    BY <1>12, <1>13
  <2>1. GoodJob(jobs[v], mineIndex, left)
    BY DEF MinedOnce, JobsOnce
  <2>2. Found(jobs[v]) => \A c \in mineIndex' \ mineIndex : c.id # jobs[v].block.id
    BY <1>7, <1>9
  <2> QED BY <1>3, <1>8, <1>9, <2>1, <2>2, GoodJobStays
<1>15. \A v, u \in Worker : v # u /\ Found(jobs'[v]) /\ Found(jobs'[u]) =>
                               jobs'[v].block.id # jobs'[u].block.id
  BY <1>4, <1>7, <1>13 DEF MinedOnce, JobsOnce
<1>16. JobsOnce'
  BY <1>3, <1>13, <1>14, <1>15 DEF JobsOnce, Found
<1> QED BY <1>3, <1>9, <1>10, <1>11, <1>16 DEF MinedOnce

\* Every block is found once, and its worker submits it as it was found: the inductive
\* invariant behind SubmittedOnce.
THEOREM MinedOnceHolds == MiningSpec => []MinedOnce
<1>1. MiningInit => MinedOnce
  <2> SUFFICES ASSUME MiningInit
               PROVE  MinedOnce
    OBVIOUS
  <2>1. GenesisBlock.id = <<"genesis", 0>> /\ mineIndex = {GenesisBlock} /\ mineChain = <<GenesisBlock>>
    BY DEF MiningInit, GenesisBlock
  <2>2. left \in MiningBudgets
    BY MiningAssumption DEF MiningInit, MiningBudgets
  <2>3. IndexOnce
    BY <2>1 DEF IndexOnce, Used
  <2>4. ChainOnce
    BY <2>1 DEF ChainOnce
  <2>5. JobsOnce
    BY NoBlockJob DEF MiningInit, JobsOnce
  <2> QED BY <2>2, <2>3, <2>4, <2>5 DEF MiningInit, MinedOnce
<1>2. MinedOnce /\ [MiningNext]_miningVars => MinedOnce'
  <2> SUFFICES ASSUME MinedOnce, [MiningNext]_miningVars
               PROVE  MinedOnce'
    OBVIOUS
  <2>1. CASE UNCHANGED miningVars
    BY <2>1, StaysShrinks, FrameOnce DEF miningVars, nodeVars, MinedOnce
  <2>2. CASE \E p \in PayId : \/ \E coin \in Coin : SelectCoin(p, coin)
                              \/ ReadNonce(p) \/ handleSendTransaction(p) \/ AddTransactionToMempool(p)
    BY <2>2, SpendShrinks, StaysShrinks, FrameOnce
       DEF SelectCoin, ReadNonce, handleSendTransaction, AddTransactionToMempool, nodeVars, MinedOnce
  <2>3. CASE \E txs \in SeqOf(PayId, 2), time \in OthersTimes : OthersExtend(txs, time)
    BY <2>3, OthersExtendOnce
  <2>4. CASE \E time, time2 \in OthersTimes : OthersReorganize(time, time2)
    BY <2>4, OthersReorganizeOnce
  <2>5. CASE \E w \in Worker :
                \/ ReadTip(w) \/ ReadHistory(w) \/ ReadPool(w) \/ SelectPayment(w)
                \/ FinishTemplate(w) \/ LoseTemplate(w)
    BY <2>5, TemplateOnce
  <2>6. CASE \E w \in Worker :
                \/ ReceiveTemplate(w) \/ CheckHeight(w) \/ CheckBest(w) \/ CheckMiningInfo(w)
                \/ ExpireTemplate(w)
    BY <2>6, CheckOnce
  <2>7. CASE \E w \in Worker : FindBlock(w) \/ Submit(w) \/ TryAgain(w) \/ Answered(w)
    BY <2>7, FindOnce, SubmitOnce, TryAgainOnce, AnsweredOnce
  <2>8. CASE \E delay \in Delays : Tick(delay)
    BY <2>8, SpendShrinks, FrameOnce DEF Tick, nodeVars, MinedOnce
  <2> QED BY <2>1, <2>2, <2>3, <2>4, <2>5, <2>6, <2>7, <2>8 DEF MiningNext
<1> QED BY <1>1, <1>2, PTL DEF MiningSpec

\* No block is twice on the main chain, and what was reported as accepted is known, for any
\* number of workers, repeated submissions and blocks of others (callRPC, main.go:769).
THEOREM SubmittedOnceHolds == MiningSpec => []SubmittedOnce
<1>1. MinedOnce => SubmittedOnce
  <2> SUFFICES ASSUME MinedOnce
               PROVE  \A i, j \in DOMAIN mineChain : i # j => mineChain[i].id # mineChain[j].id
    BY DEF SubmittedOnce, MinedOnce
  <2>1. \A i \in DOMAIN mineChain : mineChain[i] \in mineIndex
    BY DEF MinedOnce, ChainOnce
  <2> QED BY <2>1 DEF MinedOnce, ChainOnce, IndexOnce
<1> QED BY <1>1, MinedOnceHolds, PTL
-----------------------------------------------------------------------------
(* Sums and folds. *)

LEMMA FeesType ==
    ASSUME NEW S \in SUBSET PayId, IsFiniteSet(S)
    PROVE  FeesOf(S) \in Nat
<1> DEFINE Pick(s) == CHOOSE x \in s : TRUE
           Sum(f) == [s \in SUBSET S |-> IF s = {} THEN 0
                                         ELSE FeeOf[Pick(s)] + f[s \ {Pick(s)}]]
<1>1. PICK pick, step : /\ pick = [s \in SUBSET S |-> Pick(s)]
                        /\ step = [x \in S |-> [v \in Nat |-> FeeOf[x] + v]]
  OBVIOUS
<1>2. \A s \in SUBSET S : pick[s] = Pick(s) /\ (s # {} => pick[s] \in s)
  BY <1>1
<1>3. \A x \in S : FeeOf[x] \in Nat
  BY MiningAssumption
<1>4. step \in [S -> [Nat -> Nat]]
  BY <1>1, <1>3
<1>5. PICK f : IsFold(f, S, Nat, 0, step, pick)
  BY <1>2, <1>4, FoldExists
<1>6. f = Sum(f)
  <2>1. \A s \in SUBSET S : s # {} => step[pick[s]][f[s \ {pick[s]}]] = FeeOf[Pick(s)] + f[s \ {Pick(s)}]
    BY <1>1, <1>2, <1>5 DEF IsFold
  <2>2. \A s \in SUBSET S : f[s] = IF s = {} THEN 0 ELSE FeeOf[Pick(s)] + f[s \ {Pick(s)}]
    BY <1>2, <1>5, <2>1 DEF IsFold
  <2>3. f = [s \in SUBSET S |-> f[s]]
    BY <1>5 DEF IsFold
  <2> QED BY <2>2, <2>3
<1>7. PICK g : g = Sum(g) /\ FeesOf(S) = g[S]
  BY <1>6 DEF FeesOf, MapThenSumSet, MapThenFoldSet
<1>8. g[{}] \in Nat
  BY <1>7
<1>9. \A s \in SUBSET S : s # {} => g[s] = FeeOf[pick[s]] + g[s \ {pick[s]}]
  BY <1>2, <1>7
<1>10. \A s \in SUBSET S : s # {} /\ g[s \ {pick[s]}] \in Nat => g[s] \in Nat
  BY <1>2, <1>3, <1>9
<1>11. \A s \in SUBSET S : s # {} => pick[s] \in s
  BY <1>2
<1>12. g[S] \in Nat
  <2> HIDE DEF Pick, Sum
  <2> QED BY <1>8, <1>10, <1>11, FoldType
<1> QED BY <1>7, <1>12

LEMMA CurrentRewardType ==
    ASSUME NEW height
    PROVE  GetCurrentReward(height) \in Nat
<1> DEFINE halvings == Reward.halvings
           After(reward, halving) == IF height < halving.after THEN reward
                                     ELSE Percent(reward, halving.pct)
           Rewards(f) == [s \in SUBSET DOMAIN halvings |->
                             IF s = {} THEN Reward.initial
                             ELSE After(f[s \ {Max(s)}], halvings[Max(s)])]
<1> DEFINE Halving == [after : Nat, pct : 0..100]
<1>1. Reward.initial \in Nat /\ Reward.guard \in Nat /\ halvings \in Seq(Halving)
  BY ConsensusAssumption, Zenon
<1>2. /\ Len(halvings) \in Nat /\ DOMAIN halvings = 1..Len(halvings)
      /\ \A i \in 1..Len(halvings) : halvings[i].pct \in Nat
  <2>1. /\ Len(halvings) \in Nat /\ DOMAIN halvings = 1..Len(halvings)
        /\ \A i \in 1..Len(halvings) : halvings[i] \in Halving
    <3> HIDE DEF halvings, Halving
    <3> QED BY <1>1
  <2>2. \A h \in Halving : h.pct \in Nat
    OBVIOUS
  <2> HIDE DEF halvings, Halving
  <2> QED BY <2>1, <2>2
<1> HIDE DEF halvings
<1>3. PICK n : n = Len(halvings)
  OBVIOUS
<1>4. \A v \in Nat, i \in 1..n : After(v, halvings[i]) \in Nat
  BY <1>2, <1>3, PercentType
<1>5. PICK step : step = [i \in 1..n |-> [v \in Nat |-> After(v, halvings[i])]]
  OBVIOUS
<1> HIDE DEF After
<1>6. step \in [1..n -> [Nat -> Nat]]
  BY <1>4, <1>5
<1>7. PICK f : IsFoldLeft(f, n, Nat, Reward.initial, step)
  BY <1>1, <1>2, <1>3, <1>6, FoldLeftExists
<1>8. f = Rewards(f)
  <2>1. \A s \in SUBSET (1..n) : s # {} => Max(s) \in 1..n
    BY <1>2, <1>3, MaxPicks
  <2>2. \A s \in SUBSET (1..n) :
           f[s] = IF s = {} THEN Reward.initial ELSE After(f[s \ {Max(s)}], halvings[Max(s)])
    BY <1>5, <1>7, <2>1 DEF IsFoldLeft
  <2>3. f = [s \in SUBSET (1..n) |-> f[s]]
    BY <1>7 DEF IsFoldLeft
  <2> QED BY <1>2, <1>3, <2>2, <2>3
<1>9. PICK g : /\ g = Rewards(g)
               /\ g[DOMAIN halvings] = FoldLeft(LAMBDA reward, halving :
                                                   IF height < halving.after THEN reward
                                                   ELSE Percent(reward, halving.pct),
                                                Reward.initial, halvings)
  BY <1>8 DEF FoldLeft, MapThenFoldSet, After
<1>10. g[{}] \in Nat
  BY <1>1, <1>9
<1>11. \A k \in 1..n : g[1..(k - 1)] \in Nat => g[1..k] \in Nat
  <2> SUFFICES ASSUME NEW k \in 1..n, g[1..(k - 1)] \in Nat
               PROVE  g[1..k] \in Nat
    OBVIOUS
  <2>1. 1..k # {} /\ Max(1..k) = k /\ (1..k) \ {Max(1..k)} = 1..(k - 1)
    BY UpToLast
  <2>2. 1..k \in SUBSET DOMAIN halvings
    BY <1>2, <1>3
  <2>3. g[1..k] = After(g[1..(k - 1)], halvings[k])
    BY <1>9, <2>1, <2>2
  <2> QED BY <1>4, <2>3
<1>12. g[1..n] \in Nat
  <2> HIDE DEF Rewards
  <2> QED BY <1>2, <1>3, <1>10, <1>11, FoldLeftType
<1> QED BY <1>1, <1>2, <1>3, <1>9, <1>12 DEF GetCurrentReward, halvings

-----------------------------------------------------------------------------
(* Payments: what is in the pool, in a template or in a block has been      *)
(* prepared, and what is on the chain has a nonce.                          *)

PaymentData == [spends : Coin, nonce : Nat, checked : BOOLEAN]

Signed == {p \in DOMAIN payments : payments[p].nonce > 0}

LedgerType == mineNonces \in [Payer -> Nat] /\ mineCoins \in SUBSET Coin

PreparedType ==
    /\ DOMAIN payments \subseteq PayId
    /\ \A p \in DOMAIN payments : payments[p] \in PaymentData

LEMMA PaymentFacts ==
    ASSUME PreparedType, NEW p \in DOMAIN payments
    PROVE  /\ p \in PayId /\ p \in Coin /\ PayerOf[p] \in Payer
           /\ payments[p].spends \in Coin /\ payments[p].nonce \in Nat
  BY MiningAssumption DEF PreparedType, PaymentData, Payer, Coin

\* A block's payments leave nonces and coins what they are.
LEMMA ProcessType ==
    ASSUME LedgerType, PreparedType, NEW known \in SUBSET DOMAIN payments, NEW txs \in Seq(known)
    PROVE  /\ Process(txs).ok \in BOOLEAN /\ Process(txs).nonces \in [Payer -> Nat]
           /\ Process(txs).coins \in SUBSET Coin
           /\ Process(txs).mined = {} => Process(txs).nonces = mineNonces
<1> DEFINE Done == [ok : BOOLEAN, nonces : [Payer -> Nat], coins : SUBSET Coin, mined : SUBSET PayId]
           V == {v \in Done : v.mined = {} => v.nonces = mineNonces}
           n == Len(txs)
           base == [ok |-> TRUE, nonces |-> mineNonces, coins |-> mineCoins, mined |-> {}]
           Body(f) == [s \in SUBSET DOMAIN txs |->
                          IF s = {} THEN base ELSE ProcessPayment(f[s \ {Max(s)}], txs[Max(s)])]
<1>1. n \in Nat /\ DOMAIN txs = 1..n /\ \A i \in 1..n : txs[i] \in known
  OBVIOUS
<1>2. base \in V
  BY DEF LedgerType
<1>3. \A v \in V, p \in known : ProcessPayment(v, p) \in V
  <2> SUFFICES ASSUME NEW v \in V, NEW p \in known
               PROVE  ProcessPayment(v, p) \in V
    OBVIOUS
  <2>1. /\ p \in PayId /\ p \in Coin /\ PayerOf[p] \in Payer
        /\ payments[p].spends \in Coin /\ payments[p].nonce \in Nat
    BY PaymentFacts
  <2>2. ProcessPayment(v, p) \in Done
    BY <2>1 DEF ProcessPayment
  <2>3. ProcessPayment(v, p).mined # {} \/ ProcessPayment(v, p).nonces = mineNonces
    BY <2>1 DEF ProcessPayment
  <2> QED BY <2>2, <2>3
<1>4. PICK step : step = [i \in 1..n |-> [v \in V |-> ProcessPayment(v, txs[i])]]
  OBVIOUS
<1>5. Process(txs) = FoldLeft(ProcessPayment, base, txs)
  BY DEF Process
<1> HIDE DEF V, n, base
<1>6. step \in [1..n -> [V -> V]]
  BY <1>1, <1>3, <1>4
<1>7. PICK f : IsFoldLeft(f, n, V, base, step)
  BY <1>1, <1>2, <1>6, FoldLeftExists
<1>8. f = Body(f)
  <2>1. \A s \in SUBSET (1..n) : s # {} => Max(s) \in 1..n
    BY <1>1, MaxPicks
  <2>2. \A s \in SUBSET (1..n) :
           f[s] = IF s = {} THEN base ELSE ProcessPayment(f[s \ {Max(s)}], txs[Max(s)])
    BY <1>4, <1>7, <2>1 DEF IsFoldLeft
  <2>3. f = [s \in SUBSET (1..n) |-> f[s]]
    BY <1>7 DEF IsFoldLeft
  <2> QED BY <1>1, <2>2, <2>3
<1>9. PICK g : g = Body(g) /\ g[DOMAIN txs] = FoldLeft(ProcessPayment, base, txs)
  BY <1>8 DEF FoldLeft, MapThenFoldSet
<1>10. g[{}] \in V
  BY <1>2, <1>9
<1>11. \A k \in 1..n : g[1..(k - 1)] \in V => g[1..k] \in V
  <2> SUFFICES ASSUME NEW k \in 1..n, g[1..(k - 1)] \in V
               PROVE  g[1..k] \in V
    OBVIOUS
  <2>1. 1..k # {} /\ Max(1..k) = k /\ (1..k) \ {Max(1..k)} = 1..(k - 1)
    BY UpToLast
  <2>2. 1..k \in SUBSET DOMAIN txs
    BY <1>1
  <2>3. g[1..k] = ProcessPayment(g[1..(k - 1)], txs[k])
    BY <1>9, <2>1, <2>2
  <2> QED BY <1>1, <1>3, <2>3
<1>12. g[1..n] \in V
  <2> HIDE DEF Body
  <2> QED BY <1>1, <1>10, <1>11, FoldLeftType
<1>13. Process(txs) \in V
  BY <1>1, <1>5, <1>9, <1>12
<1> QED BY <1>13 DEF V

\* Undoing them does so too, when they have nonces.
LEMMA UndoType ==
    ASSUME LedgerType, PreparedType, NEW known \in SUBSET Signed, NEW txs \in Seq(known)
    PROVE  Undo(txs).nonces \in [Payer -> Nat] /\ Undo(txs).coins \in SUBSET Coin
<1> DEFINE V == [nonces : [Payer -> Nat], coins : SUBSET Coin]
           n == Len(txs)
           base == [nonces |-> mineNonces, coins |-> mineCoins]
           Body(f) == [s \in SUBSET DOMAIN txs |->
                          IF s = {} THEN base ELSE UndoPayment(f[s \ {Max(s)}], txs[Max(s)])]
<1>1. n \in Nat /\ DOMAIN txs = 1..n /\ \A i \in 1..n : txs[i] \in known
  OBVIOUS
<1>2. base \in V
  BY DEF LedgerType
<1>3. \A v \in V, p \in known : UndoPayment(v, p) \in V
  <2> SUFFICES ASSUME NEW v \in V, NEW p \in known
               PROVE  UndoPayment(v, p) \in V
    OBVIOUS
  <2>1. /\ p \in PayId /\ p \in Coin /\ PayerOf[p] \in Payer
        /\ payments[p].spends \in Coin /\ payments[p].nonce \in Nat /\ payments[p].nonce > 0
    BY PaymentFacts DEF Signed
  <2>2. UndoneNonce(v.nonces, p) \in [Payer -> Nat]
    BY <2>1 DEF UndoneNonce
  <2>3. (v.coins \cup ({payments[p].spends} \ SnapshotCoin)) \ {p} \in SUBSET Coin
    BY <2>1
  <2> QED BY <2>2, <2>3 DEF UndoPayment
<1>4. PICK step : step = [i \in 1..n |-> [v \in V |-> UndoPayment(v, txs[i])]]
  OBVIOUS
<1>5. Undo(txs) = FoldLeft(UndoPayment, base, txs)
  BY DEF Undo
<1> HIDE DEF V, n, base
<1>6. step \in [1..n -> [V -> V]]
  BY <1>1, <1>3, <1>4
<1>7. PICK f : IsFoldLeft(f, n, V, base, step)
  BY <1>1, <1>2, <1>6, FoldLeftExists
<1>8. f = Body(f)
  <2>1. \A s \in SUBSET (1..n) : s # {} => Max(s) \in 1..n
    BY <1>1, MaxPicks
  <2>2. \A s \in SUBSET (1..n) :
           f[s] = IF s = {} THEN base ELSE UndoPayment(f[s \ {Max(s)}], txs[Max(s)])
    BY <1>4, <1>7, <2>1 DEF IsFoldLeft
  <2>3. f = [s \in SUBSET (1..n) |-> f[s]]
    BY <1>7 DEF IsFoldLeft
  <2> QED BY <1>1, <2>2, <2>3
<1>9. PICK g : g = Body(g) /\ g[DOMAIN txs] = FoldLeft(UndoPayment, base, txs)
  BY <1>8 DEF FoldLeft, MapThenFoldSet
<1>10. g[{}] \in V
  BY <1>2, <1>9
<1>11. \A k \in 1..n : g[1..(k - 1)] \in V => g[1..k] \in V
  <2> SUFFICES ASSUME NEW k \in 1..n, g[1..(k - 1)] \in V
               PROVE  g[1..k] \in V
    OBVIOUS
  <2>1. 1..k # {} /\ Max(1..k) = k /\ (1..k) \ {Max(1..k)} = 1..(k - 1)
    BY UpToLast
  <2>2. 1..k \in SUBSET DOMAIN txs
    BY <1>1
  <2>3. g[1..k] = UndoPayment(g[1..(k - 1)], txs[k])
    BY <1>9, <2>1, <2>2
  <2> QED BY <1>1, <1>3, <2>3
<1>12. g[1..n] \in V
  <2> HIDE DEF Body
  <2> QED BY <1>1, <1>10, <1>11, FoldLeftType
<1>13. Undo(txs) \in V
  BY <1>1, <1>5, <1>9, <1>12
<1> QED BY <1>13 DEF V

-----------------------------------------------------------------------------
(* The limit on submissions. *)

\* Submissions are kept in the order of their times, none of which is to come.
LimitInv ==
    /\ clock \in Nat
    /\ submissions \in Seq(Nat)
    /\ \A i \in DOMAIN submissions : submissions[i] <= clock
    /\ \A i, j \in DOMAIN submissions : i <= j => submissions[i] <= submissions[j]
    /\ LimitHolds

\* As many submissions as the limit, within a minute, leave room for none.
LEMMA LastMinute ==
    ASSUME LimitInv, NEW i \in DOMAIN submissions,
           i + MaxBlockSubmissionsPerMinute = Len(submissions) + 1,
           clock - submissions[i] <= Minute
    PROVE  Limited
<1> DEFINE n == Len(submissions)
           max == MaxBlockSubmissionsPerMinute
<1>1. /\ n \in Nat /\ max \in Nat /\ i \in 1..n /\ Minute \in Nat /\ clock \in Nat
      /\ DOMAIN submissions = 1..n /\ \A j \in 1..n : submissions[j] \in Nat
  BY MiningAssumption DEF LimitInv
<1>2. i..n \subseteq RecentSubmissions
  BY <1>1 DEF RecentSubmissions, LimitInv
<1>3. RecentSubmissions \subseteq 1..n
  BY <1>1 DEF RecentSubmissions
<1> HIDE DEF n, max
<1>4. IsFiniteSet(RecentSubmissions)
  <2>1. IsFiniteSet(1..n)
    BY <1>1, FS_Interval
  <2> QED BY <1>3, <2>1, FS_Subset
<1>5. Cardinality(i..n) = max
  <2>1. Cardinality(i..n) = n - i + 1
    BY <1>1, FS_Interval
  <2>2. i + max = n + 1
    BY DEF n, max
  <2>3. n \in Int /\ i \in Int /\ max \in Int
    BY <1>1
  <2>4. \A a, b, c \in Int : a + b = c + 1 => c - a + 1 = b
    OBVIOUS
  <2> QED BY <2>1, <2>2, <2>3, <2>4
<1>6. Cardinality(i..n) <= Cardinality(RecentSubmissions) /\ Cardinality(RecentSubmissions) \in Nat
  BY <1>2, <1>4, FS_Subset, FS_CardinalityType
<1> QED BY <1>1, <1>5, <1>6 DEF Limited, max

LEMMA LetThrough ==
    ASSUME LimitInv, ~Limited, submissions' = Append(submissions, clock), UNCHANGED clock
    PROVE  LimitInv'
<1> DEFINE n == Len(submissions)
           max == MaxBlockSubmissionsPerMinute
           new == Append(submissions, clock)
<1>1. /\ n \in Nat /\ max \in Nat /\ Minute \in Nat /\ clock \in Nat
      /\ DOMAIN submissions = 1..n /\ \A j \in 1..n : submissions[j] \in Nat
  BY MiningAssumption DEF LimitInv
<1>2. /\ new \in Seq(Nat) /\ DOMAIN new = 1..(n + 1) /\ new[n + 1] = clock
      /\ \A i \in 1..n : new[i] = submissions[i]
  BY <1>1 DEF LimitInv
<1>3. \A i \in 1..n : submissions[i] <= clock
  BY <1>1 DEF LimitInv
<1>4. \A i, j \in 1..n : i <= j => submissions[i] <= submissions[j]
  BY <1>1 DEF LimitInv
<1>5. \A i \in 1..n : i + max \in 1..n => submissions[i + max] - submissions[i] > Minute
  BY <1>1 DEF LimitInv, LimitHolds
<1>6. \A i \in 1..n : i + max = n + 1 => clock - submissions[i] > Minute
  BY <1>1, LastMinute
<1>7. max # 0
  <2> SUFFICES ASSUME max = 0
               PROVE  FALSE
    OBVIOUS
  <2>1. RecentSubmissions \subseteq 1..n
    BY <1>1 DEF RecentSubmissions
  <2>2. IsFiniteSet(1..n)
    BY <1>1, FS_Interval
  <2>3. Cardinality(RecentSubmissions) \in Nat
    BY <2>1, <2>2, FS_Subset, FS_CardinalityType
  <2> QED BY <2>3 DEF Limited
<1> HIDE DEF n, max, new
<1>8. \A i \in 1..(n + 1) : new[i] <= clock
  BY <1>1, <1>2, <1>3
<1>9. \A i, j \in 1..(n + 1) : i <= j => new[i] <= new[j]
  BY <1>1, <1>2, <1>3, <1>4
<1>10. \A i \in 1..(n + 1) : i + max \in 1..(n + 1) => new[i + max] - new[i] > Minute
  <2> SUFFICES ASSUME NEW i \in 1..(n + 1), i + max \in 1..(n + 1)
               PROVE  new[i + max] - new[i] > Minute
    OBVIOUS
  <2>1. i \in 1..n /\ (i + max \in 1..n \/ i + max = n + 1)
    BY <1>1, <1>7
  <2> QED BY <1>2, <1>5, <1>6, <2>1
<1>11. submissions' = new /\ DOMAIN submissions' = 1..(n + 1) /\ clock' = clock
  BY <1>2 DEF new
<1>12. LimitHolds'
  BY <1>10, <1>11 DEF LimitHolds, max
<1> QED BY <1>1, <1>2, <1>8, <1>9, <1>11, <1>12 DEF LimitInv

LEMMA LimitInvHolds == MiningSpec => []LimitInv
<1>1. MiningInit => LimitInv
  BY DEF MiningInit, LimitInv, LimitHolds
<1>2. LimitInv /\ [MiningNext]_miningVars => LimitInv'
  <2> SUFFICES ASSUME LimitInv, [MiningNext]_miningVars
               PROVE  LimitInv'
    OBVIOUS
  <2>1. ASSUME UNCHANGED <<clock, submissions>>
        PROVE  LimitInv'
    BY <2>1 DEF LimitInv, LimitHolds
  <2>2. CASE UNCHANGED miningVars
    BY <2>1, <2>2 DEF miningVars
  <2>3. CASE \E p \in PayId : \/ \E coin \in Coin : SelectCoin(p, coin)
                              \/ ReadNonce(p) \/ handleSendTransaction(p) \/ AddTransactionToMempool(p)
    BY <2>1, <2>3 DEF SelectCoin, ReadNonce, handleSendTransaction, AddTransactionToMempool
  <2>4. CASE \E txs \in SeqOf(PayId, 2), time \in OthersTimes : OthersExtend(txs, time)
    BY <2>1, <2>4 DEF OthersExtend
  <2>5. CASE \E time, time2 \in OthersTimes : OthersReorganize(time, time2)
    BY <2>1, <2>5 DEF OthersReorganize
  <2>6. CASE \E w \in Worker :
                \/ ReadTip(w) \/ ReadHistory(w) \/ ReadPool(w) \/ SelectPayment(w)
                \/ FinishTemplate(w) \/ ReceiveTemplate(w) \/ LoseTemplate(w)
                \/ CheckHeight(w) \/ CheckBest(w) \/ CheckMiningInfo(w)
                \/ FindBlock(w) \/ ExpireTemplate(w) \/ TryAgain(w) \/ Answered(w)
    BY <2>1, <2>6
       DEF ReadTip, ReadHistory, ReadPool, SelectPayment, FinishTemplate, ReceiveTemplate,
           LoseTemplate, CheckHeight, CheckBest, CheckMiningInfo, FindBlock, ExpireTemplate,
           TryAgain, Answered, Pass, Rest, OnlyJobs
  <2>7. CASE \E w \in Worker : Submit(w)
    <3>1. UNCHANGED clock /\ submissions' = IF Limited THEN submissions ELSE Append(submissions, clock)
      BY <2>7 DEF Submit
    <3> QED BY <2>1, <3>1, LetThrough
  <2>8. CASE \E delay \in Delays : Tick(delay)
    <3>1. PICK delay \in Nat : clock' = clock + delay /\ submissions' = submissions
      BY <2>8, MiningAssumption DEF Tick
    <3>2. clock' \in Nat /\ clock' >= clock
      BY <3>1 DEF LimitInv
    <3>3. \A i \in DOMAIN submissions : submissions[i] \in Nat
      BY DEF LimitInv
    <3> QED BY <3>1, <3>2, <3>3 DEF LimitInv, LimitHolds
  <2> QED BY <2>2, <2>3, <2>4, <2>5, <2>6, <2>7, <2>8 DEF MiningNext
<1> QED BY <1>1, <1>2, PTL DEF MiningSpec

\* In any minute no more submissions of a miner are let through than the limit, for any
\* limit, any clock and any number of workers (checkBlockSubmissionRateLimit).
THEOREM LimitHoldsAlways == MiningSpec => []LimitHolds
<1>1. LimitInv => LimitHolds
  BY DEF LimitInv
<1> QED BY <1>1, LimitInvHolds, PTL

-----------------------------------------------------------------------------
(* What the node and the workers know of payments. *)

JobPays(job, known) ==
    /\ job.step = "select" => /\ {"pending", "txs"} \subseteq DOMAIN job
                              /\ job.pending \in Seq(known) /\ job.txs \in Seq(known)
    /\ job.step = "served" => "txs" \in DOMAIN job.template /\ job.template.txs \in Seq(known)
    /\ HasBlock(job) => "txs" \in DOMAIN job.block /\ job.block.txs \in Seq(known)

ChainPays == \A i \in DOMAIN mineChain : mineChain[i].txs \in Seq(Signed)

JobsPay == \A w \in Worker : JobPays(jobs[w], DOMAIN payments)

PoolPays == minePool \subseteq DOMAIN payments /\ IsFiniteSet(minePool)

PaymentsInv == LedgerType /\ PreparedType /\ PoolPays /\ ChainPays /\ JobsPay

LEMMA HeadAndTail ==
    ASSUME NEW S, NEW s \in Seq(S), s # <<>>
    PROVE  Head(s) \in S /\ Tail(s) \in Seq(S)
  OBVIOUS

LEMMA SeqGrows ==
    ASSUME NEW S, NEW T, S \subseteq T, NEW s \in Seq(S)
    PROVE  s \in Seq(T)
  OBVIOUS

LEMMA JobPaysMore ==
    ASSUME NEW job, NEW known, NEW more, known \subseteq more, JobPays(job, known)
    PROVE  JobPays(job, more)
  BY SeqGrows DEF JobPays

\* Steps that change one job at most.
LEMMA JobPay ==
    ASSUME MinedOnce, PaymentsInv,
           UNCHANGED <<mineChain, mineNonces, mineCoins, minePool, payments>>,
           NEW w \in Worker, NEW job, SetJob(w, job), JobPays(job, DOMAIN payments)
    PROVE  PaymentsInv'
<1>1. \A v \in Worker : jobs'[v] = IF v = w THEN job ELSE jobs[v]
  BY DEF SetJob, MinedOnce, JobsOnce
<1>2. JobsPay'
  BY <1>1 DEF PaymentsInv, JobsPay
<1>3. LedgerType' /\ PreparedType' /\ PoolPays' /\ ChainPays'
  BY DEF PaymentsInv, LedgerType, PreparedType, PoolPays, ChainPays, Signed
<1> QED BY <1>2, <1>3 DEF PaymentsInv

LEMMA SamePay ==
    ASSUME PaymentsInv, UNCHANGED <<mineChain, mineNonces, mineCoins, minePool, payments, jobs>>
    PROVE  PaymentsInv'
  BY DEF PaymentsInv, LedgerType, PreparedType, PoolPays, ChainPays, JobsPay, Signed

LEMMA SetPaymentPays ==
    ASSUME PaymentsInv, NEW p \in PayId, NEW data \in PaymentData, SetPayment(p, data),
           p \in Signed => data.nonce > 0, UNCHANGED <<nodeVars, jobs>>
    PROVE  PaymentsInv'
<1>1. /\ DOMAIN payments' = DOMAIN payments \cup {p}
      /\ \A q \in DOMAIN payments \cup {p} : payments'[q] = IF q = p THEN data ELSE payments[q]
  BY DEF SetPayment
<1>2. PreparedType'
  BY <1>1 DEF PaymentsInv, PreparedType
<1>3. Signed \subseteq Signed'
  BY <1>1 DEF Signed
<1>4. ChainPays'
  BY <1>3, SeqGrows DEF PaymentsInv, ChainPays, nodeVars
<1>5. JobsPay'
  BY <1>1, JobPaysMore DEF PaymentsInv, JobsPay
<1>6. LedgerType' /\ PoolPays'
  BY <1>1 DEF PaymentsInv, LedgerType, PoolPays, nodeVars
<1> QED BY <1>2, <1>4, <1>5, <1>6 DEF PaymentsInv

LEMMA NextNonceType ==
    ASSUME PaymentsInv, NEW p \in PayId
    PROVE  NextNonce(p) \in Nat /\ NextNonce(p) > 0
<1>1. PayerOf[p] \in Payer
  BY DEF Payer
<1>2. mineNonces[PayerOf[p]] \in Nat
  BY <1>1 DEF PaymentsInv, LedgerType
<1> QED BY <1>2 DEF NextNonce

LEMMA PaymentStepPays ==
    ASSUME PaymentsInv, NEW p \in PayId,
           \/ \E coin \in Coin : SelectCoin(p, coin)
           \/ ReadNonce(p) \/ handleSendTransaction(p) \/ AddTransactionToMempool(p)
    PROVE  PaymentsInv'
<1>1. ASSUME NEW coin \in Coin, SelectCoin(p, coin)
      PROVE  PaymentsInv'
  <2>1. PICK data \in PaymentData : SetPayment(p, data)
    BY <1>1 DEF SelectCoin, PaymentData
  <2>2. p \notin Signed /\ UNCHANGED <<nodeVars, jobs>>
    BY <1>1 DEF SelectCoin, Prepared, Signed
  <2> QED BY <2>1, <2>2, SetPaymentPays
<1>2. CASE ReadNonce(p)
  <2>1. payments[p] \in PaymentData
    BY <1>2 DEF ReadNonce, Prepared, PaymentsInv, PreparedType
  <2>2. PICK data : /\ data = [payments[p] EXCEPT !.nonce = NextNonce(p)] /\ SetPayment(p, data)
                    /\ UNCHANGED <<nodeVars, jobs>>
    BY <1>2 DEF ReadNonce
  <2>3. data \in PaymentData /\ data.nonce > 0
    BY <2>1, <2>2, NextNonceType DEF PaymentData
  <2> QED BY <2>2, <2>3, SetPaymentPays
<1>4. CASE handleSendTransaction(p)
  <2>1. payments[p] \in PaymentData /\ payments[p].nonce > 0
    BY <1>4 DEF handleSendTransaction, IsSigned, Prepared, PaymentsInv, PreparedType
  <2>2. PICK data : /\ data = [payments[p] EXCEPT !.checked = TRUE] /\ SetPayment(p, data)
                    /\ UNCHANGED <<nodeVars, jobs>>
    BY <1>4 DEF handleSendTransaction
  <2>3. data \in PaymentData /\ data.nonce > 0
    BY <2>1, <2>2 DEF PaymentData
  <2> QED BY <2>2, <2>3, SetPaymentPays
<1>3. CASE AddTransactionToMempool(p)
  <2>1. /\ p \in DOMAIN payments /\ minePool' = minePool \cup {p}
        /\ UNCHANGED <<mineChain, mineNonces, mineCoins, payments, jobs>>
    BY <1>3 DEF AddTransactionToMempool, Prepared
  <2>2. PoolPays'
    BY <2>1, FS_AddElement DEF PaymentsInv, PoolPays
  <2>3. LedgerType' /\ PreparedType' /\ ChainPays' /\ JobsPay'
    BY <2>1 DEF PaymentsInv, LedgerType, PreparedType, ChainPays, JobsPay, Signed
  <2> QED BY <2>2, <2>3 DEF PaymentsInv
<1> QED BY <1>1, <1>2, <1>3, <1>4

\* What a verdict does to nonces, coins, pool and chain.
LEMMA ApplyPays ==
    ASSUME MinedOnce, PaymentsInv, NEW b, b.txs \in Seq(DOMAIN payments), NEW verdict,
           Apply(b, verdict), UNCHANGED payments,
           verdict = "added" => \A i \in DOMAIN b.txs : HasNextNonce(b.txs[i])
    PROVE  LedgerType' /\ PreparedType' /\ PoolPays' /\ ChainPays'
<1>1. LedgerType' /\ PoolPays'
  <2>1. CASE verdict \in {"added", "spent"}
    <3>1. mineNonces' = Process(b.txs).nonces /\ mineCoins' = Process(b.txs).coins
          /\ minePool' \subseteq minePool
      BY <2>1 DEF Apply
    <3>2. Process(b.txs).nonces \in [Payer -> Nat] /\ Process(b.txs).coins \in SUBSET Coin
      BY ProcessType DEF PaymentsInv
    <3>3. LedgerType'
      BY <3>1, <3>2 DEF LedgerType
    <3> QED BY <3>1, <3>3, FS_Subset DEF PaymentsInv, PoolPays
  <2>2. CASE verdict \notin {"added", "spent"}
    BY <2>2 DEF Apply, PaymentsInv, LedgerType, PoolPays
  <2> QED BY <2>1, <2>2
<1>2. PreparedType' /\ Signed' = Signed
  BY DEF PaymentsInv, PreparedType, Signed
<1>3. ChainPays'
  <2>1. CASE verdict = "added"
    <3>1. b.txs \in Seq(Signed)
      <4>1. \A i \in DOMAIN b.txs : b.txs[i] \in DOMAIN payments /\ b.txs[i] \in PayId
        BY DEF PaymentsInv, PreparedType
      <4>2. \A i \in DOMAIN b.txs : b.txs[i] \in Signed
        BY <2>1, <4>1, NextNonceType DEF HasNextNonce, Signed
      <4> QED BY <4>2
    <3>2. mineChain' = Append(mineChain, b) /\ mineChain \in Seq(mineIndex)
      BY <2>1, ApplyFacts DEF MinedOnce, ChainOnce
    <3>3. \A i \in DOMAIN mineChain' :
             mineChain'[i] = b \/ (i \in DOMAIN mineChain /\ mineChain'[i] = mineChain[i])
      BY <3>2
    <3> QED BY <1>2, <3>1, <3>3 DEF PaymentsInv, ChainPays
  <2>2. CASE verdict # "added"
    BY <1>2, <2>2, ApplyFacts DEF PaymentsInv, ChainPays
  <2> QED BY <2>1, <2>2
<1> QED BY <1>1, <1>2, <1>3

LEMMA OthersExtendPays ==
    ASSUME MinedOnce, PaymentsInv, NEW txs \in SeqOf(PayId, 2), NEW time, OthersExtend(txs, time)
    PROVE  PaymentsInv'
<1>1. PICK b : /\ b.txs = txs /\ Verdict(b) = "added" /\ Apply(b, "added")
               /\ UNCHANGED <<payments, jobs>>
  BY OthersFields DEF OthersExtend
<1>2. b.txs \in Seq(DOMAIN payments)
  <2>1. \A i \in DOMAIN txs : txs[i] \in DOMAIN payments
    BY DEF OthersExtend, Prepared
  <2>2. PICK n \in 0..2 : txs \in [1..n -> PayId]
    BY DEF SeqOf
  <2>3. txs \in Seq(PayId)
    BY <2>2
  <2> QED BY <1>1, <2>1, <2>3
<1>3. \A i \in DOMAIN b.txs : HasNextNonce(b.txs[i])
  BY <1>1 DEF Verdict, IsValidBlock
<1>4. LedgerType' /\ PreparedType' /\ PoolPays' /\ ChainPays'
  BY <1>1, <1>2, <1>3, ApplyPays
<1>5. JobsPay'
  BY <1>1 DEF PaymentsInv, JobsPay
<1> QED BY <1>4, <1>5 DEF PaymentsInv

LEMMA OthersReorganizePays ==
    ASSUME MinedOnce, PaymentsInv, NEW time, NEW time2, OthersReorganize(time, time2)
    PROVE  PaymentsInv'
<1>1. PICK b, c : /\ b.txs = <<>> /\ c.txs = <<>>
                  /\ mineChain' = Front(mineChain) \o <<b, c>>
                  /\ mineNonces' = Undo(Tip.txs).nonces /\ mineCoins' = Undo(Tip.txs).coins
                  /\ UNCHANGED <<minePool, payments, jobs>>
  <2>1. /\ mineNonces' = Undo(Tip.txs).nonces /\ mineCoins' = Undo(Tip.txs).coins
        /\ UNCHANGED <<minePool, payments, jobs>>
    BY DEF OthersReorganize
  <2>2. PICK b, c : IsPair(b, c, time, time2)
    BY OthersPair
  <2> QED BY <2>1, <2>2 DEF IsPair
<1>2. mineChain \in Seq(mineIndex) /\ Len(mineChain) \in Nat \ {0} /\ DOMAIN mineChain = 1..Len(mineChain)
  BY DEF MinedOnce, ChainOnce
<1>3. Tip.txs \in Seq(Signed)
  BY <1>2 DEF PaymentsInv, ChainPays, Tip, Last
<1>4. LedgerType'
  <2>1. Undo(Tip.txs).nonces \in [Payer -> Nat] /\ Undo(Tip.txs).coins \in SUBSET Coin
    BY <1>3, UndoType DEF PaymentsInv
  <2> QED BY <1>1, <2>1 DEF LedgerType
<1>5. ChainPays'
  <2> DEFINE front == Front(mineChain)
             All == mineIndex \cup {b, c}
  <2>1. /\ front \in Seq(mineIndex) /\ Len(front) = Len(mineChain) - 1
        /\ \A i \in 1..Len(front) : front[i] = mineChain[i]
    BY <1>2 DEF Front
  <2>2. front \in Seq(All) /\ b \in All /\ c \in All
    <3> HIDE DEF front
    <3>1. mineIndex \subseteq All
      OBVIOUS
    <3> QED BY <2>1, <3>1, SeqGrows
  <2> HIDE DEF front, All
  <2>3. /\ mineChain' \in Seq(All) /\ Len(mineChain') = Len(front) + 2
        /\ \A i \in 1..Len(front) : mineChain'[i] = front[i]
        /\ mineChain'[Len(front) + 1] = b /\ mineChain'[Len(front) + 2] = c
    BY <1>1, <2>2, ConcatPair DEF front
  <2>4. \A i \in 1..Len(front) : i \in DOMAIN mineChain
    BY <1>2, <2>1
  <2>5. \A i \in DOMAIN mineChain' :
           \/ i \in 1..Len(front)
           \/ i = Len(front) + 1 \/ i = Len(front) + 2
    BY <1>2, <2>1, <2>3
  <2>6. <<>> \in Seq(Signed)
    OBVIOUS
  <2>7. \A i \in DOMAIN mineChain' : mineChain'[i].txs \in Seq(Signed)
    BY <1>1, <2>1, <2>3, <2>4, <2>5, <2>6 DEF PaymentsInv, ChainPays
  <2> QED BY <1>1, <2>7 DEF ChainPays, Signed
<1>6. PreparedType' /\ PoolPays' /\ JobsPay'
  BY <1>1 DEF PaymentsInv, PreparedType, PoolPays, JobsPay
<1> QED BY <1>4, <1>5, <1>6 DEF PaymentsInv

LEMMA RestPays ==
    ASSUME MinedOnce, PaymentsInv, NEW w \in Worker, SetJob(w, [step |-> "rest"]),
           UNCHANGED <<mineChain, mineNonces, mineCoins, minePool, payments>>
    PROVE  PaymentsInv'
<1>1. PICK job : job = [step |-> "rest"]
  OBVIOUS
<1>2. JobPays(job, DOMAIN payments)
  BY <1>1 DEF JobPays, HasBlock, Found
<1>3. SetJob(w, job)
  BY <1>1
<1> QED BY <1>2, <1>3, JobPay

\* The template takes its payments from the pool.
LEMMA TemplatePays ==
    ASSUME MinedOnce, PaymentsInv, NEW w \in Worker,
           \/ ReadTip(w) \/ ReadHistory(w) \/ ReadPool(w) \/ SelectPayment(w) \/ FinishTemplate(w)
    PROVE  PaymentsInv'
<1>1. UNCHANGED <<mineChain, mineNonces, mineCoins, minePool, payments>>
  BY DEF ReadTip, ReadHistory, ReadPool, SelectPayment, FinishTemplate, OnlyJobs, nodeVars
<1>2. JobPays(jobs[w], DOMAIN payments) /\ "step" \in DOMAIN jobs[w]
  BY DEF PaymentsInv, JobsPay, MinedOnce, JobsOnce, GoodJob
<1>3. PICK job : SetJob(w, job) /\ JobPays(job, DOMAIN payments)
  <2>1. CASE ReadTip(w)
    <3>1. PICK job : job.step = "history" /\ SetJob(w, job)
      BY <2>1 DEF ReadTip
    <3> QED BY <3>1 DEF JobPays, HasBlock, Found
  <2>2. CASE ReadHistory(w)
    <3>1. PICK job : job.step = "pool" /\ SetJob(w, job)
      BY <2>2 DEF ReadHistory
    <3> QED BY <3>1 DEF JobPays, HasBlock, Found
  <2>3. CASE ReadPool(w)
    <3>1. PICK pending, job :
             /\ pending \in ByFee(minePool) /\ {"pending", "txs"} \subseteq DOMAIN job
             /\ job.step = "select" /\ job.pending = pending /\ job.txs = <<>> /\ SetJob(w, job)
      BY <2>3 DEF ReadPool
    <3>2. pending \in [1..Cardinality(minePool) -> minePool]
      BY <3>1 DEF ByFee, SetToSeqs
    <3>3. Cardinality(minePool) \in Nat
      BY FS_CardinalityType DEF PaymentsInv, PoolPays
    <3>4. pending \in Seq(minePool)
      BY <3>2, <3>3
    <3>5. pending \in Seq(DOMAIN payments) /\ <<>> \in Seq(DOMAIN payments)
      BY <3>4, SeqGrows DEF PaymentsInv, PoolPays
    <3> QED BY <3>1, <3>5 DEF JobPays, HasBlock, Found
  <2>4. CASE SelectPayment(w)
    <3> DEFINE old == jobs[w]
               p == Head(old.pending)
    <3>1. /\ old.step = "select" /\ old.pending # <<>>
          /\ old.pending \in Seq(DOMAIN payments) /\ old.txs \in Seq(DOMAIN payments)
          /\ {"step", "pending", "txs"} \subseteq DOMAIN old
      BY <1>2, <2>4 DEF SelectPayment, At, JobPays
    <3>2. /\ p \in DOMAIN payments /\ Tail(old.pending) \in Seq(DOMAIN payments)
          /\ Append(old.txs, p) \in Seq(DOMAIN payments) /\ <<>> \in Seq(DOMAIN payments)
      <4> HIDE DEF old
      <4>1. p \in DOMAIN payments /\ Tail(old.pending) \in Seq(DOMAIN payments)
        BY <3>1, HeadAndTail
      <4> HIDE DEF p
      <4> QED BY <3>1, <4>1
    <3>3. PICK job :
             /\ SetJob(w, job)
             /\ \/ job = [old EXCEPT !.pending = Tail(old.pending)]
                \/ job = [old EXCEPT !.pending = <<>>]
                \/ job = [old EXCEPT !.pending = Tail(old.pending), !.txs = Append(old.txs, p)]
      BY <2>4 DEF SelectPayment
    <3> HIDE DEF old, p
    <3>4. job.step = old.step /\ {"pending", "txs"} \subseteq DOMAIN job
      BY <3>1, <3>3
    <3>5. job.pending \in Seq(DOMAIN payments) /\ job.txs \in Seq(DOMAIN payments)
      BY <3>1, <3>2, <3>3
    <3> QED BY <3>1, <3>3, <3>4, <3>5 DEF JobPays, HasBlock, Found
  <2>5. CASE FinishTemplate(w)
    <3>1. PICK b : /\ {"txs", "number", "paid"} \subseteq DOMAIN b /\ b.txs = jobs[w].txs
                   /\ SetJob(w, [step |-> "served", template |-> ServedTemplate(b)])
      BY <2>5 DEF FinishTemplate
    <3>2. PICK job : /\ job.step = "served" /\ job.template = ServedTemplate(b) /\ SetJob(w, job)
      BY <3>1
    <3>3. "txs" \in DOMAIN job.template /\ job.template.txs = jobs[w].txs
      BY <3>1, <3>2 DEF ServedTemplate
    <3>4. jobs[w].txs \in Seq(DOMAIN payments)
      BY <1>2, <2>5 DEF FinishTemplate, At, JobPays
    <3> QED BY <3>2, <3>3, <3>4 DEF JobPays, HasBlock, Found
  <2> QED BY <2>1, <2>2, <2>3, <2>4, <2>5
<1> QED BY <1>1, <1>3, JobPay

\* The miner keeps the payments of its template.
LEMMA MinerPays ==
    ASSUME MinedOnce, PaymentsInv, NEW w \in Worker,
           \/ ReceiveTemplate(w) \/ LoseTemplate(w) \/ CheckHeight(w) \/ CheckBest(w)
           \/ CheckMiningInfo(w) \/ FindBlock(w) \/ ExpireTemplate(w) \/ TryAgain(w) \/ Answered(w)
    PROVE  PaymentsInv'
<1>1. UNCHANGED <<mineChain, mineNonces, mineCoins, minePool, payments>>
  BY DEF ReceiveTemplate, LoseTemplate, CheckHeight, CheckBest, CheckMiningInfo, FindBlock,
         ExpireTemplate, TryAgain, Answered, Pass, Rest, OnlyJobs, nodeVars
<1>2. JobPays(jobs[w], DOMAIN payments) /\ "step" \in DOMAIN jobs[w]
      /\ (HasBlock(jobs[w]) => "block" \in DOMAIN jobs[w])
  BY DEF PaymentsInv, JobsPay, MinedOnce, JobsOnce, GoodJob
<1> SUFFICES ASSUME ~SetJob(w, [step |-> "rest"])
             PROVE  PaymentsInv'
  BY <1>1, RestPays
<1>3. ~Rest(w)
  BY DEF Rest
<1>4. PICK job : SetJob(w, job) /\ JobPays(job, DOMAIN payments)
  <2>1. CASE ReceiveTemplate(w)
    <3>1. PICK t, job : /\ t = jobs[w].template /\ job.step = "height"
                        /\ job.block = BlockFromTemplate(t) /\ SetJob(w, job)
      BY <2>1 DEF ReceiveTemplate
    <3>2. "txs" \in DOMAIN t /\ t.txs \in Seq(DOMAIN payments)
      BY <1>2, <2>1, <3>1 DEF ReceiveTemplate, At, JobPays
    <3>3. "txs" \in DOMAIN BlockFromTemplate(t) /\ BlockFromTemplate(t).txs = t.txs
      BY <3>2 DEF BlockFromTemplate
    <3> QED BY <3>1, <3>2, <3>3 DEF JobPays, HasBlock, Found
  <2>2. ASSUME NEW next \in {"best", "info"}, NEW stale, HasBlock(jobs[w]), Pass(w, next, stale)
        PROVE  \E job : SetJob(w, job) /\ JobPays(job, DOMAIN payments)
    <3> DEFINE old == jobs[w]
               new == [old EXCEPT !.step = next]
    <3>1. SetJob(w, new)
      BY <1>3, <2>2 DEF Pass
    <3>2. /\ "step" \in DOMAIN old /\ "block" \in DOMAIN old
          /\ "txs" \in DOMAIN old.block /\ old.block.txs \in Seq(DOMAIN payments)
      BY <1>2, <2>2 DEF JobPays
    <3> HIDE DEF old
    <3>3. new.step = next /\ new.block = old.block
      BY <3>2
    <3> HIDE DEF new
    <3>4. JobPays(new, DOMAIN payments)
      BY <3>2, <3>3 DEF JobPays
    <3> QED BY <3>1, <3>4
  <2>3. CASE CheckHeight(w) \/ CheckBest(w)
    <3>1. HasBlock(jobs[w])
      BY <2>3 DEF CheckHeight, CheckBest, At, HasBlock
    <3> QED BY <2>2, <2>3, <3>1 DEF CheckHeight, CheckBest
  <2>4. ASSUME NEW job, SetJob(w, job), HasBlock(jobs[w]), job.block = jobs[w].block,
               job.step \in {"search", "submit"}
        PROVE  \E new : SetJob(w, new) /\ JobPays(new, DOMAIN payments)
    BY <1>2, <2>4 DEF JobPays
  <2>5. CASE CheckMiningInfo(w)
    <3>1. PICK job : SetJob(w, job) /\ job.block = jobs[w].block /\ job.step = "search"
      BY <1>3, <2>5 DEF CheckMiningInfo
    <3>2. HasBlock(jobs[w])
      BY <2>5 DEF CheckMiningInfo, At, HasBlock
    <3> QED BY <2>4, <3>1, <3>2
  <2>6. CASE FindBlock(w)
    <3> DEFINE found == [step |-> "submit", tries |-> MaxTries,
                         block |-> [jobs[w].block EXCEPT !.id = <<"miner", left.found>>]]
    <3>1. PICK b, id, job : /\ b = jobs[w].block /\ SetJob(w, job) /\ job.step = "submit"
                            /\ job.block = [b EXCEPT !.id = id]
      <4>1. SetJob(w, found)
        BY <2>6 DEF FindBlock
      <4>2. /\ found.step = "submit"
            /\ found.block = [jobs[w].block EXCEPT !.id = <<"miner", left.found>>]
        OBVIOUS
      <4> HIDE DEF found
      <4> QED BY <4>1, <4>2
    <3>2. "txs" \in DOMAIN b /\ b.txs \in Seq(DOMAIN payments)
      BY <1>2, <2>6, <3>1 DEF FindBlock, At, HasBlock, JobPays
    <3>3. "txs" \in DOMAIN job.block /\ job.block.txs = b.txs
      BY <3>1, <3>2
    <3> QED BY <3>1, <3>2, <3>3 DEF JobPays
  <2>7. CASE TryAgain(w)
    <3>1. HasBlock(jobs[w])
      BY <2>7 DEF TryAgain, At, HasBlock, Found
    <3>2. PICK job : SetJob(w, job) /\ job.block = jobs[w].block /\ job.step = "submit"
      BY <2>7 DEF TryAgain
    <3> QED BY <2>4, <3>1, <3>2
  <2> QED BY <1>3, <2>1, <2>3, <2>5, <2>6, <2>7 DEF LoseTemplate, ExpireTemplate, Answered
<1> QED BY <1>1, <1>4, JobPay

LEMMA SubmitPays ==
    ASSUME MinedOnce, PaymentsInv, NEW w \in Worker, Submit(w)
    PROVE  PaymentsInv'
<1>1. PICK b, verdict, job :
         /\ b = jobs[w].block /\ verdict = handleRequest(b) /\ job.block = b
         /\ job.step = "answer" /\ SetJob(w, job) /\ Apply(b, verdict) /\ UNCHANGED payments
  <2>1. Faithful(jobs[w].block)
    BY DEF Submit, At, Found, HasBlock, MinedOnce, JobsOnce, GoodJob
  <2>2. parseBlockData(SentBlock(jobs[w].block)) = jobs[w].block
    BY <2>1, ParsedIsFaithful
  <2> QED BY <2>2 DEF Submit
<1>2. "txs" \in DOMAIN b /\ b.txs \in Seq(DOMAIN payments)
  BY <1>1 DEF Submit, At, Found, HasBlock, PaymentsInv, JobsPay, JobPays
<1>3. verdict = "added" => \A i \in DOMAIN b.txs : HasNextNonce(b.txs[i])
  BY <1>1 DEF handleRequest, Verdict, IsValidBlock
<1>4. LedgerType' /\ PreparedType' /\ PoolPays' /\ ChainPays'
  BY <1>1, <1>2, <1>3, ApplyPays
<1>5. JobPays(job, DOMAIN payments)
  BY <1>1, <1>2 DEF JobPays
<1>6. \A v \in Worker : jobs'[v] = IF v = w THEN job ELSE jobs[v]
  BY <1>1 DEF SetJob, MinedOnce, JobsOnce
<1>7. JobsPay'
  BY <1>1, <1>5, <1>6 DEF PaymentsInv, JobsPay
<1> QED BY <1>4, <1>7 DEF PaymentsInv

LEMMA InitPays ==
    ASSUME MiningInit
    PROVE  PaymentsInv
<1>1. LedgerType
  BY DEF MiningInit, LedgerType, Coin
<1>2. PreparedType /\ PoolPays
  BY FS_EmptySet DEF MiningInit, PreparedType, PoolPays
<1>3. ChainPays
  <2>1. \A i \in DOMAIN mineChain : mineChain[i].txs = <<>>
    BY DEF MiningInit, GenesisBlock
  <2>2. <<>> \in Seq(Signed)
    OBVIOUS
  <2> QED BY <2>1, <2>2 DEF ChainPays
<1>4. JobsPay
  BY DEF MiningInit, JobsPay, JobPays, HasBlock, Found
<1> QED BY <1>1, <1>2, <1>3, <1>4 DEF PaymentsInv

LEMMA IndexOnlyGrows ==
    ASSUME [MiningNext]_miningVars
    PROVE  mineIndex \subseteq mineIndex'
<1>1. ASSUME NEW b, NEW verdict, Apply(b, verdict)
      PROVE  mineIndex \subseteq mineIndex'
  BY <1>1, ApplyFacts
<1>2. CASE UNCHANGED miningVars
  BY <1>2 DEF miningVars, nodeVars
<1>3. CASE \E p \in PayId : \/ \E coin \in Coin : SelectCoin(p, coin)
                            \/ ReadNonce(p) \/ handleSendTransaction(p) \/ AddTransactionToMempool(p)
  BY <1>3 DEF SelectCoin, ReadNonce, handleSendTransaction, AddTransactionToMempool, nodeVars
<1>4. CASE \E txs \in SeqOf(PayId, 2), time \in OthersTimes : OthersExtend(txs, time)
  BY <1>1, <1>4 DEF OthersExtend
<1>5. CASE \E time, time2 \in OthersTimes : OthersReorganize(time, time2)
  BY <1>5 DEF OthersReorganize
<1>6. CASE \E w \in Worker :
              \/ ReadTip(w) \/ ReadHistory(w) \/ ReadPool(w) \/ SelectPayment(w)
              \/ FinishTemplate(w) \/ ReceiveTemplate(w) \/ LoseTemplate(w)
              \/ CheckHeight(w) \/ CheckBest(w) \/ CheckMiningInfo(w)
              \/ FindBlock(w) \/ ExpireTemplate(w) \/ TryAgain(w) \/ Answered(w)
  BY <1>6
     DEF ReadTip, ReadHistory, ReadPool, SelectPayment, FinishTemplate, ReceiveTemplate,
         LoseTemplate, CheckHeight, CheckBest, CheckMiningInfo, FindBlock, ExpireTemplate,
         TryAgain, Answered, Pass, Rest, OnlyJobs, nodeVars
<1>7. CASE \E w \in Worker : Submit(w)
  BY <1>1, <1>7 DEF Submit
<1>8. CASE \E delay \in Delays : Tick(delay)
  BY <1>8 DEF Tick, nodeVars
<1> QED BY <1>2, <1>3, <1>4, <1>5, <1>6, <1>7, <1>8 DEF MiningNext

LEMMA GenesisStays == MiningSpec => [](GenesisBlock \in mineIndex)
<1>1. MiningInit => GenesisBlock \in mineIndex
  BY DEF MiningInit
<1>2. GenesisBlock \in mineIndex /\ [MiningNext]_miningVars => (GenesisBlock \in mineIndex)'
  <2> SUFFICES ASSUME GenesisBlock \in mineIndex, [MiningNext]_miningVars
               PROVE  GenesisBlock \in mineIndex'
    BY DEF GenesisBlock
  <2> QED BY IndexOnlyGrows
<1> QED BY <1>1, <1>2, PTL DEF MiningSpec

\* A payment in the pool, in a template or in a block is one that was prepared, and one on the
\* chain has its nonce: what nonces and coins need to keep their types when blocks come and
\* are undone.
THEOREM PaymentsInvHolds == MiningSpec => []PaymentsInv
<1>1. MiningInit => PaymentsInv
  BY InitPays
<1>2. MinedOnce /\ PaymentsInv /\ [MiningNext]_miningVars => PaymentsInv'
  <2> SUFFICES ASSUME MinedOnce, PaymentsInv, [MiningNext]_miningVars
               PROVE  PaymentsInv'
    OBVIOUS
  <2>1. CASE UNCHANGED miningVars
    BY <2>1, SamePay DEF miningVars, nodeVars
  <2>2. CASE \E p \in PayId : \/ \E coin \in Coin : SelectCoin(p, coin)
                              \/ ReadNonce(p) \/ handleSendTransaction(p) \/ AddTransactionToMempool(p)
    BY <2>2, PaymentStepPays
  <2>3. CASE \E txs \in SeqOf(PayId, 2), time \in OthersTimes : OthersExtend(txs, time)
    BY <2>3, OthersExtendPays
  <2>4. CASE \E time, time2 \in OthersTimes : OthersReorganize(time, time2)
    BY <2>4, OthersReorganizePays
  <2>5. CASE \E w \in Worker :
                \/ ReadTip(w) \/ ReadHistory(w) \/ ReadPool(w) \/ SelectPayment(w)
                \/ FinishTemplate(w)
    BY <2>5, TemplatePays
  <2>6. CASE \E w \in Worker :
                \/ ReceiveTemplate(w) \/ LoseTemplate(w) \/ CheckHeight(w) \/ CheckBest(w)
                \/ CheckMiningInfo(w) \/ FindBlock(w) \/ ExpireTemplate(w) \/ TryAgain(w)
                \/ Answered(w)
    BY <2>6, MinerPays
  <2>7. CASE \E w \in Worker : Submit(w)
    BY <2>7, SubmitPays
  <2>8. CASE \E delay \in Delays : Tick(delay)
    BY <2>8, SamePay DEF Tick, nodeVars
  <2> QED BY <2>1, <2>2, <2>3, <2>4, <2>5, <2>6, <2>7, <2>8 DEF MiningNext
<1> QED BY <1>1, <1>2, MinedOnceHolds, PTL DEF MiningSpec

\* Types, of which the nonces are the hard one: a nonce that is counted down when a block is
\* undone was counted up when it was added (reorganizeChain, blockchain.go:1313).
THEOREM MiningTypeCorrect == MiningSpec => []MiningTypeOK
<1>1. MinedOnce /\ LimitInv /\ PaymentsInv /\ GenesisBlock \in mineIndex => MiningTypeOK
  <2> SUFFICES ASSUME MinedOnce, LimitInv, PaymentsInv, GenesisBlock \in mineIndex
               PROVE  MiningTypeOK
    OBVIOUS
  <2>1. \A p \in DOMAIN payments : payments[p] \in [spends : Coin, nonce : Nat, checked : BOOLEAN]
    BY DEF PaymentsInv, PreparedType, PaymentData
  <2>2. mineNonces \in [Payer -> Nat] /\ mineCoins \subseteq Coin /\ DOMAIN payments \subseteq PayId
    BY DEF PaymentsInv, LedgerType, PreparedType
  <2>3. minePool \subseteq DOMAIN payments
    BY DEF PaymentsInv, PoolPays
  <2> QED BY <2>1, <2>2, <2>3 DEF MiningTypeOK, MinedOnce, ChainOnce, LimitInv
<1> QED BY <1>1, MinedOnceHolds, LimitInvHolds, PaymentsInvHolds, GenesisStays, PTL

-----------------------------------------------------------------------------
(* The reward of a template. *)

Due(b) == GetCurrentReward(b.number) + FeesOf({b.txs[i] : i \in DOMAIN b.txs})

NotPaid(b) == Withheld(GetCurrentReward(b.number), FeesOf({b.txs[i] : i \in DOMAIN b.txs}), 0)

Covered(b) ==
    {"number", "txs", "paid"} \subseteq DOMAIN b /\ b.paid + NotPaid(b) \in (Due(b) - 1)..Due(b)

JobCovered(job) ==
    /\ job.step = "served" => Covered(job.template)
    /\ job.step = "height" => Covered(job.block)

JobsCovered == \A w \in Worker : JobCovered(jobs[w])

LEMMA OtherStep ==
    ASSUME NEW job, job.step \notin {"served", "height"}
    PROVE  JobCovered(job)
  BY DEF JobCovered

\* What a template pays out was computed from its own payments.
LEMMA FinishCovers ==
    ASSUME MinedOnce, PaymentsInv, NetworkFee.treasuryPct = 20, NEW w \in Worker, FinishTemplate(w)
    PROVE  \E job : SetJob(w, job) /\ JobCovered(job)
<1>1. /\ jobs[w].txs \in Seq(DOMAIN payments) /\ DOMAIN payments \subseteq PayId
  BY DEF FinishTemplate, At, PaymentsInv, JobsPay, JobPays, PreparedType
<1>2. PICK txs, number, fees, b :
         /\ txs = jobs[w].txs /\ fees = FeesOfSelected(txs)
         /\ {"number", "txs", "paid"} \subseteq DOMAIN b
         /\ b.number = number /\ b.txs = txs
         /\ b.paid = PaidOut(GetCurrentReward(number), fees, 0)
         /\ SetJob(w, [step |-> "served", template |-> ServedTemplate(b)])
  BY DEF FinishTemplate
<1>3. fees \in Nat
  <2> DEFINE chosen == {txs[i] : i \in DOMAIN txs}
  <2>1. txs \in Seq(PayId)
    BY <1>1, <1>2, SeqGrows
  <2>2. chosen \in SUBSET PayId /\ IsFiniteSet(chosen)
    BY <2>1, FinitelyMany
  <2>3. FeesOf(chosen) \in Nat
    <3> HIDE DEF chosen
    <3> QED BY <2>2, FeesType
  <2> QED BY <1>2, <2>3 DEF FeesOfSelected
<1>4. GetCurrentReward(number) \in Nat
  BY CurrentRewardType
<1>5. PICK due : /\ due = GetCurrentReward(number) + fees
                 /\ b.paid + Withheld(GetCurrentReward(number), fees, 0) \in (due - 1)..due
  <2>1. PICK reward \in Nat : reward = GetCurrentReward(number)
    BY <1>4
  <2>2. b.paid = PaidOut(reward, fees, 0)
    BY <1>2, <2>1
  <2>3. PaidOut(reward, fees, 0) + Withheld(reward, fees, 0) \in (reward + fees - 1)..(reward + fees)
    BY <1>3, PaidOutIsCovered
  <2>4. PICK due \in Nat : due = reward + fees
    BY <1>3
  <2>5. b.paid + Withheld(reward, fees, 0) \in (due - 1)..due
    BY <1>3, <2>2, <2>3, <2>4
  <2> QED BY <2>1, <2>4, <2>5
<1>6. PICK t, job : /\ t = ServedTemplate(b) /\ job.step = "served" /\ job.template = t
                    /\ SetJob(w, job)
  BY <1>2
<1>7. /\ {"number", "txs", "paid"} \subseteq DOMAIN t
      /\ t.number = number /\ t.txs = txs /\ t.paid = b.paid
  BY <1>2, <1>6 DEF ServedTemplate
<1>8. Due(t) = due /\ NotPaid(t) = Withheld(GetCurrentReward(number), fees, 0)
  BY <1>2, <1>5, <1>7 DEF Due, NotPaid, FeesOfSelected
<1>9. Covered(t)
  BY <1>5, <1>7, <1>8 DEF Covered
<1> QED BY <1>6, <1>9 DEF JobCovered

LEMMA ReceiveCovers ==
    ASSUME JobsCovered, NEW w \in Worker, ReceiveTemplate(w)
    PROVE  \E job : SetJob(w, job) /\ JobCovered(job)
<1>1. PICK t, job : /\ t = jobs[w].template /\ job.step = "height"
                    /\ job.block = BlockFromTemplate(t) /\ SetJob(w, job)
  BY DEF ReceiveTemplate
<1>2. Covered(t)
  BY <1>1 DEF ReceiveTemplate, At, JobsCovered, JobCovered
<1>3. PICK b : b = BlockFromTemplate(t)
  OBVIOUS
<1>4. /\ {"number", "txs", "paid"} \subseteq DOMAIN b
      /\ b.number = t.number /\ b.txs = t.txs /\ b.paid = t.paid
  BY <1>2, <1>3 DEF BlockFromTemplate, Covered
<1>5. Covered(b)
  BY <1>2, <1>4 DEF Covered, Due, NotPaid
<1> QED BY <1>1, <1>3, <1>5 DEF JobCovered

LEMMA StepCovers ==
    ASSUME MinedOnce, PaymentsInv, JobsCovered, NetworkFee.treasuryPct = 20, [MiningNext]_miningVars
    PROVE  JobsCovered'
<1>1. ASSUME NEW w \in Worker, NEW job, SetJob(w, job), JobCovered(job)
      PROVE  JobsCovered'
  <2>1. \A v \in Worker : jobs'[v] = IF v = w THEN job ELSE jobs[v]
    BY <1>1 DEF SetJob, MinedOnce, JobsOnce
  <2> QED BY <1>1, <2>1 DEF JobsCovered
<1>2. ASSUME UNCHANGED jobs
      PROVE  JobsCovered'
  BY <1>2 DEF JobsCovered
<1>3. CASE \/ UNCHANGED miningVars
           \/ \E p \in PayId : \/ \E coin \in Coin : SelectCoin(p, coin)
                               \/ ReadNonce(p) \/ handleSendTransaction(p) \/ AddTransactionToMempool(p)
           \/ \E txs \in SeqOf(PayId, 2), time \in OthersTimes : OthersExtend(txs, time)
           \/ \E time, time2 \in OthersTimes : OthersReorganize(time, time2)
           \/ \E delay \in Delays : Tick(delay)
  BY <1>2, <1>3
     DEF miningVars, SelectCoin, ReadNonce, handleSendTransaction, AddTransactionToMempool,
         OthersExtend, OthersReorganize, Tick
<1>4. ASSUME NEW w \in Worker, FinishTemplate(w) \/ ReceiveTemplate(w)
      PROVE  JobsCovered'
  BY <1>1, <1>4, FinishCovers, ReceiveCovers
<1>5. ASSUME NEW w \in Worker,
             \/ ReadTip(w) \/ ReadHistory(w) \/ ReadPool(w) \/ LoseTemplate(w) \/ CheckMiningInfo(w)
             \/ FindBlock(w) \/ ExpireTemplate(w) \/ Submit(w) \/ TryAgain(w) \/ Answered(w)
      PROVE  JobsCovered'
  <2>1. PICK job : SetJob(w, job) /\ job.step \notin {"served", "height"}
    <3>1. CASE ReadTip(w)
      BY <3>1 DEF ReadTip
    <3>2. CASE ReadHistory(w)
      BY <3>2 DEF ReadHistory
    <3>3. CASE ReadPool(w)
      BY <3>3 DEF ReadPool
    <3>4. CASE LoseTemplate(w) \/ ExpireTemplate(w)
      BY <3>4 DEF LoseTemplate, ExpireTemplate, Rest
    <3>5. CASE CheckMiningInfo(w)
      BY <3>5 DEF CheckMiningInfo, Rest
    <3>6. CASE FindBlock(w)
      BY <3>6 DEF FindBlock
    <3>7. CASE Submit(w)
      BY <3>7 DEF Submit
    <3>8. CASE TryAgain(w)
      BY <3>8 DEF TryAgain
    <3>9. CASE Answered(w)
      BY <3>9 DEF Answered
    <3> QED BY <1>5, <3>1, <3>2, <3>3, <3>4, <3>5, <3>6, <3>7, <3>8, <3>9
  <2> QED BY <1>1, <2>1, OtherStep
<1>6. ASSUME NEW w \in Worker, SelectPayment(w)
      PROVE  JobsCovered'
  <2> DEFINE old == jobs[w]
             next == IF ~IsSelectable(Head(old.pending)) THEN [old EXCEPT !.pending = Tail(@)]
                     ELSE IF Len(old.txs) >= MaxBlockTxs THEN [old EXCEPT !.pending = <<>>]
                     ELSE [old EXCEPT !.pending = Tail(@), !.txs = Append(@, Head(old.pending))]
  <2>1. old.step = "select" /\ SetJob(w, next)
    BY <1>6 DEF SelectPayment, At
  <2>2. "step" \in DOMAIN old
    BY DEF MinedOnce, JobsOnce, GoodJob
  <2>3. next.step = "select"
    BY <2>1, <2>2
  <2> HIDE DEF next
  <2> QED BY <1>1, <2>1, <2>3, OtherStep
<1>7. ASSUME NEW w \in Worker, CheckHeight(w) \/ CheckBest(w)
      PROVE  JobsCovered'
  <2>1. PICK next, stale : next \in {"best", "info"} /\ Pass(w, next, stale)
    BY <1>7 DEF CheckHeight, CheckBest
  <2>2. "step" \in DOMAIN jobs[w]
    BY DEF MinedOnce, JobsOnce, GoodJob
  <2>3. PICK job : SetJob(w, job) /\ job.step \in {"best", "info", "rest"}
    BY <2>1, <2>2 DEF Pass, Rest
  <2> QED BY <1>1, <2>3, OtherStep
<1> QED BY <1>3, <1>4, <1>5, <1>6, <1>7 DEF MiningNext

\* With the shares of the shipped configuration the block that a miner takes from a template
\* pays out the reward for its height and the fees of the payments that are in it, but for
\* what is rounded off, whatever happens to pool and chain while the template is put together.
THEOREM RewardsAreCoveredHolds ==
    ASSUME NetworkFee.treasuryPct = 20
    PROVE  MiningSpec => []RewardsAreCovered
<1>1. MiningInit => JobsCovered
  BY OtherStep DEF MiningInit, JobsCovered
<1>2. MinedOnce /\ PaymentsInv /\ JobsCovered /\ [MiningNext]_miningVars => JobsCovered'
  BY StepCovers
<1>3. JobsCovered => RewardsAreCovered
  BY DEF JobsCovered, JobCovered, Covered, Due, NotPaid, RewardsAreCovered, At
<1> QED BY <1>1, <1>2, <1>3, MinedOnceHolds, PaymentsInvHolds, PTL DEF MiningSpec

-----------------------------------------------------------------------------
(* The difficulty: types and limits. *)

\* The k-th element of a set of numbers.
LEMMA KthExists ==
    ASSUME NEW m \in Nat, NEW kept \in SUBSET (1..m)
    PROVE  /\ IsFiniteSet(kept) /\ Cardinality(kept) \in Nat
           /\ \A k \in 1..Cardinality(kept) : \E i \in kept : Cardinality({j \in kept : j <= i}) = k
<1> DEFINE Below(i) == {j \in kept : j <= i}
           Reached(i) == \A k \in 1..Cardinality(Below(i)) : \E x \in kept : Cardinality(Below(x)) = k
           T == {i \in 0..m : Reached(i)}
<1>0. \A j \in kept : j \in Int /\ 1 <= j /\ j <= m
  OBVIOUS
<1>1. IsFiniteSet(kept) /\ Cardinality(kept) \in Nat
  <2>1. IsFiniteSet(1..m)
    BY FS_Interval
  <2>2. IsFiniteSet(kept)
    BY <2>1, FS_Subset
  <2> QED BY <2>2, FS_CardinalityType
<1>2. \A i \in 0..m : IsFiniteSet(Below(i)) /\ Cardinality(Below(i)) \in Nat
  <2> SUFFICES ASSUME NEW i \in 0..m
               PROVE  IsFiniteSet(Below(i)) /\ Cardinality(Below(i)) \in Nat
    OBVIOUS
  <2>1. Below(i) \subseteq kept
    OBVIOUS
  <2> HIDE DEF Below
  <2>2. IsFiniteSet(Below(i))
    BY <1>1, <2>1, FS_Subset
  <2> QED BY <2>2, FS_CardinalityType
<1>3. 0 \in T
  <2>1. \A j \in kept : ~(j <= 0)
    BY <1>0
  <2>2. Below(0) = {}
    BY <2>1
  <2>3. Cardinality(Below(0)) = 0
    BY <2>2, FS_EmptySet
  <2>4. Reached(0)
    <3> HIDE DEF Below
    <3> QED BY <2>3
  <2> QED BY <2>4
<1>4. \A i \in 0..m : i \in T /\ i < m => i + 1 \in T
  <2> SUFFICES ASSUME NEW i \in 0..m, Reached(i), i < m
               PROVE  Reached(i + 1)
    OBVIOUS
  <2>1. i + 1 \in 0..m
    OBVIOUS
  <2>2. CASE i + 1 \notin kept
    <3>1. \A j \in kept : j <= i + 1 <=> j <= i
      BY <1>0, <2>2
    <3>2. Below(i + 1) = Below(i)
      BY <3>1
    <3> HIDE DEF Below
    <3> QED BY <3>2
  <2>3. CASE i + 1 \in kept
    <3>0. \A j \in kept : j <= i + 1 <=> j <= i \/ j = i + 1
      BY <1>0
    <3>1. Below(i + 1) = Below(i) \cup {i + 1}
      BY <2>3, <3>0
    <3>4. i + 1 \notin Below(i)
      BY <1>0
    <3> HIDE DEF Below
    <3>2. Cardinality(Below(i + 1)) = Cardinality(Below(i)) + 1
      BY <1>2, <3>1, <3>4, FS_AddElement
    <3>3. \A k \in 1..Cardinality(Below(i + 1)) :
             k \in 1..Cardinality(Below(i)) \/ k = Cardinality(Below(i + 1))
      BY <1>2, <2>1, <3>2
    <3> QED BY <2>3, <3>3
  <2> QED BY <2>2, <2>3
<1>5. m \in T
  <2> HIDE DEF T
  <2> QED BY <1>3, <1>4, UpTo
<1>6. Below(m) = kept
  BY <1>0
<1>7. \A k \in 1..Cardinality(kept) : \E x \in kept : Cardinality(Below(x)) = k
  <2> HIDE DEF Below
  <2> QED BY <1>5, <1>6
<1> QED BY <1>1, <1>7

LEMMA FilteredType ==
    ASSUME NEW times \in Seq(Nat)
    PROVE  Filtered(times) \in Seq(Nat)
<1> DEFINE kept == {i \in DOMAIN times : i = 1 \/ times[i] > times[i - 1]}
           Kth(k) == CHOOSE i \in kept : Cardinality({j \in kept : j <= i}) = k
           n == Cardinality(kept)
<1>1. Len(times) \in Nat /\ DOMAIN times = 1..Len(times) /\ \A i \in DOMAIN times : times[i] \in Nat
  OBVIOUS
<1>2. kept \in SUBSET (1..Len(times))
  BY <1>1
<1>3. Filtered(times) = [k \in 1..n |-> times[Kth(k)]]
  BY DEF Filtered
<1> HIDE DEF kept
<1>4. n \in Nat /\ \A k \in 1..n : \E i \in kept : Cardinality({j \in kept : j <= i}) = k
  BY <1>1, <1>2, KthExists
<1>5. \A k \in 1..n : Kth(k) \in kept
  BY <1>4
<1> HIDE DEF Kth, n
<1>6. \A k \in 1..n : times[Kth(k)] \in Nat
  BY <1>1, <1>2, <1>5
<1> QED BY <1>3, <1>4, <1>6

LEMMA IntervalsType ==
    ASSUME NEW times \in Seq(Nat)
    PROVE  Intervals(times) \in Int
<1> DEFINE S == 2..Len(times)
           Weighted(i) == i * (times[i] - times[i - 1])
           Pick(s) == CHOOSE x \in s : TRUE
           Sum(f) == [s \in SUBSET S |-> IF s = {} THEN 0
                                         ELSE Weighted(Pick(s)) + f[s \ {Pick(s)}]]
<1>1. PICK pick, step : /\ pick = [s \in SUBSET S |-> Pick(s)]
                        /\ step = [x \in S |-> [v \in Int |-> Weighted(x) + v]]
  OBVIOUS
<1>2. \A s \in SUBSET S : pick[s] = Pick(s) /\ (s # {} => pick[s] \in s)
  BY <1>1
<1>3. \A x \in S : Weighted(x) \in Int
  <2> SUFFICES ASSUME NEW x \in S
               PROVE  Weighted(x) \in Int
    OBVIOUS
  <2>1. x \in Int /\ times[x] \in Int /\ times[x - 1] \in Int
    OBVIOUS
  <2>2. times[x] - times[x - 1] \in Int
    BY <2>1
  <2> QED BY <2>1, <2>2
<1>4. IsFiniteSet(S)
  BY FS_Interval
<1> HIDE DEF Weighted
<1>5. step \in [S -> [Int -> Int]]
  BY <1>1, <1>3
<1>6. PICK f : IsFold(f, S, Int, 0, step, pick)
  <2> HIDE DEF S, Pick
  <2>1. 0 \in Int
    OBVIOUS
  <2>2. \A s \in SUBSET S : s # {} => pick[s] \in s
    BY <1>2
  <2> QED BY <1>4, <1>5, <2>1, <2>2, FoldExists
<1>7. f = Sum(f)
  <2> HIDE DEF S, Pick
  <2>1. \A s \in SUBSET S : s # {} => step[pick[s]][f[s \ {pick[s]}]] = Weighted(Pick(s)) + f[s \ {Pick(s)}]
    BY <1>1, <1>2, <1>6 DEF IsFold
  <2>2. \A s \in SUBSET S : f[s] = IF s = {} THEN 0 ELSE Weighted(Pick(s)) + f[s \ {Pick(s)}]
    BY <1>2, <1>6, <2>1 DEF IsFold
  <2>3. f = [s \in SUBSET S |-> f[s]]
    BY <1>6 DEF IsFold
  <2> QED BY <2>2, <2>3
<1>8. PICK g : g = Sum(g) /\ Intervals(times) = g[S]
  BY <1>7 DEF Intervals, MapThenSumSet, MapThenFoldSet, Weighted
<1> HIDE DEF S, Pick
<1>9. g[{}] \in Int
  BY <1>8
<1>10. \A s \in SUBSET S : s # {} => g[s] = Weighted(pick[s]) + g[s \ {pick[s]}]
  BY <1>2, <1>8
<1>11. \A s \in SUBSET S : s # {} /\ g[s \ {pick[s]}] \in Int => g[s] \in Int
  <2> SUFFICES ASSUME NEW s \in SUBSET S, s # {}, g[s \ {pick[s]}] \in Int
               PROVE  g[s] \in Int
    OBVIOUS
  <2>1. Weighted(pick[s]) \in Int
    BY <1>2, <1>3
  <2>2. g[s] = Weighted(pick[s]) + g[s \ {pick[s]}]
    BY <1>10
  <2> QED BY <2>1, <2>2
<1>12. \A s \in SUBSET S : s # {} => pick[s] \in s
  BY <1>2
<1>13. g[S] \in Int
  <2> HIDE DEF Sum
  <2> QED BY <1>4, <1>9, <1>11, <1>12, FoldType
<1> QED BY <1>8, <1>13
-----------------------------------------------------------------------------
(* The difficulty that creation and validation compute. *)

\* The configured limits admit the difficulty of the genesis block and of the launch guard.
DifficultyConfigured ==
    Difficulty.min > 0 /\ Difficulty.max > 0 =>
        /\ Difficulty.initial \in Difficulty.min..Difficulty.max
        /\ Difficulty.guardBlocks > 0 => Difficulty.guardDifficulty \in Difficulty.min..Difficulty.max

WithinLimits(d) ==
    d \in Nat /\ (Difficulty.min > 0 /\ Difficulty.max > 0 => d \in Difficulty.min..Difficulty.max)

LEMMA DifficultyTypes ==
    /\ Difficulty.initial \in Nat /\ Difficulty.min \in Nat /\ Difficulty.max \in Nat
    /\ Difficulty.adjustPct \in Nat /\ Difficulty.window \in Nat
    /\ Difficulty.guardBlocks \in Nat /\ Difficulty.guardDifficulty \in Nat
    /\ BlockTimeTarget \in Nat \ {0} /\ StuckWait \in Nat /\ TimeoutWait \in Nat
  BY ConsensusAssumption

LEMMA CappedLimits ==
    ASSUME DifficultyConfigured, NEW d \in Int
    PROVE  WithinLimits(Capped(d))
  BY DifficultyTypes DEF DifficultyConfigured, WithinLimits, Capped, AtLeast, AtMost

LEMMA PositiveWeights ==
    ASSUME NEW n \in Nat, n >= 2
    PROVE  (n * (n + 1)) \div 2 \in Nat \ {0}
<1> DEFINE product == n * (n + 1)
<1>1. product \in Nat /\ product >= 2
  OBVIOUS
<1> HIDE DEF product
<1>2. product \div 2 \in Nat \ {0}
  BY <1>1
<1> QED BY <1>2 DEF product

\* Where the average is divided by, it is not zero.
LEMMA LinearWeightedType ==
    ASSUME NEW parent \in Nat, NEW times \in Seq(Nat), Len(times) >= 2
    PROVE  \E d \in Int : LinearWeighted(parent, times) = Capped(d)
<1> DEFINE n == Len(times)
           weights == (n * (n + 1)) \div 2
           intervals == Intervals(times)
           least == AtLeast(100 - Difficulty.adjustPct, 50)
           most == AtMost(100 + Difficulty.adjustPct, 200)
           target == BlockTimeTarget * weights
           d == IF 100 * target > most * intervals THEN (parent * most) \div 100
                ELSE IF 100 * target < least * intervals THEN (parent * least) \div 100
                ELSE (parent * target) \div intervals
<1>1. LinearWeighted(parent, times) = Capped(d)
  BY DEF LinearWeighted
<1>2. least \in Nat /\ most \in Nat \ {0}
  <2>1. \A a \in Nat : AtLeast(100 - a, 50) \in Nat /\ AtMost(100 + a, 200) \in Nat \ {0}
    BY DEF AtLeast, AtMost
  <2> QED BY <2>1, DifficultyTypes
<1>3. weights \in Nat \ {0}
  <2>1. n \in Nat /\ n >= 2
    OBVIOUS
  <2> HIDE DEF n
  <2> QED BY <2>1, PositiveWeights
<1>4. intervals \in Int
  BY IntervalsType
<1> HIDE DEF weights, intervals, least, most
<1>5. target \in Nat \ {0}
  BY <1>3, DifficultyTypes
<1> HIDE DEF target
<1>6. (parent * most) \div 100 \in Int /\ (parent * least) \div 100 \in Int
  <2>1. \A a \in Nat : (parent * a) \div 100 \in Int
    <3> SUFFICES ASSUME NEW a \in Nat
                 PROVE  (parent * a) \div 100 \in Int
      OBVIOUS
    <3> DEFINE product == parent * a
    <3>1. product \in Nat
      OBVIOUS
    <3> HIDE DEF product
    <3>2. product \div 100 \in Int
      BY <3>1
    <3> QED BY <3>2 DEF product
  <2> QED BY <1>2, <2>1
<1>7. ~(100 * target > most * intervals) => intervals > 0
  <2> SUFFICES ASSUME ~(intervals > 0)
               PROVE  100 * target > most * intervals
    OBVIOUS
  <2>1. most * intervals <= 0
    BY <1>2, <1>4
  <2>2. most * intervals \in Int
    BY <1>2, <1>4
  <2> QED BY <1>5, <2>1, <2>2
<1>8. intervals > 0 => (parent * target) \div intervals \in Int
  <2> DEFINE product == parent * target
  <2>1. product \in Nat
    BY <1>5
  <2> HIDE DEF product
  <2>2. intervals > 0 => product \div intervals \in Int
    BY <1>4, <2>1
  <2> QED BY <2>2 DEF product
<1>9. d \in Int
  BY <1>6, <1>7, <1>8
<1> HIDE DEF d
<1> QED BY <1>1, <1>9

\* The difficulty that creation computes is within the limits, but for the floor that is not
\* kept between StuckWait and TimeoutWait.
LEMMA CalculatedLimits ==
    ASSUME DifficultyConfigured, NEW height \in Nat, NEW parent, WithinLimits(parent),
           NEW history \in Seq(Nat), history # <<>>, NEW now \in Nat
    PROVE  LET wait == now - history[Len(history)]
               d == CalculateDifficulty(height, parent, history, now)
           IN  /\ d \in Nat
               /\ \/ WithinLimits(d)
                  \/ parent = Difficulty.min /\ wait > StuckWait /\ wait <= TimeoutWait
<1> DEFINE wait == now - history[Len(history)]
           times == Filtered(Append(history, now))
           d == CalculateDifficulty(height, parent, history, now)
<1>1. wait \in Int
  BY DifficultyTypes
<1>2. d = IF height = 0 THEN Difficulty.initial
          ELSE IF height < Difficulty.guardBlocks THEN Difficulty.guardDifficulty
          ELSE IF height < Difficulty.window THEN parent
          ELSE IF wait > TimeoutWait THEN Difficulty.initial
          ELSE IF wait > 2 * BlockTimeTarget THEN QuickAdjusted(parent, wait)
          ELSE IF Len(history) < 2 \/ Len(times) < 2 THEN parent
          ELSE LinearWeighted(parent, times)
  BY DEF CalculateDifficulty
<1>3. times \in Seq(Nat)
  <2>1. Append(history, now) \in Seq(Nat)
    OBVIOUS
  <2> QED BY <2>1, FilteredType
<1>4. WithinLimits(Difficulty.initial)
  BY DifficultyTypes DEF DifficultyConfigured, WithinLimits
<1>5. height < Difficulty.guardBlocks => WithinLimits(Difficulty.guardDifficulty)
  BY DifficultyTypes DEF DifficultyConfigured, WithinLimits
<1>6. wait <= TimeoutWait =>
        /\ QuickAdjusted(parent, wait) \in Nat
        /\ \/ WithinLimits(QuickAdjusted(parent, wait))
           \/ parent = Difficulty.min /\ wait > StuckWait /\ wait <= TimeoutWait
  <2> HIDE DEF wait
  <2>1. parent \in Nat /\ parent \div 2 \in Nat /\ parent \div 2 <= parent
    BY DEF WithinLimits
  <2> QED BY <1>1, <1>4, <2>1, DifficultyTypes DEF QuickAdjusted, WithinLimits, AtLeast
<1>7. Len(times) >= 2 => WithinLimits(LinearWeighted(parent, times))
  <2> HIDE DEF times
  <2> SUFFICES ASSUME Len(times) >= 2
               PROVE  WithinLimits(LinearWeighted(parent, times))
    OBVIOUS
  <2>1. parent \in Nat
    BY DEF WithinLimits
  <2>2. PICK e \in Int : LinearWeighted(parent, times) = Capped(e)
    BY <1>3, <2>1, LinearWeightedType
  <2> QED BY <2>2, CappedLimits
<1>8. Len(times) \in Nat
  <2> HIDE DEF times
  <2> QED BY <1>3
<1> HIDE DEF wait, times, d
<1>9. \A e : WithinLimits(e) => e \in Nat
  BY DEF WithinLimits
<1>10. d \in Nat /\ (WithinLimits(d) \/ (parent = Difficulty.min /\ wait > StuckWait /\ wait <= TimeoutWait))
  <2>1. CASE height = 0 \/ height < Difficulty.guardBlocks \/ height < Difficulty.window
             \/ wait > TimeoutWait
    BY <1>2, <1>4, <1>5, <1>9, <2>1
  <2>2. CASE /\ ~(height = 0 \/ height < Difficulty.guardBlocks \/ height < Difficulty.window
                   \/ wait > TimeoutWait)
             /\ wait > 2 * BlockTimeTarget
    <3>1. d = QuickAdjusted(parent, wait)
      BY <1>2, <2>2
    <3>2. wait <= TimeoutWait
      BY <1>1, <2>2, DifficultyTypes
    <3> QED BY <1>6, <3>1, <3>2
  <2>3. CASE /\ ~(height = 0 \/ height < Difficulty.guardBlocks \/ height < Difficulty.window
                   \/ wait > TimeoutWait)
             /\ ~(wait > 2 * BlockTimeTarget)
    <3>1. d = parent \/ (d = LinearWeighted(parent, times) /\ ~(Len(times) < 2))
      BY <1>2, <2>3
    <3>2. ~(Len(times) < 2) => Len(times) >= 2
      BY <1>8
    <3> QED BY <1>7, <1>9, <3>1, <3>2
  <2> QED BY <2>1, <2>2, <2>3
<1> QED BY <1>10 DEF wait, d

\* What validation expects is within the limits.
LEMMA ExpectedLimits ==
    ASSUME DifficultyConfigured, NEW height \in Nat, NEW parent, WithinLimits(parent),
           NEW history \in Seq(Nat), history # <<>>, NEW now \in Nat
    PROVE  LET d == CalculateDifficulty(height, parent, history, now)
               expected == ExpectedDifficulty(height, parent, history, now)
           IN  WithinLimits(expected) /\ (WithinLimits(d) => expected = d)
<1> DEFINE d == CalculateDifficulty(height, parent, history, now)
           expected == ExpectedDifficulty(height, parent, history, now)
<1>1. d \in Nat
  BY CalculatedLimits
<1>2. expected = IF Difficulty.min > 0 /\ Difficulty.max > 0
                 THEN IF d > Difficulty.max THEN Difficulty.max ELSE AtLeast(d, Difficulty.min)
                 ELSE d
  BY DEF ExpectedDifficulty
<1> HIDE DEF d, expected
<1>3. WithinLimits(expected) /\ (WithinLimits(d) => expected = d)
  BY <1>1, <1>2, DifficultyTypes DEF DifficultyConfigured, WithinLimits, AtLeast
<1> QED BY <1>3 DEF d, expected
-----------------------------------------------------------------------------
(* Heights, times and difficulties of blocks. *)

\* The configured limits have to admit the configured difficulties.
InLimits(b) ==
    b.number \in Nat /\ b.time \in Nat /\ (DifficultyConfigured => WithinLimits(b.difficulty))

\* Of what comes over HTTP the node tests the difficulty, and height and time are those of
\* a template.
Timed(b) == {"number", "time"} \subseteq DOMAIN b /\ b.number \in Nat \ {0} /\ b.time \in Nat

JobTimed(job) ==
    /\ job.step \in {"history", "pool", "select"} =>
          "parent" \in DOMAIN job /\ job.parent.number \in Nat
    /\ job.step = "served" => Timed(job.template)
    /\ HasBlock(job) => Timed(job.block)

BlocksInLimits == mineChain[1] = GenesisBlock /\ \A b \in mineIndex : InLimits(b)

LimitsInv == BlocksInLimits /\ \A w \in Worker : JobTimed(jobs[w])

LEMMA TipAndHistory ==
    ASSUME MinedOnce, BlocksInLimits
    PROVE  /\ Len(mineChain) \in Nat \ {0} /\ \A i \in 1..Len(mineChain) : mineChain[i] \in mineIndex
           /\ Tip = mineChain[Len(mineChain)] /\ InLimits(Tip)
           /\ Tip.number # 0 => Len(mineChain) > 1
           /\ History \in Seq(Nat) /\ History # <<>> /\ History[Len(History)] = Tip.time
<1> DEFINE n == Len(mineChain)
           window == IF Difficulty.window = 0 THEN 120 ELSE Difficulty.window
           size == AtMost(window, n)
<1>1. n \in Nat \ {0} /\ \A i \in 1..n : mineChain[i] \in mineIndex
  BY DEF MinedOnce, ChainOnce
<1>2. Tip = mineChain[n]
  BY DEF Tip, Last
<1>3. InLimits(Tip)
  BY <1>1, <1>2 DEF BlocksInLimits
<1>4. Tip.number # 0 => n > 1
  BY <1>1, <1>2 DEF BlocksInLimits, GenesisBlock
<1>5. window \in Nat \ {0}
  BY DifficultyTypes
<1>6. History = [i \in 1..size |-> mineChain[n - size + i].time]
  BY DEF History
<1> HIDE DEF n, window
<1>7. size \in 1..n
  BY <1>1, <1>5 DEF AtMost
<1> HIDE DEF size
<1>8. \A i \in 1..size : mineChain[n - size + i].time \in Nat
  <2> SUFFICES ASSUME NEW i \in 1..size
               PROVE  mineChain[n - size + i].time \in Nat
    OBVIOUS
  <2>1. n - size + i \in 1..n
    BY <1>1, <1>7
  <2> QED BY <1>1, <2>1 DEF BlocksInLimits, InLimits
<1>9. History \in Seq(Nat) /\ Len(History) = size
  BY <1>6, <1>7, <1>8
<1>10. History # <<>> /\ History[size] = mineChain[n].time
  <2>1. size \in 1..size /\ n - size + size = n
    BY <1>1, <1>7
  <2> QED BY <1>6, <1>7, <1>9, <2>1
<1> QED BY <1>1, <1>2, <1>3, <1>4, <1>9, <1>10 DEF n

LEMMA ExpectedAfter ==
    ASSUME MinedOnce, BlocksInLimits, clock \in Nat,
           NEW parent, InLimits(parent), NEW height \in Nat
    PROVE  DifficultyConfigured =>
               WithinLimits(ExpectedDifficulty(height, parent.difficulty, History, clock))
<1> SUFFICES ASSUME DifficultyConfigured
             PROVE  WithinLimits(ExpectedDifficulty(height, parent.difficulty, History, clock))
  OBVIOUS
<1>1. History \in Seq(Nat) /\ History # <<>>
  BY TipAndHistory
<1>2. WithinLimits(parent.difficulty)
  BY DEF InLimits
<1> QED BY <1>1, <1>2, ExpectedLimits

\* The parent of a block of the tip's height is there, because it is no genesis block.
LEMMA ValidIsInLimits ==
    ASSUME MinedOnce, BlocksInLimits, clock \in Nat,
           NEW b, Timed(b), IsValidBlock(b)
    PROVE  InLimits(b)
<1>1. PICK parent \in ParentFor(b) :
         /\ b.number = parent.number + 1
         /\ b.difficulty = ExpectedDifficulty(b.number, parent.difficulty, History, clock)
  BY DEF IsValidBlock
<1>2. parent \in mineIndex
  <2>1. CASE b.number = Tip.number /\ b.id # Tip.id
    <3>1. Len(mineChain) \in Nat /\ Len(mineChain) > 1
      BY <2>1, TipAndHistory DEF Timed
    <3>2. Len(mineChain) - 1 \in 1..Len(mineChain)
      BY <3>1
    <3>3. parent = mineChain[Len(mineChain) - 1]
      BY <2>1 DEF ParentFor
    <3> QED BY <3>2, <3>3, TipAndHistory
  <2>2. CASE ~(b.number = Tip.number /\ b.id # Tip.id)
    BY <2>2 DEF ParentFor
  <2> QED BY <2>1, <2>2
<1>3. InLimits(parent)
  BY <1>2 DEF BlocksInLimits
<1>4. b.number \in Nat /\ b.time \in Nat
  BY DEF Timed
<1>5. DifficultyConfigured => WithinLimits(b.difficulty)
  BY <1>1, <1>3, <1>4, ExpectedAfter
<1> QED BY <1>4, <1>5 DEF InLimits

\* The index gets blocks within the limits, and the chain keeps its first block.
LEMMA AppliedInLimits ==
    ASSUME MinedOnce, BlocksInLimits, NEW b, NEW verdict, Apply(b, verdict),
           verdict \in {"added", "spent", "fork"} => InLimits(b)
    PROVE  BlocksInLimits'
<1>1. \A c \in mineIndex' : InLimits(c)
  BY ApplyFacts DEF BlocksInLimits
<1>2. mineChain'[1] = mineChain[1]
  <2>1. mineChain \in Seq(mineIndex) /\ Len(mineChain) \in Nat \ {0}
    BY DEF MinedOnce, ChainOnce
  <2>2. Append(mineChain, b)[1] = mineChain[1]
    BY <2>1
  <2> QED BY <2>2, ApplyFacts
<1>3. mineChain'[1] = GenesisBlock
  BY <1>2 DEF BlocksInLimits
<1> QED BY <1>1, <1>3 DEF BlocksInLimits, GenesisBlock

\* The times of other clocks.
LEMMA OthersTimesType ==
    ASSUME clock \in Nat
    PROVE  OthersTimes \subseteq Int
  BY MiningAssumption DEF OthersTimes

LEMMA OthersExtendInLimits ==
    ASSUME MinedOnce, BlocksInLimits, clock \in Nat, NEW txs, NEW time \in OthersTimes,
           OthersExtend(txs, time)
    PROVE  BlocksInLimits'
<1>1. PICK b : /\ b = OthersBlock(left.others, Tip, time, txs)
               /\ Verdict(b) = "added" /\ Apply(b, "added")
  BY DEF OthersExtend
<1>4. /\ b.id = <<"others", left.others>> /\ b.number = Tip.number + 1 /\ b.time = time
      /\ b.parent = Tip.id
      /\ b.difficulty = ExpectedDifficulty(Tip.number + 1, Tip.difficulty, History, clock)
  BY <1>1, OthersFields
<1>2. InLimits(Tip) /\ Tip.number + 1 \in Nat
  BY TipAndHistory DEF InLimits
<1>5. b.time \in Nat
  <2>1. PICK parent \in ParentFor(b) : b.parent = parent.id /\ b.time >= parent.time
    BY <1>1 DEF Verdict, IsValidBlock
  <2>2. b.number # Tip.number
    BY <1>2, <1>4 DEF InLimits
  <2>3. parent \in mineIndex
    BY <2>1, <2>2 DEF ParentFor
  <2>4. parent.time \in Nat
    BY <2>3 DEF BlocksInLimits, InLimits
  <2> QED BY <1>4, <2>1, <2>4, OthersTimesType
<1>3. InLimits(b)
  BY <1>2, <1>4, <1>5, ExpectedAfter DEF InLimits
<1> QED BY <1>1, <1>3, AppliedInLimits

LEMMA OthersReorganizeInLimits ==
    ASSUME MinedOnce, BlocksInLimits, clock \in Nat,
           NEW time \in OthersTimes, NEW time2 \in OthersTimes, OthersReorganize(time, time2)
    PROVE  BlocksInLimits'
<1> DEFINE parent == mineChain[Len(mineChain) - 1]
<1>0. Tip.number > 0 /\ time >= parent.time /\ time2 >= time
  BY DEF OthersReorganize
<1>10. PICK b, c : IsPair(b, c, time, time2)
  BY OthersPair
<1>1. /\ b.number = parent.number + 1 /\ c.number = b.number + 1
      /\ b.time = time /\ c.time = time2
      /\ b.difficulty = ExpectedDifficulty(parent.number + 1, parent.difficulty, History, clock)
      /\ c.difficulty = ExpectedDifficulty(b.number + 1, b.difficulty, History, clock)
      /\ mineChain' = Front(mineChain) \o <<b, c>> /\ mineIndex' = mineIndex \cup {b, c}
  BY <1>10 DEF IsPair
<1>2. Len(mineChain) \in Nat /\ Len(mineChain) > 1
  BY <1>0, TipAndHistory
<1>3. InLimits(parent)
  <2>1. Len(mineChain) - 1 \in 1..Len(mineChain)
    BY <1>2
  <2>2. parent \in mineIndex
    BY <2>1, TipAndHistory
  <2> QED BY <2>2 DEF BlocksInLimits
<1>4. parent.number \in Nat /\ parent.time \in Nat
  BY <1>3 DEF InLimits
<1>5. time \in Int /\ time2 \in Int
  BY OthersTimesType
<1>6. InLimits(b) /\ InLimits(c)
  <2> HIDE DEF parent
  <2>1. b.number \in Nat /\ c.number \in Nat /\ b.time \in Nat /\ c.time \in Nat
    BY <1>0, <1>1, <1>4, <1>5
  <2>2. InLimits(b)
    BY <1>1, <1>3, <2>1, ExpectedAfter DEF InLimits
  <2>3. DifficultyConfigured => WithinLimits(c.difficulty)
    BY <1>1, <2>1, <2>2, ExpectedAfter
  <2> QED BY <2>1, <2>2, <2>3 DEF InLimits
<1>7. mineChain'[1] = mineChain[1]
  <2> DEFINE front == Front(mineChain)
             All == mineIndex \cup {b, c}
  <2>1. mineChain \in Seq(mineIndex)
    BY DEF MinedOnce, ChainOnce
  <2>2. /\ front \in Seq(mineIndex) /\ Len(front) = Len(mineChain) - 1
        /\ \A i \in 1..Len(front) : front[i] = mineChain[i]
    BY <1>2, <2>1 DEF Front
  <2>3. front \in Seq(All) /\ b \in All /\ c \in All
    <3> HIDE DEF front
    <3>1. mineIndex \subseteq All
      OBVIOUS
    <3> QED BY <2>2, <3>1, SeqGrows
  <2> HIDE DEF front, All
  <2>4. \A i \in 1..Len(front) : (front \o <<b, c>>)[i] = front[i]
    BY <2>3, ConcatPair
  <2>5. 1 \in 1..Len(front)
    BY <1>2, <2>2
  <2> QED BY <1>1, <2>2, <2>4, <2>5 DEF front
<1>8. \A d \in mineIndex' : InLimits(d)
  BY <1>1, <1>6 DEF BlocksInLimits
<1>9. mineChain'[1] = GenesisBlock
  BY <1>7 DEF BlocksInLimits
<1> QED BY <1>8, <1>9 DEF BlocksInLimits, GenesisBlock

\* What passes the miner's hands keeps height and time.
LEMMA FinishTimed ==
    ASSUME clock \in Nat, NEW w \in Worker, JobTimed(jobs[w]), FinishTemplate(w)
    PROVE  \E job : SetJob(w, job) /\ JobTimed(job)
<1>1. jobs[w].parent.number \in Nat
  BY DEF FinishTemplate, At, JobTimed
<1>2. PICK b : /\ {"number", "time"} \subseteq DOMAIN b
               /\ b.number = jobs[w].parent.number + 1 /\ b.time = clock
               /\ SetJob(w, [step |-> "served", template |-> ServedTemplate(b)])
  BY DEF FinishTemplate
<1>3. b.number \in Nat \ {0}
  BY <1>1, <1>2
<1>4. Timed(ServedTemplate(b))
  BY <1>2, <1>3 DEF ServedTemplate, Timed
<1>5. PICK job : job.step = "served" /\ job.template = ServedTemplate(b) /\ SetJob(w, job)
  BY <1>2
<1> QED BY <1>4, <1>5 DEF JobTimed, HasBlock, Found

LEMMA ReceiveTimed ==
    ASSUME NEW w \in Worker, JobTimed(jobs[w]), ReceiveTemplate(w)
    PROVE  \E job : SetJob(w, job) /\ JobTimed(job)
<1>1. PICK t, job : /\ t = jobs[w].template /\ job.step = "height"
                    /\ job.block = BlockFromTemplate(t) /\ SetJob(w, job)
  BY DEF ReceiveTemplate
<1>2. Timed(t)
  BY <1>1 DEF ReceiveTemplate, At, JobTimed
<1>3. Timed(BlockFromTemplate(t))
  BY <1>2 DEF BlockFromTemplate, Timed
<1> QED BY <1>1, <1>3 DEF JobTimed

LEMMA ParsedIsTimed ==
    ASSUME NEW b, Timed(b)
    PROVE  Timed(parseBlockData(SentBlock(b)))
<1> DEFINE sent == SentBlock(b)
<1>1. Timed(sent)
  BY DEF SentBlock, Timed
<1> HIDE DEF sent
<1>2. Timed(parseBlockData(sent))
  BY <1>1 DEF parseBlockData, Timed
<1> QED BY <1>2 DEF sent

LEMMA MinerTimed ==
    ASSUME MinedOnce, NEW w \in Worker, JobTimed(jobs[w]),
           \/ LoseTemplate(w) \/ CheckHeight(w) \/ CheckBest(w) \/ CheckMiningInfo(w)
           \/ FindBlock(w) \/ ExpireTemplate(w) \/ Submit(w) \/ TryAgain(w) \/ Answered(w)
    PROVE  \E job : SetJob(w, job) /\ JobTimed(job)
<1>0. "step" \in DOMAIN jobs[w]
  BY DEF MinedOnce, JobsOnce, GoodJob
<1>1. \A job : job.step = "rest" => JobTimed(job)
  BY DEF JobTimed, HasBlock, Found
<1>2. ASSUME NEW job, job.step \in {"best", "info", "search", "submit", "answer"}, Timed(job.block)
      PROVE  JobTimed(job)
  BY <1>2 DEF JobTimed
<1>3. ASSUME NEW next \in {"best", "info"}, NEW stale, HasBlock(jobs[w]), Pass(w, next, stale)
      PROVE  \E job : SetJob(w, job) /\ JobTimed(job)
  <2>1. CASE Rest(w)
    BY <1>1, <2>1 DEF Rest
  <2>2. CASE SetJob(w, [jobs[w] EXCEPT !.step = next])
    <3> DEFINE passed == [jobs[w] EXCEPT !.step = next]
    <3>1. "block" \in DOMAIN jobs[w]
      BY <1>3 DEF MinedOnce, JobsOnce, GoodJob
    <3>2. passed.step = next /\ passed.block = jobs[w].block
      BY <1>0, <3>1
    <3> HIDE DEF passed
    <3>3. PICK job : /\ job.step = next /\ job.block = jobs[w].block /\ SetJob(w, job)
      BY <2>2, <3>2 DEF passed
    <3> QED BY <1>2, <1>3, <3>3 DEF JobTimed
  <2> QED BY <1>3, <2>1, <2>2 DEF Pass
<1>4. CASE LoseTemplate(w) \/ ExpireTemplate(w)
  BY <1>1, <1>4 DEF LoseTemplate, ExpireTemplate, Rest
<1>5. CASE CheckHeight(w) \/ CheckBest(w)
  BY <1>3, <1>5 DEF CheckHeight, CheckBest, At, HasBlock
<1>6. CASE CheckMiningInfo(w)
  <2>1. CASE Rest(w)
    BY <1>1, <2>1 DEF Rest
  <2>2. CASE SetJob(w, [step |-> "search", block |-> jobs[w].block, since |-> clock])
    <3>1. PICK job : job.step = "search" /\ job.block = jobs[w].block /\ SetJob(w, job)
      BY <2>2
    <3>2. HasBlock(jobs[w])
      BY <1>6 DEF CheckMiningInfo, At, HasBlock
    <3> QED BY <1>2, <3>1, <3>2 DEF JobTimed
  <2> QED BY <1>6, <2>1, <2>2 DEF CheckMiningInfo
<1>7. CASE FindBlock(w)
  <2> DEFINE found == [jobs[w].block EXCEPT !.id = <<"miner", left.found>>]
  <2>1. HasBlock(jobs[w]) /\ SetJob(w, [step |-> "submit", tries |-> MaxTries, block |-> found])
    BY <1>7 DEF FindBlock, At, HasBlock
  <2>2. Timed(found)
    BY <2>1 DEF JobTimed, Timed
  <2> HIDE DEF found
  <2>3. PICK job : job.step = "submit" /\ job.block = found /\ SetJob(w, job)
    BY <2>1
  <2> QED BY <1>2, <2>2, <2>3
<1>8. CASE Submit(w)
  <2>1. PICK b, job : /\ b = parseBlockData(SentBlock(jobs[w].block))
                      /\ job.step = "answer" /\ job.block = b /\ SetJob(w, job)
    BY <1>8 DEF Submit
  <2>2. Timed(jobs[w].block)
    BY <1>8 DEF Submit, At, JobTimed, HasBlock, Found
  <2> QED BY <1>2, <2>1, <2>2, ParsedIsTimed
<1>9. CASE TryAgain(w)
  <2>1. Timed(jobs[w].block)
    BY <1>9 DEF TryAgain, At, JobTimed, HasBlock, Found
  <2>2. PICK job : /\ SetJob(w, job)
                   /\ job.step = "rest" \/ (job.step = "submit" /\ job.block = jobs[w].block)
    BY <1>9 DEF TryAgain
  <2> QED BY <1>1, <1>2, <2>1, <2>2
<1>10. CASE Answered(w)
  BY <1>1, <1>10 DEF Answered
<1> QED BY <1>4, <1>5, <1>6, <1>7, <1>8, <1>9, <1>10

LEMMA TemplateTimed ==
    ASSUME MinedOnce, BlocksInLimits, NEW w \in Worker, JobTimed(jobs[w]),
           ReadTip(w) \/ ReadHistory(w) \/ ReadPool(w) \/ SelectPayment(w)
    PROVE  \E job : SetJob(w, job) /\ JobTimed(job)
<1>1. ASSUME NEW job, job.step \in {"history", "pool", "select"}, "parent" \in DOMAIN job,
             job.parent.number \in Nat
      PROVE  JobTimed(job)
  BY <1>1 DEF JobTimed, HasBlock, Found
<1>2. CASE ReadTip(w)
  <2>1. PICK job : /\ job.step = "history" /\ "parent" \in DOMAIN job /\ job.parent = Tip
                   /\ SetJob(w, job)
    BY <1>2 DEF ReadTip
  <2>2. Tip.number \in Nat
    BY TipAndHistory DEF InLimits
  <2> QED BY <1>1, <2>1, <2>2
<1>3. CASE ReadHistory(w)
  <2>1. PICK job : /\ job.step = "pool" /\ "parent" \in DOMAIN job
                   /\ job.parent = jobs[w].parent /\ SetJob(w, job)
    BY <1>3 DEF ReadHistory
  <2> QED BY <1>1, <1>3, <2>1 DEF ReadHistory, At, JobTimed
<1>4. CASE ReadPool(w)
  <2>1. PICK job : /\ job.step = "select" /\ "parent" \in DOMAIN job
                   /\ job.parent = jobs[w].parent /\ SetJob(w, job)
    BY <1>4 DEF ReadPool
  <2> QED BY <1>1, <1>4, <2>1 DEF ReadPool, At, JobTimed
<1>5. CASE SelectPayment(w)
  <2> DEFINE old == jobs[w]
             next == IF ~IsSelectable(Head(old.pending)) THEN [old EXCEPT !.pending = Tail(@)]
                     ELSE IF Len(old.txs) >= MaxBlockTxs THEN [old EXCEPT !.pending = <<>>]
                     ELSE [old EXCEPT !.pending = Tail(@), !.txs = Append(@, Head(old.pending))]
  <2>1. old.step = "select" /\ SetJob(w, next)
    BY <1>5 DEF SelectPayment, At
  <2>2. "step" \in DOMAIN old
    BY DEF MinedOnce, JobsOnce, GoodJob
  <2>3. "parent" \in DOMAIN old /\ old.parent.number \in Nat
    BY <2>1 DEF JobTimed
  <2>4. next.step = "select" /\ "parent" \in DOMAIN next /\ next.parent = old.parent
    BY <2>1, <2>2, <2>3
  <2> HIDE DEF next
  <2> QED BY <1>1, <2>1, <2>3, <2>4
<1> QED BY <1>2, <1>3, <1>4, <1>5

\* A verdict that puts a block into the index is one on a valid block or one that is there.
LEMMA SubmitInLimits ==
    ASSUME MinedOnce, BlocksInLimits, clock \in Nat,
           NEW w \in Worker, JobTimed(jobs[w]), Submit(w)
    PROVE  BlocksInLimits'
<1>1. PICK b, verdict : /\ b = parseBlockData(SentBlock(jobs[w].block))
                        /\ verdict = handleRequest(b) /\ Apply(b, verdict)
  BY DEF Submit
<1>2. Timed(b)
  <2>1. Timed(jobs[w].block)
    BY DEF Submit, At, JobTimed, HasBlock, Found
  <2> QED BY <1>1, <2>1, ParsedIsTimed
<1>3. verdict \in {"added", "spent", "fork"} => IsValidBlock(b)
  BY <1>1 DEF handleRequest, Verdict
<1> QED BY <1>1, <1>2, <1>3, ValidIsInLimits, AppliedInLimits

LEMMA LimitsStep ==
    ASSUME MinedOnce, LimitsInv, clock \in Nat, [MiningNext]_miningVars
    PROVE  LimitsInv'
<1>1. ASSUME NEW w \in Worker, NEW job, SetJob(w, job), JobTimed(job), BlocksInLimits'
      PROVE  LimitsInv'
  <2>1. \A v \in Worker : jobs'[v] = IF v = w THEN job ELSE jobs[v]
    BY <1>1 DEF SetJob, MinedOnce, JobsOnce
  <2> QED BY <1>1, <2>1 DEF LimitsInv
<1>2. ASSUME UNCHANGED jobs, BlocksInLimits'
      PROVE  LimitsInv'
  BY <1>2 DEF LimitsInv
<1>3. ASSUME UNCHANGED <<mineChain, mineIndex>>
      PROVE  BlocksInLimits'
  BY <1>3 DEF LimitsInv, BlocksInLimits, GenesisBlock
<1>4. BlocksInLimits /\ \A w \in Worker : JobTimed(jobs[w])
  BY DEF LimitsInv
<1>5. CASE \/ UNCHANGED miningVars
           \/ \E p \in PayId : \/ \E coin \in Coin : SelectCoin(p, coin)
                               \/ ReadNonce(p) \/ handleSendTransaction(p) \/ AddTransactionToMempool(p)
           \/ \E delay \in Delays : Tick(delay)
  BY <1>2, <1>3, <1>5
     DEF miningVars, nodeVars, SelectCoin, ReadNonce, handleSendTransaction,
         AddTransactionToMempool, Tick
<1>6. CASE \E txs \in SeqOf(PayId, 2), time \in OthersTimes : OthersExtend(txs, time)
  <2>1. PICK txs \in SeqOf(PayId, 2), time \in OthersTimes : OthersExtend(txs, time)
    BY <1>6
  <2>2. UNCHANGED jobs
    BY <2>1 DEF OthersExtend
  <2> QED BY <1>2, <1>4, <2>1, <2>2, OthersExtendInLimits
<1>7. CASE \E time, time2 \in OthersTimes : OthersReorganize(time, time2)
  <2>1. UNCHANGED jobs
    BY <1>7 DEF OthersReorganize
  <2> QED BY <1>2, <1>4, <1>7, <2>1, OthersReorganizeInLimits
<1>8. ASSUME NEW w \in Worker,
             ReadTip(w) \/ ReadHistory(w) \/ ReadPool(w) \/ SelectPayment(w) \/ FinishTemplate(w)
      PROVE  LimitsInv'
  <2>1. UNCHANGED <<mineChain, mineIndex>>
    BY <1>8 DEF ReadTip, ReadHistory, ReadPool, SelectPayment, FinishTemplate, OnlyJobs, nodeVars
  <2>2. \E job : SetJob(w, job) /\ JobTimed(job)
    BY <1>4, <1>8, TemplateTimed, FinishTimed
  <2> QED BY <1>1, <1>3, <2>1, <2>2
<1>9. ASSUME NEW w \in Worker,
             \/ ReceiveTemplate(w) \/ LoseTemplate(w) \/ CheckHeight(w) \/ CheckBest(w)
             \/ CheckMiningInfo(w) \/ FindBlock(w) \/ ExpireTemplate(w) \/ TryAgain(w) \/ Answered(w)
      PROVE  LimitsInv'
  <2>1. UNCHANGED <<mineChain, mineIndex>>
    BY <1>9 DEF ReceiveTemplate, LoseTemplate, CheckHeight, CheckBest, CheckMiningInfo, FindBlock,
                ExpireTemplate, TryAgain, Answered, Pass, Rest, OnlyJobs, nodeVars
  <2>2. \E job : SetJob(w, job) /\ JobTimed(job)
    BY <1>4, <1>9, ReceiveTimed, MinerTimed
  <2> QED BY <1>1, <1>3, <2>1, <2>2
<1>10. ASSUME NEW w \in Worker, Submit(w)
       PROVE  LimitsInv'
  <2>1. BlocksInLimits'
    BY <1>4, <1>10, SubmitInLimits
  <2>2. \E job : SetJob(w, job) /\ JobTimed(job)
    BY <1>4, <1>10, MinerTimed
  <2> QED BY <1>1, <2>1, <2>2
<1> QED BY <1>5, <1>6, <1>7, <1>8, <1>9, <1>10 DEF MiningNext

\* Blocks and templates have heights and times, and if the configured limits admit the
\* configured difficulties, every block that the node keeps, on the chain, on a branch or
\* refused half-way, has a difficulty within the limits: also those that were submitted with
\* what creation computed.
THEOREM LimitsInvHolds == MiningSpec => []LimitsInv
<1>1. MiningInit => LimitsInv
  <2>1. GenesisBlock.number = 0 /\ GenesisBlock.time = 0 /\ GenesisBlock.difficulty = Difficulty.initial
    BY DEF GenesisBlock
  <2>2. InLimits(GenesisBlock)
    BY <2>1, DifficultyTypes DEF InLimits, DifficultyConfigured, WithinLimits
  <2>3. MiningInit => BlocksInLimits
    BY <2>2 DEF MiningInit, BlocksInLimits
  <2>4. MiningInit => \A w \in Worker : JobTimed(jobs[w])
    BY DEF MiningInit, JobTimed, HasBlock, Found
  <2> QED BY <2>3, <2>4 DEF LimitsInv
<1>2. MinedOnce /\ LimitInv /\ LimitsInv /\ [MiningNext]_miningVars => LimitsInv'
  <2>1. LimitInv => clock \in Nat
    BY DEF LimitInv
  <2> QED BY <2>1, LimitsStep
<1> QED BY <1>1, <1>2, MinedOnceHolds, LimitInvHolds, PTL DEF MiningSpec

\* Under that condition on the configuration, creation (consensus.go:176) and validation
\* (blockchain.go:1085) agree on the difficulty of the block after the tip at any time, but for
\* the minutes after a block of the least difficulty in which creation goes below the minimum.
THEOREM ClampsAgreeHolds ==
    ASSUME DifficultyConfigured
    PROVE  MiningSpec => []ClampsAgree
<1>1. MinedOnce /\ LimitInv /\ LimitsInv => ClampsAgree
  <2> SUFFICES ASSUME MinedOnce, LimitInv, LimitsInv
               PROVE  ClampsAgree
    OBVIOUS
  <2> DEFINE next == Tip.number + 1
             wait == clock - Tip.time
             d == CalculateDifficulty(next, Tip.difficulty, History, clock)
  <2>1. clock \in Nat /\ BlocksInLimits
    BY DEF LimitInv, LimitsInv
  <2>2. /\ InLimits(Tip) /\ History \in Seq(Nat) /\ History # <<>>
        /\ History[Len(History)] = Tip.time
    BY <2>1, TipAndHistory
  <2>3. next \in Nat /\ WithinLimits(Tip.difficulty)
    BY <2>2 DEF InLimits
  <2> HIDE DEF next
  <2>4. \/ WithinLimits(d)
        \/ Tip.difficulty = Difficulty.min /\ wait > StuckWait /\ wait <= TimeoutWait
    BY <2>1, <2>2, <2>3, CalculatedLimits
  <2>5. WithinLimits(d) => ExpectedDifficulty(next, Tip.difficulty, History, clock) = d
    BY <2>1, <2>2, <2>3, ExpectedLimits
  <2> QED BY <2>4, <2>5 DEF ClampsAgree, next
<1> QED BY <1>1, MinedOnceHolds, LimitInvHolds, LimitsInvHolds, PTL

-----------------------------------------------------------------------------
(* A block on the tip: what a worker has read while the tip was what it     *)
(* still is.                                                                *)

\* The payments that a block on the tip may have, unless a refused block has left traces.
NextPays == {p \in DOMAIN payments : traces \/ HasNextNonce(p)}

AllIn(txs, set) == \A i \in DOMAIN txs : txs[i] \in set

\* A block for a parent that is known, with payments that fit while that is the tip.
Built(b, index, tip, next) ==
    /\ {"parent", "number", "time", "txs", "root", "difficulty"} \subseteq DOMAIN b
    /\ b.root = b.txs
    /\ \E p \in index : /\ b.parent = p.id /\ b.number = p.number + 1
                        /\ p = tip => AllIn(b.txs, next)

JobFresh(job, index, tip, next) ==
    /\ job.step \in {"history", "pool", "select"} => "parent" \in DOMAIN job /\ job.parent \in index
    /\ job.step = "select" => (job.parent = tip => AllIn(job.txs, next))
    /\ job.step = "served" => Built(job.template, index, tip, next)
    /\ HasBlock(job) => Built(job.block, index, tip, next)
    /\ Found(job) => HasTarget(job.block.difficulty)

FreshInv == \A w \in Worker : JobFresh(jobs[w], mineIndex, Tip, NextPays)

\* A tip that is left does not come back, and while it stays payments that fit go on fitting.
TipLeft == Tip' \notin mineIndex \/ (Tip' = Tip /\ NextPays \subseteq NextPays')

LEMMA BuiltStays ==
    ASSUME NEW b, NEW index, NEW more, NEW tip, NEW tip2,
           NEW next, NEW next2, Built(b, index, tip, next), index \subseteq more,
           tip2 \notin index \/ (tip2 = tip /\ next \subseteq next2)
    PROVE  Built(b, more, tip2, next2)
<1>2. PICK p \in index : /\ b.parent = p.id /\ b.number = p.number + 1
                         /\ p = tip => AllIn(b.txs, next)
  BY DEF Built
<1>3. p \in more /\ (p = tip2 => AllIn(b.txs, next2))
  BY <1>2 DEF AllIn
<1> QED BY <1>2, <1>3 DEF Built

LEMMA JobFreshStays ==
    ASSUME NEW job, NEW index, NEW more, NEW tip, NEW tip2,
           NEW next, NEW next2, JobFresh(job, index, tip, next), index \subseteq more,
           tip2 \notin index \/ (tip2 = tip /\ next \subseteq next2)
    PROVE  JobFresh(job, more, tip2, next2)
<1>1. \A b : Built(b, index, tip, next) => Built(b, more, tip2, next2)
  BY BuiltStays
<1>2. job.step = "select" => (job.parent = tip2 => AllIn(job.txs, next2))
  BY DEF JobFresh, AllIn
<1> QED BY <1>1, <1>2 DEF JobFresh

\* A block with the same fields but for its name and its fees.
LEMMA BuiltKeeps ==
    ASSUME NEW b, NEW c, NEW index, NEW tip, NEW next, Built(b, index, tip, next),
           \A f \in {"parent", "number", "time", "txs", "root", "difficulty"} :
               f \in DOMAIN b => f \in DOMAIN c /\ c[f] = b[f]
    PROVE  Built(c, index, tip, next) /\ c.difficulty = b.difficulty
  BY DEF Built

LEMMA TipIsKnown ==
    ASSUME MinedOnce
    PROVE  Tip \in mineIndex /\ mineChain \in Seq(mineIndex) /\ Len(mineChain) \in Nat \ {0}
           /\ Tip = mineChain[Len(mineChain)]
  BY DEF MinedOnce, ChainOnce, Tip, Last

\* Steps that leave the node's state and the payments alone.
LEMMA NothingMoves ==
    ASSUME UNCHANGED <<mineChain, mineNonces, payments, traces>>
    PROVE  TipLeft
<1>1. Tip' = Tip
  BY DEF Tip
<1>2. NextPays' = NextPays
  BY DEF NextPays, HasNextNonce, NextNonce
<1> QED BY <1>1, <1>2 DEF TipLeft

LEMMA PaymentMoves ==
    ASSUME PaymentsInv, NEW p \in PayId,
           \/ \E coin \in Coin : SelectCoin(p, coin)
           \/ ReadNonce(p) \/ handleSendTransaction(p) \/ AddTransactionToMempool(p)
    PROVE  TipLeft
<1>1. UNCHANGED <<mineChain, mineNonces, traces>>
  BY DEF SelectCoin, ReadNonce, handleSendTransaction, AddTransactionToMempool, nodeVars
<1>2. CASE AddTransactionToMempool(p)
  BY <1>1, <1>2, NothingMoves DEF AddTransactionToMempool
<1>4. CASE handleSendTransaction(p)
  <2>1. PICK data : data = [payments[p] EXCEPT !.checked = TRUE] /\ SetPayment(p, data)
    BY <1>4 DEF handleSendTransaction
  <2>2. payments[p] \in PaymentData /\ p \in DOMAIN payments
    BY <1>4 DEF handleSendTransaction, IsSigned, Prepared, PaymentsInv, PreparedType
  <2>3. data.nonce = payments[p].nonce
    BY <2>1, <2>2 DEF PaymentData
  <2>4. /\ DOMAIN payments' = DOMAIN payments
        /\ \A q \in DOMAIN payments : payments'[q].nonce = payments[q].nonce
    BY <2>1, <2>2, <2>3 DEF SetPayment
  <2>5. NextPays' = NextPays
    BY <1>1, <2>4 DEF NextPays, HasNextNonce, NextNonce
  <2>6. Tip' = Tip
    BY <1>1 DEF Tip
  <2> QED BY <2>5, <2>6 DEF TipLeft
<1>3. CASE (\E coin \in Coin : SelectCoin(p, coin)) \/ ReadNonce(p)
  <2>1. PICK data : SetPayment(p, data)
    BY <1>3 DEF SelectCoin, ReadNonce
  <2>2. p \in DOMAIN payments => payments[p].nonce = 0
    BY <1>3 DEF SelectCoin, ReadNonce, Prepared
  <2>3. \A q \in DOMAIN payments : /\ q \in DOMAIN payments'
                                   /\ q # p => payments'[q] = payments[q]
    BY <2>1 DEF SetPayment
  <2>4. ASSUME NEW q \in NextPays, ~traces
        PROVE  q # p
    <3>1. q \in DOMAIN payments /\ payments[q].nonce = NextNonce(q)
      BY <2>4 DEF NextPays, HasNextNonce
    <3>2. NextNonce(p) \in Nat /\ NextNonce(p) > 0
      BY NextNonceType
    <3> QED BY <2>2, <3>1, <3>2
  <2>5. NextPays \subseteq NextPays'
    BY <1>1, <2>3, <2>4 DEF NextPays, HasNextNonce, NextNonce
  <2>6. Tip' = Tip
    BY <1>1 DEF Tip
  <2> QED BY <2>5, <2>6 DEF TipLeft
<1> QED BY <1>2, <1>3, <1>4

LEMMA ApplyMoves ==
    ASSUME MinedOnce, PaymentsInv, NEW b, b.txs \in Seq(DOMAIN payments), NEW verdict,
           Apply(b, verdict), UNCHANGED payments, verdict = "added" => b \notin mineIndex
    PROVE  TipLeft
<1>1. CASE verdict = "added"
  <2>1. mineChain' = Append(mineChain, b) /\ mineChain \in Seq(mineIndex)
    BY <1>1, ApplyFacts, TipIsKnown
  <2>2. Len(mineChain') = Len(mineChain) + 1 /\ mineChain'[Len(mineChain) + 1] = b
    BY <2>1
  <2>3. Tip' = b
    BY <2>2 DEF Tip, Last
  <2> QED BY <1>1, <2>3 DEF TipLeft
<1>2. CASE verdict = "spent"
  <2>1. /\ mineNonces' = Process(b.txs).nonces /\ UNCHANGED mineChain
        /\ traces' = (traces \/ Process(b.txs).mined # {})
    BY <1>2 DEF Apply
  <2>2. Process(b.txs).mined = {} => Process(b.txs).nonces = mineNonces
    BY ProcessType DEF PaymentsInv
  <2>3. NextPays \subseteq NextPays'
    BY <2>1, <2>2 DEF NextPays, HasNextNonce, NextNonce
  <2>4. Tip' = Tip
    BY <2>1 DEF Tip
  <2> QED BY <2>3, <2>4 DEF TipLeft
<1>3. CASE verdict \notin {"added", "spent"}
  BY <1>3, NothingMoves DEF Apply
<1> QED BY <1>1, <1>2, <1>3

LEMMA OthersExtendMoves ==
    ASSUME MinedOnce, NEW txs, NEW time, OthersExtend(txs, time)
    PROVE  TipLeft /\ mineIndex \subseteq mineIndex'
<1>1. PICK b : Verdict(b) = "added" /\ Apply(b, "added")
  BY DEF OthersExtend
<1>2. b \notin mineIndex
  BY <1>1 DEF Verdict, Exists
<1>3. mineChain' = Append(mineChain, b) /\ mineIndex' = mineIndex \cup {b}
  BY <1>1, ApplyFacts
<1>4. Len(mineChain') = Len(mineChain) + 1 /\ mineChain'[Len(mineChain) + 1] = b
  BY <1>3, TipIsKnown
<1>5. Tip' = b
  BY <1>4 DEF Tip, Last
<1> QED BY <1>2, <1>3, <1>5 DEF TipLeft

LEMMA OthersReorganizeMoves ==
    ASSUME MinedOnce, LimitsInv, NEW time, NEW time2, OthersReorganize(time, time2)
    PROVE  TipLeft /\ mineIndex \subseteq mineIndex'
<1>1. PICK b, c : /\ c.id = <<"others", left.others - 1>>
                  /\ mineChain' = Front(mineChain) \o <<b, c>> /\ mineIndex' = mineIndex \cup {b, c}
  <2>1. PICK b, c : IsPair(b, c, time, time2)
    BY OthersPair
  <2> QED BY <2>1 DEF IsPair
<1>2. left.others \in Nat /\ left.others >= 2 /\ Tip.number > 0
  BY DEF OthersReorganize, Spend, MinedOnce, MiningBudgets
<1>3. Len(mineChain) \in Nat /\ Len(mineChain) > 1 /\ mineChain \in Seq(mineIndex)
  <2>1. Tip.number # 0
    BY <1>2
  <2> QED BY <2>1, TipAndHistory, TipIsKnown DEF LimitsInv
<1>4. c \notin mineIndex
  <2>1. left.others - 1 \in Nat /\ left.others - 1 <= left.others
    BY <1>2
  <2> QED BY <1>1, <2>1, FreshOthers DEF MinedOnce
<1>5. Tip' = c
  <2> DEFINE front == Front(mineChain)
             All == mineIndex \cup {b, c}
  <2>1. front \in Seq(mineIndex)
    BY <1>3 DEF Front
  <2>2. front \in Seq(All) /\ b \in All /\ c \in All
    <3> HIDE DEF front
    <3>1. mineIndex \subseteq All
      OBVIOUS
    <3> QED BY <2>1, <3>1, SeqGrows
  <2> HIDE DEF front, All
  <2>3. /\ Len(mineChain') = Len(front) + 2 /\ mineChain'[Len(front) + 2] = c
    BY <1>1, <2>2, ConcatPair DEF front
  <2> QED BY <2>3 DEF Tip, Last
<1> QED BY <1>1, <1>4, <1>5 DEF TipLeft

\* The job of a worker after a step of its own.
LEMMA FreshJob ==
    ASSUME MinedOnce, FreshInv, TipLeft, mineIndex \subseteq mineIndex',
           NEW w \in Worker, NEW job, SetJob(w, job), JobFresh(job, mineIndex, Tip, NextPays)
    PROVE  FreshInv'
<1>1. \A v \in Worker : jobs'[v] = IF v = w THEN job ELSE jobs[v]
  BY DEF SetJob, MinedOnce, JobsOnce
<1>2. \A v \in Worker : JobFresh(jobs'[v], mineIndex, Tip, NextPays)
  BY <1>1 DEF FreshInv
<1>3. \A v \in Worker : JobFresh(jobs'[v], mineIndex', Tip', NextPays')
  BY <1>2, JobFreshStays DEF TipLeft
<1> QED BY <1>3 DEF FreshInv

\* Steps of others.
LEMMA FreshOthersStep ==
    ASSUME FreshInv, TipLeft, mineIndex \subseteq mineIndex', UNCHANGED jobs
    PROVE  FreshInv'
<1>1. \A v \in Worker : JobFresh(jobs[v], mineIndex', Tip', NextPays')
  BY JobFreshStays DEF FreshInv, TipLeft
<1> QED BY <1>1 DEF FreshInv

\* A template, step by step.
LEMMA TemplateFresh ==
    ASSUME MinedOnce, PaymentsInv, FreshInv, NEW w \in Worker,
           \/ ReadTip(w) \/ ReadHistory(w) \/ ReadPool(w) \/ SelectPayment(w) \/ FinishTemplate(w)
    PROVE  \E job : SetJob(w, job) /\ JobFresh(job, mineIndex, Tip, NextPays)
<1>1. JobFresh(jobs[w], mineIndex, Tip, NextPays) /\ "step" \in DOMAIN jobs[w]
  BY DEF FreshInv, MinedOnce, JobsOnce, GoodJob
<1>2. ASSUME NEW job, job.step \in {"history", "pool", "select"}, "parent" \in DOMAIN job,
             job.parent \in mineIndex, job.step = "select" => AllIn(job.txs, NextPays) \/ job.parent # Tip
      PROVE  JobFresh(job, mineIndex, Tip, NextPays)
  BY <1>2 DEF JobFresh, HasBlock, Found
<1>3. CASE ReadTip(w)
  <2>1. PICK job : /\ job.step = "history" /\ "parent" \in DOMAIN job /\ job.parent = Tip
                   /\ SetJob(w, job)
    BY <1>3 DEF ReadTip
  <2> QED BY <1>2, <2>1, TipIsKnown
<1>4. CASE ReadHistory(w)
  <2>1. PICK job : /\ job.step = "pool" /\ "parent" \in DOMAIN job
                   /\ job.parent = jobs[w].parent /\ SetJob(w, job)
    BY <1>4 DEF ReadHistory
  <2> QED BY <1>1, <1>2, <1>4, <2>1 DEF ReadHistory, At, JobFresh
<1>5. CASE ReadPool(w)
  <2>1. PICK job : /\ job.step = "select" /\ "parent" \in DOMAIN job
                   /\ job.parent = jobs[w].parent /\ job.txs = <<>> /\ SetJob(w, job)
    BY <1>5 DEF ReadPool
  <2>2. job.parent \in mineIndex /\ AllIn(job.txs, NextPays)
    BY <1>1, <1>5, <2>1 DEF ReadPool, At, JobFresh, AllIn
  <2> QED BY <1>2, <2>1, <2>2
<1>6. CASE SelectPayment(w)
  <2> DEFINE old == jobs[w]
             p == Head(old.pending)
  <2>1. /\ old.step = "select" /\ old.pending # <<>>
        /\ old.pending \in Seq(DOMAIN payments) /\ old.txs \in Seq(DOMAIN payments)
        /\ {"step", "parent", "pending", "txs"} \subseteq DOMAIN old
        /\ old.parent \in mineIndex /\ (old.parent = Tip => AllIn(old.txs, NextPays))
    BY <1>1, <1>6 DEF SelectPayment, At, PaymentsInv, JobsPay, JobPays, JobFresh
  <2>2. p \in DOMAIN payments
    <3> HIDE DEF old
    <3> QED BY <2>1, HeadAndTail
  <2>3. PICK job :
           /\ SetJob(w, job)
           /\ \/ \E rest : job = [old EXCEPT !.pending = rest]
              \/ /\ HasNextNonce(p)
                 /\ job = [old EXCEPT !.pending = Tail(old.pending), !.txs = Append(old.txs, p)]
    BY <1>6 DEF SelectPayment, IsSelectable
  <2> HIDE DEF old, p
  <2>4. /\ job.step = "select" /\ "parent" \in DOMAIN job /\ job.parent = old.parent
        /\ job.txs = old.txs \/ (HasNextNonce(p) /\ job.txs = Append(old.txs, p))
    BY <2>1, <2>3
  <2>5. HasNextNonce(p) => p \in NextPays
    BY <2>2 DEF NextPays
  <2>6. old.parent = Tip => AllIn(job.txs, NextPays)
    BY <2>1, <2>4, <2>5 DEF AllIn
  <2> QED BY <1>2, <2>1, <2>3, <2>4, <2>6
<1>7. CASE FinishTemplate(w)
  <2> DEFINE parent == jobs[w].parent
             txs == jobs[w].txs
  <2>1. /\ parent \in mineIndex /\ (parent = Tip => AllIn(txs, NextPays))
    BY <1>1, <1>7 DEF FinishTemplate, At, JobFresh
  <2>2. PICK b : /\ {"parent", "number", "time", "txs", "root", "difficulty"} \subseteq DOMAIN b
                 /\ b.parent = parent.id /\ b.number = parent.number + 1
                 /\ b.txs = txs /\ b.root = txs
                 /\ SetJob(w, [step |-> "served", template |-> ServedTemplate(b)])
    BY <1>7 DEF FinishTemplate
  <2> HIDE DEF parent, txs
  <2>4. Built(b, mineIndex, Tip, NextPays)
    BY <2>1, <2>2 DEF Built
  <2>5. Built(ServedTemplate(b), mineIndex, Tip, NextPays)
    <3>1. \A f \in {"parent", "number", "time", "txs", "root", "difficulty"} :
             f \in DOMAIN b => f \in DOMAIN ServedTemplate(b) /\ ServedTemplate(b)[f] = b[f]
      BY DEF ServedTemplate
    <3> QED BY <2>4, <3>1, BuiltKeeps
  <2>6. PICK job : job.step = "served" /\ job.template = ServedTemplate(b) /\ SetJob(w, job)
    BY <2>2
  <2> QED BY <2>5, <2>6 DEF JobFresh, HasBlock, Found
<1> QED BY <1>3, <1>4, <1>5, <1>6, <1>7

\* The miner keeps what it was given.
LEMMA MinerFresh ==
    ASSUME MinedOnce, FreshInv, NEW w \in Worker,
           \/ ReceiveTemplate(w) \/ LoseTemplate(w) \/ CheckHeight(w) \/ CheckBest(w)
           \/ CheckMiningInfo(w) \/ FindBlock(w) \/ ExpireTemplate(w) \/ TryAgain(w) \/ Answered(w)
    PROVE  \E job : SetJob(w, job) /\ JobFresh(job, mineIndex, Tip, NextPays)
<1> DEFINE Fresh(job) == JobFresh(job, mineIndex, Tip, NextPays)
           IsBuilt(b) == Built(b, mineIndex, Tip, NextPays)
<1>1. Fresh(jobs[w]) /\ "step" \in DOMAIN jobs[w] /\ (HasBlock(jobs[w]) => "block" \in DOMAIN jobs[w])
  BY DEF FreshInv, MinedOnce, JobsOnce, GoodJob
<1>2. \A job : job.step = "rest" => Fresh(job)
  BY DEF JobFresh, HasBlock, Found
<1>3. \A job : job.step \in {"height", "best", "info", "search"} /\ IsBuilt(job.block) => Fresh(job)
  BY DEF JobFresh, HasBlock, Found
<1>4. \A job : job.step = "submit" /\ IsBuilt(job.block) /\ HasTarget(job.block.difficulty) => Fresh(job)
  BY DEF JobFresh, HasBlock, Found
<1>5. HasBlock(jobs[w]) => IsBuilt(jobs[w].block)
  BY <1>1 DEF JobFresh
<1>6. CASE SetJob(w, [step |-> "rest"])
  <2>1. PICK job : job.step = "rest" /\ SetJob(w, job)
    BY <1>6
  <2> QED BY <1>2, <2>1
<1> SUFFICES ASSUME ~SetJob(w, [step |-> "rest"])
             PROVE  \E job : SetJob(w, job) /\ Fresh(job)
  BY <1>6
<1>7. ~Rest(w)
  BY DEF Rest
<1>8. CASE ReceiveTemplate(w)
  <2>1. PICK t, job : /\ t = jobs[w].template /\ job.step = "height"
                      /\ job.block = BlockFromTemplate(t) /\ SetJob(w, job)
    BY <1>8 DEF ReceiveTemplate
  <2>2. IsBuilt(t)
    BY <1>1, <1>8, <2>1 DEF ReceiveTemplate, At, JobFresh
  <2>3. \A f \in {"parent", "number", "time", "txs", "root", "difficulty"} :
           f \in DOMAIN t => f \in DOMAIN BlockFromTemplate(t) /\ BlockFromTemplate(t)[f] = t[f]
    BY DEF BlockFromTemplate
  <2>4. IsBuilt(BlockFromTemplate(t))
    BY <2>2, <2>3, BuiltKeeps
  <2> QED BY <1>3, <2>1, <2>4
<1>9. ASSUME NEW next \in {"best", "info"}, NEW stale, HasBlock(jobs[w]), Pass(w, next, stale)
      PROVE  \E job : SetJob(w, job) /\ Fresh(job)
  <2> DEFINE old == jobs[w]
             new == [old EXCEPT !.step = next]
  <2>1. SetJob(w, new)
    BY <1>7, <1>9 DEF Pass
  <2>2. "step" \in DOMAIN old /\ "block" \in DOMAIN old /\ IsBuilt(old.block)
    BY <1>1, <1>5, <1>9
  <2> HIDE DEF old
  <2>3. new.step = next /\ new.block = old.block
    BY <2>2
  <2> HIDE DEF new, Fresh, IsBuilt
  <2>4. Fresh(new)
    BY <1>3, <2>2, <2>3
  <2> QED BY <2>1, <2>4
<1>10. CASE CheckHeight(w) \/ CheckBest(w)
  <2>1. HasBlock(jobs[w])
    BY <1>10 DEF CheckHeight, CheckBest, At, HasBlock
  <2> QED BY <1>9, <1>10, <2>1 DEF CheckHeight, CheckBest
<1>11. CASE CheckMiningInfo(w)
  <2>1. PICK job : SetJob(w, job) /\ job.block = jobs[w].block /\ job.step = "search"
    BY <1>7, <1>11 DEF CheckMiningInfo
  <2>2. HasBlock(jobs[w])
    BY <1>11 DEF CheckMiningInfo, At, HasBlock
  <2> QED BY <1>3, <1>5, <2>1, <2>2
<1>12. CASE FindBlock(w)
  <2> DEFINE found == [step |-> "submit", tries |-> MaxTries,
                       block |-> [jobs[w].block EXCEPT !.id = <<"miner", left.found>>]]
  <2>1. PICK b, id, job : /\ b = jobs[w].block /\ SetJob(w, job) /\ job.step = "submit"
                          /\ job.block = [b EXCEPT !.id = id]
    <3>1. SetJob(w, found)
      BY <1>12 DEF FindBlock
    <3>2. /\ found.step = "submit"
          /\ found.block = [jobs[w].block EXCEPT !.id = <<"miner", left.found>>]
      OBVIOUS
    <3> HIDE DEF found
    <3> QED BY <3>1, <3>2
  <2>2. IsBuilt(b) /\ HasTarget(b.difficulty)
    BY <1>5, <1>12, <2>1 DEF FindBlock, At, HasBlock
  <2>3. \A f \in {"parent", "number", "time", "txs", "root", "difficulty"} :
           f \in DOMAIN b => f \in DOMAIN job.block /\ job.block[f] = b[f]
    BY <2>1
  <2>4. IsBuilt(job.block) /\ HasTarget(job.block.difficulty)
    BY <2>2, <2>3, BuiltKeeps
  <2> QED BY <1>4, <2>1, <2>4
<1>13. CASE TryAgain(w)
  <2>1. Found(jobs[w])
    BY <1>13 DEF TryAgain, At, Found
  <2>2. PICK job : SetJob(w, job) /\ job.block = jobs[w].block /\ job.step = "submit"
    BY <1>13 DEF TryAgain
  <2>3. HasTarget(jobs[w].block.difficulty) /\ HasBlock(jobs[w])
    BY <1>1, <2>1 DEF JobFresh, HasBlock
  <2> QED BY <1>4, <1>5, <2>2, <2>3
<1> QED BY <1>7, <1>8, <1>10, <1>11, <1>12, <1>13 DEF LoseTemplate, ExpireTemplate, Answered

\* What is submitted.
LEMMA SubmitFacts ==
    ASSUME MinedOnce, PaymentsInv, FreshInv, NEW w \in Worker, Submit(w)
    PROVE  \E b, verdict, job :
              /\ b = jobs[w].block /\ verdict = handleRequest(b) /\ Apply(b, verdict)
              /\ job.step = "answer" /\ job.block = b /\ SetJob(w, job)
              /\ b.txs \in Seq(DOMAIN payments) /\ HasTarget(b.difficulty)
              /\ Built(b, mineIndex, Tip, NextPays)
<1>1. Found(jobs[w]) /\ HasBlock(jobs[w])
  BY DEF Submit, At, Found, HasBlock
<1>2. parseBlockData(SentBlock(jobs[w].block)) = jobs[w].block
  BY <1>1, ParsedIsFaithful DEF MinedOnce, JobsOnce, GoodJob
<1>3. PICK b, verdict, job :
         /\ b = jobs[w].block /\ verdict = handleRequest(b) /\ Apply(b, verdict)
         /\ job.step = "answer" /\ job.block = b /\ SetJob(w, job)
  BY <1>2 DEF Submit
<1>4. b.txs \in Seq(DOMAIN payments)
  BY <1>1, <1>3 DEF PaymentsInv, JobsPay, JobPays
<1>5. HasTarget(b.difficulty) /\ Built(b, mineIndex, Tip, NextPays)
  BY <1>1, <1>3 DEF FreshInv, JobFresh
<1> QED BY <1>3, <1>4, <1>5

LEMMA SubmitFresh ==
    ASSUME MinedOnce, PaymentsInv, FreshInv, NEW w \in Worker, Submit(w)
    PROVE  FreshInv'
<1>1. PICK b, verdict, job :
         /\ b = jobs[w].block /\ verdict = handleRequest(b) /\ Apply(b, verdict)
         /\ job.step = "answer" /\ job.block = b /\ SetJob(w, job)
         /\ b.txs \in Seq(DOMAIN payments) /\ HasTarget(b.difficulty)
         /\ Built(b, mineIndex, Tip, NextPays)
  BY SubmitFacts
<1>2. UNCHANGED payments
  BY DEF Submit
<1>3. JobFresh(job, mineIndex, Tip, NextPays)
  BY <1>1 DEF JobFresh
<1>4. verdict = "added" => b \notin mineIndex
  BY <1>1 DEF handleRequest, Verdict, Exists
<1>5. TipLeft
  BY <1>1, <1>2, <1>4, ApplyMoves
<1>6. mineIndex \subseteq mineIndex'
  BY <1>1, ApplyFacts
<1> QED BY <1>1, <1>3, <1>5, <1>6, FreshJob

LEMMA FreshStep ==
    ASSUME MinedOnce, PaymentsInv, LimitsInv, FreshInv, [MiningNext]_miningVars
    PROVE  FreshInv'
<1>1. mineIndex \subseteq mineIndex'
  BY IndexOnlyGrows
<1>4. CASE UNCHANGED miningVars
  <2>1. UNCHANGED <<mineChain, mineIndex, mineNonces, payments, traces, jobs>>
    BY <1>4 DEF miningVars, nodeVars
  <2> QED BY <1>1, <2>1, NothingMoves, FreshOthersStep
<1>5. ASSUME NEW p \in PayId,
             \/ \E coin \in Coin : SelectCoin(p, coin)
             \/ ReadNonce(p) \/ handleSendTransaction(p) \/ AddTransactionToMempool(p)
      PROVE  FreshInv'
  <2>1. UNCHANGED jobs
    BY <1>5 DEF SelectCoin, ReadNonce, handleSendTransaction, AddTransactionToMempool
  <2>2. TipLeft
    BY <1>5, PaymentMoves
  <2> QED BY <1>1, <2>1, <2>2, FreshOthersStep
<1>6. ASSUME NEW txs, NEW time, OthersExtend(txs, time)
      PROVE  FreshInv'
  <2>1. UNCHANGED jobs
    BY <1>6 DEF OthersExtend
  <2> QED BY <1>6, <2>1, OthersExtendMoves, FreshOthersStep
<1>7. ASSUME NEW time, NEW time2, OthersReorganize(time, time2)
      PROVE  FreshInv'
  <2>1. UNCHANGED jobs
    BY <1>7 DEF OthersReorganize
  <2> QED BY <1>7, <2>1, OthersReorganizeMoves, FreshOthersStep
<1>8. ASSUME NEW w \in Worker,
             \/ ReadTip(w) \/ ReadHistory(w) \/ ReadPool(w) \/ SelectPayment(w) \/ FinishTemplate(w)
             \/ ReceiveTemplate(w) \/ LoseTemplate(w) \/ CheckHeight(w) \/ CheckBest(w)
             \/ CheckMiningInfo(w) \/ FindBlock(w) \/ ExpireTemplate(w) \/ TryAgain(w) \/ Answered(w)
      PROVE  FreshInv'
  <2>1. UNCHANGED <<mineChain, mineNonces, payments, traces>>
    BY <1>8
       DEF ReadTip, ReadHistory, ReadPool, SelectPayment, FinishTemplate, ReceiveTemplate,
           LoseTemplate, CheckHeight, CheckBest, CheckMiningInfo, FindBlock, ExpireTemplate,
           TryAgain, Answered, Pass, Rest, OnlyJobs, nodeVars
  <2>2. PICK job : SetJob(w, job) /\ JobFresh(job, mineIndex, Tip, NextPays)
    BY <1>8, TemplateFresh, MinerFresh
  <2> QED BY <1>1, <2>1, <2>2, NothingMoves, FreshJob
<1>9. ASSUME NEW w \in Worker, Submit(w)
      PROVE  FreshInv'
  BY <1>9, SubmitFresh
<1>10. ASSUME NEW delay \in Delays, Tick(delay)
       PROVE  FreshInv'
  <2>1. UNCHANGED <<mineChain, mineNonces, payments, traces, jobs>>
    BY <1>10 DEF Tick, nodeVars
  <2> QED BY <1>1, <2>1, NothingMoves, FreshOthersStep
<1> QED BY <1>4, <1>5, <1>6, <1>7, <1>8, <1>9, <1>10 DEF MiningNext

\* What a worker read while the tip was what it is now still holds of the tip: the inductive
\* invariant behind FreshBlockIsAdded.
THEOREM FreshInvHolds == MiningSpec => []FreshInv
<1>1. MiningInit => FreshInv
  BY DEF MiningInit, FreshInv, JobFresh, HasBlock, Found
<1>2. MinedOnce /\ PaymentsInv /\ LimitsInv /\ FreshInv /\ [MiningNext]_miningVars => FreshInv'
  BY FreshStep
<1> QED BY <1>1, <1>2, MinedOnceHolds, PaymentsInvHolds, LimitsInvHolds, PTL DEF MiningSpec

\* A block with the tip for its parent passes every test of addBlockV2, but for those that the
\* property names.
LEMMA FreshIsAdded ==
    ASSUME MinedOnce, LimitsInv, NEW b, Built(b, mineIndex, Tip, NextPays),
           HasTarget(b.difficulty), b.parent = Tip.id, ~Exists(b), b.time >= Tip.time,
           b.difficulty = ExpectedDifficulty(b.number, Tip.difficulty, History, clock),
           SpendsWhatIsThere(b), ~traces
    PROVE  Verdict(b) = "added"
<1>1. PICK p \in mineIndex : /\ b.parent = p.id /\ b.number = p.number + 1
                             /\ p = Tip => AllIn(b.txs, NextPays)
  BY DEF Built
<1>2. Tip \in mineIndex /\ Tip.number \in Nat
  BY TipIsKnown DEF LimitsInv, BlocksInLimits, InLimits
<1>3. p = Tip
  BY <1>1, <1>2 DEF MinedOnce, IndexOnce
<1>4. b.number # Tip.number
  BY <1>1, <1>2, <1>3
<1>5. Tip \in ParentFor(b)
  BY <1>2, <1>4 DEF ParentFor
<1>6. HasRoot(b) /\ \A i \in DOMAIN b.txs : HasNextNonce(b.txs[i])
  BY <1>1, <1>3 DEF HasRoot, Built, AllIn, NextPays
<1>7. IsValidBlock(b)
  BY <1>1, <1>3, <1>5, <1>6 DEF IsValidBlock
<1> QED BY <1>4, <1>7 DEF Verdict, IsForkBlock, SpendsWhatIsThere

\* A block whose parent is still the tip when it is submitted is added, but for the limit, a
\* parent from a clock ahead of the node's, the difficulty, what payments spend, and traces
\* of a refused block (CreateNewBlockV2, blockchain.go:2130; addBlockV2), for any clocks of
\* other miners.
THEOREM FreshBlockIsAddedHolds == MiningSpec => FreshBlockIsAdded
<1> DEFINE Added == \A w \in Worker :
                       LET b == jobs[w].block
                       IN  /\ At(w, "submit") /\ jobs'[w].step = "answer" /\ ~Limited
                           /\ b.parent = Tip.id /\ ~Exists(b) /\ b.time >= Tip.time
                           /\ b.difficulty = ExpectedDifficulty(b.number, Tip.difficulty, History, clock)
                           /\ SpendsWhatIsThere(b) /\ ~traces
                           => mineChain' = Append(mineChain, b)
<1>1. MinedOnce /\ PaymentsInv /\ LimitsInv /\ FreshInv /\ [MiningNext]_miningVars => [Added]_miningVars
  <2> SUFFICES ASSUME MinedOnce, PaymentsInv, LimitsInv, FreshInv, MiningNext,
                      NEW w \in Worker, NEW b, b = jobs[w].block,
                      At(w, "submit"), jobs'[w].step = "answer", ~Limited,
                      b.parent = Tip.id, ~Exists(b), b.time >= Tip.time,
                      b.difficulty = ExpectedDifficulty(b.number, Tip.difficulty, History, clock),
                      SpendsWhatIsThere(b), ~traces
               PROVE  mineChain' = Append(mineChain, b)
    OBVIOUS
  <2>1. \A job : SetJob(w, job) => jobs'[w] = job
    BY DEF SetJob, MinedOnce, JobsOnce
  <2>2. \A v \in Worker \ {w} : \A job : SetJob(v, job) => jobs'[w] = jobs[w]
    BY DEF SetJob, MinedOnce, JobsOnce
  <2>3. CASE Submit(w)
    <3>1. PICK verdict :
             /\ verdict = handleRequest(b) /\ Apply(b, verdict)
             /\ HasTarget(b.difficulty) /\ Built(b, mineIndex, Tip, NextPays)
      BY <2>3, SubmitFacts
    <3>2. Verdict(b) = "added"
      BY <3>1, FreshIsAdded
    <3>3. verdict = "added"
      BY <3>1, <3>2 DEF handleRequest
    <3> QED BY <3>1, <3>3, ApplyFacts
  <2>4. CASE ~Submit(w)
    <3>1. UNCHANGED jobs => FALSE
      BY DEF At
    <3>2. ASSUME NEW v \in Worker \ {w}, NEW job, SetJob(v, job)
          PROVE  FALSE
      BY <2>2, <3>2 DEF At
    <3>3. ASSUME NEW v \in Worker,
                 \/ ReadTip(v) \/ ReadHistory(v) \/ ReadPool(v) \/ SelectPayment(v)
                 \/ FinishTemplate(v) \/ ReceiveTemplate(v) \/ LoseTemplate(v)
                 \/ CheckHeight(v) \/ CheckBest(v) \/ CheckMiningInfo(v)
                 \/ FindBlock(v) \/ ExpireTemplate(v) \/ TryAgain(v) \/ Answered(v) \/ Submit(v)
          PROVE  FALSE
      <4>1. \E job : SetJob(v, job)
        BY <3>3
           DEF ReadTip, ReadHistory, ReadPool, SelectPayment, FinishTemplate, ReceiveTemplate,
               LoseTemplate, CheckHeight, CheckBest, CheckMiningInfo, FindBlock, ExpireTemplate,
               TryAgain, Answered, Submit, Pass, Rest
      <4>2. v = w
        BY <3>2, <4>1
      <4>3. TryAgain(w) \/ Answered(w)
        BY <2>4, <3>3, <4>2
           DEF At, ReadTip, ReadHistory, ReadPool, SelectPayment, FinishTemplate, ReceiveTemplate,
               LoseTemplate, CheckHeight, CheckBest, CheckMiningInfo, FindBlock, ExpireTemplate
      <4>4. TryAgain(w)
        BY <4>3 DEF Answered, At
      <4>5. PICK job : SetJob(w, job) /\ job.step \in {"rest", "submit"}
        BY <4>4 DEF TryAgain
      <4> QED BY <2>1, <4>5
    <3>4. UNCHANGED jobs \/ \E v \in Worker :
                 \/ ReadTip(v) \/ ReadHistory(v) \/ ReadPool(v) \/ SelectPayment(v)
                 \/ FinishTemplate(v) \/ ReceiveTemplate(v) \/ LoseTemplate(v)
                 \/ CheckHeight(v) \/ CheckBest(v) \/ CheckMiningInfo(v)
                 \/ FindBlock(v) \/ ExpireTemplate(v) \/ TryAgain(v) \/ Answered(v) \/ Submit(v)
      BY DEF MiningNext, SelectCoin, ReadNonce, handleSendTransaction, AddTransactionToMempool, OthersExtend, OthersReorganize, Tick
    <3> QED BY <3>1, <3>3, <3>4
  <2> QED BY <2>3, <2>4
<1>2. [][Added]_miningVars => FreshBlockIsAdded
  BY DEF FreshBlockIsAdded
<1> QED BY <1>1, <1>2, MinedOnceHolds, PaymentsInvHolds, LimitsInvHolds, FreshInvHolds, PTL DEF MiningSpec
=============================================================================
