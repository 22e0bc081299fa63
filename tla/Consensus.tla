----------------------------- MODULE Consensus -----------------------------
(***************************************************************************)
(* Difficulty and rewards (core/consensus.go, core/types.go) as functions. *)
(* Factors that the code keeps as floating-point numbers are fractions     *)
(* here, rounded down where the code converts to uint64.                   *)
(***************************************************************************)
EXTENDS Integers, Sequences, SequencesExt, FiniteSetsExt

CONSTANTS Difficulty,      \* genesis.Difficulty, zero for a limit that is not configured
          BlockTimeTarget, \* in units of time, of a second or more each
          StuckWait,       \* five minutes
          TimeoutWait,     \* ten minutes
          Reward,          \* of a block, during the launch guard and at first, and halvings
          NetworkFee,      \* percentages of genesis.NetworkFee
          HasTreasury      \* genesis.TreasuryAddress is not empty

ASSUME ConsensusAssumption ==
    /\ Difficulty \in [initial : Nat, min : Nat, max : Nat, adjustPct : Nat, window : Nat,
                       guardBlocks : Nat, guardDifficulty : Nat]
    /\ BlockTimeTarget \in Nat \ {0}
    /\ StuckWait \in Nat /\ TimeoutWait \in Nat
    /\ 2 * BlockTimeTarget < StuckWait /\ StuckWait < TimeoutWait
    /\ Reward \in [guard : Nat, initial : Nat, halvings : Seq([after : Nat, pct : 0..100])]
    /\ NetworkFee \in [blockFeePct : 0..100, treasuryPct : 0..100]
    /\ HasTreasury \in BOOLEAN

-----------------------------------------------------------------------------
(* CalculateDifficulty. *)

AtLeast(a, b) == IF a < b THEN b ELSE a
AtMost(a, b) == IF a > b THEN b ELSE a

\* (mutant) The floor is left to the calculation from the averages.
QuickAdjustedNoFloor(parent, wait) == AtLeast(parent \div 2, 1)

\* Time since the last block is more than two targets, so that the factor, the target
\* over this time, is always raised to one half.
QuickAdjusted(parent, wait) ==
    LET halved == parent \div 2
    IN  IF Difficulty.min = 0 THEN halved
        ELSE IF wait > StuckWait /\ parent = Difficulty.min THEN AtLeast(halved, 1)
        ELSE AtLeast(halved, Difficulty.min)

\* Times that lie at least a unit after the one before them, and the first.
Filtered(times) ==
    LET kept == {i \in DOMAIN times : i = 1 \/ times[i] > times[i - 1]}
    IN  [k \in 1..Cardinality(kept) |->
            times[CHOOSE i \in kept : Cardinality({j \in kept : j <= i}) = k]]

Capped(d) ==
    LET atMost == IF Difficulty.max > 0 THEN AtMost(d, Difficulty.max) ELSE d
    IN  AtLeast(AtLeast(atMost, 1), Difficulty.min)

\* The intervals between the blocks, weighted by position.
Intervals(times) == MapThenSumSet(LAMBDA i : i * (times[i] - times[i - 1]), 2..Len(times))

\* The factor is the target over the average interval and stays within the limits of a
\* block: parent * target * weights / intervals.
LinearWeighted(parent, times) ==
    LET n == Len(times)
        weights == (n * (n + 1)) \div 2
        intervals == Intervals(times)
        least == AtLeast(100 - Difficulty.adjustPct, 50)
        most == AtMost(100 + Difficulty.adjustPct, 200)
        target == BlockTimeTarget * weights
    IN  Capped(IF 100 * target > most * intervals THEN (parent * most) \div 100
               ELSE IF 100 * target < least * intervals THEN (parent * least) \div 100
               ELSE (parent * target) \div intervals)

\* history holds the times of the last blocks of the main chain, now is the time at
\* which the function is called.
CalculateDifficulty(height, parent, history, now) ==
    LET wait == now - history[Len(history)]
        times == Filtered(Append(history, now))
    IN  IF height = 0 THEN Difficulty.initial
        ELSE IF height < Difficulty.guardBlocks THEN Difficulty.guardDifficulty
        ELSE IF height < Difficulty.window \/ history = <<>> THEN parent
        ELSE IF wait > TimeoutWait THEN Difficulty.initial
        ELSE IF wait > 2 * BlockTimeTarget THEN QuickAdjusted(parent, wait)
        ELSE IF Len(history) < 2 \/ Len(times) < 2 THEN parent
        ELSE LinearWeighted(parent, times)

\* validateBlockV2WithParent brings what it expects into the configured range.
ExpectedDifficulty(height, parent, history, now) ==
    LET calculated == CalculateDifficulty(height, parent, history, now)
    IN  IF Difficulty.min > 0 /\ Difficulty.max > 0
        THEN IF calculated > Difficulty.max THEN Difficulty.max
             ELSE AtLeast(calculated, Difficulty.min)
        ELSE calculated

\* The target 1 << (64 - difficulty), in 64 bits, is zero outside this range, and no
\* hash is below it; the miner and ValidateProofOfWorkV2 compute the same one.
HasTarget(difficulty) == difficulty \in 1..64

-----------------------------------------------------------------------------
(* GetCurrentReward and CalculateNetworkFees, in the smallest unit; seeds is the    *)
(* number of eligible seed nodes, the first of which gets the remainder.            *)

Percent(amount, pct) == (amount * pct) \div 100

GetCurrentReward(height) ==
    IF height < Difficulty.guardBlocks THEN Reward.guard
    ELSE FoldLeft(LAMBDA reward, halving : IF height < halving.after THEN reward
                                           ELSE Percent(reward, halving.pct),
                  Reward.initial, Reward.halvings)

SeedShare == 80

CalculateNetworkFees(reward, fees, seeds) ==
    LET fromBlock == Percent(reward, NetworkFee.blockFeePct)
        fromFees == Percent(fees, NetworkFee.treasuryPct)
        forSeeds == Percent(fees, SeedShare)
        each == IF seeds > 0 THEN forSeeds \div seeds ELSE 0
    IN  [miner |-> reward - fromBlock,
         treasury |-> fromBlock + fromFees + (IF seeds = 0 THEN forSeeds ELSE 0),
         first |-> IF seeds > 0 THEN each + (forSeeds % seeds) ELSE 0,
         each |-> each]

\* The treasury's part is paid to nobody if it has no address.
Withheld(reward, fees, seeds) ==
    IF HasTreasury THEN 0 ELSE CalculateNetworkFees(reward, fees, seeds).treasury

\* What the reward transactions of a block pay out.
PaidOut(reward, fees, seeds) ==
    LET dist == CalculateNetworkFees(reward, fees, seeds)
        treasury == IF HasTreasury THEN dist.treasury ELSE 0
    IN  dist.miner + treasury + dist.first + (seeds - 1) * dist.each
=============================================================================
