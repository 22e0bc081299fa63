------------------------------ MODULE Mempool ------------------------------
(***************************************************************************)
(* core/blockchain.go, type Mempool: the pending transactions of a node.   *)
(*                                                                         *)
(* The pool has a mutex of its own, so each method is one step.  When the  *)
(* pool is at a limit AddTransaction first drops a transaction of lowest   *)
(* fee; Go's map order decides which one when several share that fee.      *)
(***************************************************************************)
EXTENDS Integers, FiniteSets

CONSTANTS Tx,          \* transactions, by hash
          Fee,         \* [Tx -> Nat]
          Size,        \* [Tx -> Nat], estimateTransactionSize
          MaxFee,      \* the largest uint64: never below the running minimum
          MaxSize,     \* maxSize, in transactions
          MaxMemory    \* maxMemoryMB, in the unit of Size

ASSUME MempoolAssumption ==
    /\ MaxSize \in Nat \ {0} /\ MaxMemory \in Nat \ {0} /\ MaxFee \in Nat
    /\ Fee \in [Tx -> 0..MaxFee]
    /\ Size \in [Tx -> Nat]

VARIABLE transactions  \* the keys of the map

-----------------------------------------------------------------------------
\* The transactions removeLowestFeeTransaction may pick.  Its running minimum
\* starts at MaxFee and is replaced only by a smaller fee.
LowestFee(pool) ==
    {t \in pool : Fee[t] < MaxFee /\ \A u \in pool : Fee[t] <= Fee[u]}

\* The pools removeLowestFeeTransaction can leave; {} when it removes nothing.
RemoveLowestFee(pool) == {pool \ {t} : t \in LowestFee(pool)}

AtSizeLimit(pool) == Cardinality(pool) >= MaxSize

\* The estimate multiplies the number of pending transactions by the size of
\* the one being added, and is not made for an empty pool.
AtMemoryLimit(pool, t) ==
    pool # {} /\ Cardinality(pool) * Size[t] >= MaxMemory

\* (mutant) The number of transactions is not checked.
NoSizeCheck(pool) == {pool}

\* The pools the size check can leave; {} when it returns "mempool is full".
AfterSizeCheck(pool) ==
    IF AtSizeLimit(pool) THEN RemoveLowestFee(pool) ELSE {pool}

\* Likewise for the memory check that follows it.
AfterMemoryCheck(pool, t) ==
    IF AtMemoryLimit(pool, t) THEN RemoveLowestFee(pool) ELSE {pool}

\* What can come of AddTransaction(t): already pending, stored, or refused; a
\* refusal by the memory check keeps the removal the size check made.
AfterAdd(pool, t) ==
    IF t \in pool THEN {pool}
    ELSE IF AfterSizeCheck(pool) = {} THEN {pool}
    ELSE UNION {IF AfterMemoryCheck(p, t) = {} THEN {p}
                ELSE {q \cup {t} : q \in AfterMemoryCheck(p, t)} : p \in AfterSizeCheck(pool)}

AddTransaction(t) == transactions' \in AfterAdd(transactions, t)

RemoveTransaction(t) == transactions' = transactions \ {t}

=============================================================================
