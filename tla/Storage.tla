------------------------------ MODULE Storage ------------------------------
(***************************************************************************)
(* storage/leveldb.go: the keys block_hash_*, block_number_* and           *)
(* best_block, and StoreBlock, which writes them with one Put each.  The   *)
(* database locks single Gets and Puts only, so the StoreBlock calls of    *)
(* several goroutines interleave.  A goroutine stores the blocks of its    *)
(* queue one after the other and goes on when one of them fails.           *)
(***************************************************************************)
EXTENDS BlockTree

CONSTANT NoBlock      \* the key best_block is not there

ASSUME NoBlockAssumption == NoBlock \notin Block

VARIABLES byHash,     \* blocks under block_hash_*
          byNumber,   \* block_number_n, as a function on the n that are there
          best,       \* the block best_block names
          storing     \* what each storing goroutine has left to do

diskVars == <<byHash, byNumber, best>>

\* A goroutine: the blocks it still stores, the next step for the first of
\* them and the number of the best block it read.
Job(queue) == [queue |-> queue, step |-> "hash", seen |-> 0]

\* The function f with v at key k.
Put(f, k, v) == [x \in DOMAIN f \cup {k} |-> IF x = k THEN v ELSE f[x]]

StorageInit == byHash = {} /\ byNumber = <<>> /\ best = NoBlock /\ storing = <<>>

\* (mutant) The key by number is not overwritten.
FirstByNumber(b) == IF Number(b) \in DOMAIN byNumber THEN byNumber ELSE Put(byNumber, Number(b), b)

ByNumber(b) == Put(byNumber, Number(b), b)

\* (mutant) best_block lags one block behind.
MuchHigher(b, seen) == Number(b) > seen + 1

IsHigher(b, seen) == Number(b) > seen

\* (mutant) best_block is written before the block itself.
BestFirst(step) ==
    CASE step = "hash" -> "read" [] step = "read" -> "best" [] step = "number" -> "best"

NextStep(step) == CASE step = "hash" -> "number" [] step = "number" -> "read" [] step = "read" -> "best"

\* (mutant) The loop does not end after the last block.
AlwaysNext(c) == Put(storing, c, Job(Tail(storing[c].queue)))

\* Goroutine c goes on to its next block, or is done.
NextBlock(c) ==
    IF Len(storing[c].queue) > 1
    THEN Put(storing, c, Job(Tail(storing[c].queue)))
    ELSE Restrict(storing, DOMAIN storing \ {c})

Step(c, seen) ==
    Put(storing, c, [queue |-> storing[c].queue, step |-> NextStep(storing[c].step),
                     seen  |-> seen])

PutHash(c) ==
    /\ storing[c].step = "hash"
    /\ byHash' = byHash \cup {Head(storing[c].queue)}
    /\ storing' = Step(c, 0)
    /\ UNCHANGED <<byNumber, best>>

PutNumber(c) ==
    /\ storing[c].step = "number"
    /\ byNumber' = ByNumber(Head(storing[c].queue))
    /\ storing' = Step(c, 0)
    /\ UNCHANGED <<byHash, best>>

\* GetBestBlock, which counts as number zero when it finds nothing.
ReadBest(c) ==
    /\ storing[c].step = "read"
    /\ storing' = Step(c, IF best \in byHash THEN Number(best) ELSE 0)
    /\ UNCHANGED diskVars

PutBest(c) ==
    /\ storing[c].step = "best"
    /\ LET b == Head(storing[c].queue)
       IN  best' = IF IsHigher(b, storing[c].seen) THEN b ELSE best
    /\ storing' = NextBlock(c)
    /\ UNCHANGED <<byHash, byNumber>>

StoreStep(c) == PutHash(c) \/ PutNumber(c) \/ ReadBest(c) \/ PutBest(c)

\* A Put fails: StoreBlock returns its error, which the caller logs.
PutFails(c) ==
    /\ storing[c].step # "read"
    /\ storing' = NextBlock(c)
    /\ UNCHANGED diskVars

\* A Get fails: the error is dropped and the number counts as zero.
GetFails(c) ==
    /\ storing[c].step = "read"
    /\ storing' = Step(c, 0)
    /\ UNCHANGED diskVars
=============================================================================
