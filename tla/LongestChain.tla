---------------------------- MODULE LongestChain ----------------------------
(***************************************************************************)
(* What BlockchainV2 promises to the readers of its main chain: a node     *)
(* learns blocks parent first, and its main chain is always the path of a  *)
(* known block, is only ever replaced by a longer one, and below its last  *)
(* block it is never rewritten.  The promise ends when the transactions of *)
(* a block are refused, since the code then leaves the work half done.     *)
(*                                                                         *)
(* Blockchain implements this module (run chain, theorem                   *)
(* ImplementsLongestChain).                                                *)
(***************************************************************************)
EXTENDS SequencesExt, Integers

CONSTANTS Block, Genesis,
          Path          \* [Block -> Seq(Block)]: from Genesis to the block

VARIABLES known,        \* blocks learnt
          chain,        \* the main chain
          sound         \* no block's transactions were refused so far

vars == <<known, chain, sound>>

Init == known = {Genesis} /\ chain = <<Genesis>> /\ sound = TRUE

Learn(b) ==
    /\ b \notin known
    /\ ToSet(Front(Path[b])) \subseteq known
    /\ known' = known \cup {b}
    /\ UNCHANGED <<chain, sound>>

\* The main chain becomes the longer chain of b and keeps all but its last block.
Adopt(b) ==
    /\ b \in known
    /\ Len(Path[b]) > Len(chain)
    /\ SubSeq(Path[b], 1, Len(chain) - 1) = Front(chain)
    /\ chain' = Path[b]
    /\ UNCHANGED <<known, sound>>

Refuse == sound /\ sound' = FALSE

Next == \/ sound /\ \E b \in Block : Learn(b) \/ Adopt(b)
        \/ Refuse
        \/ ~sound /\ sound' = sound

Spec == Init /\ [][Next]_vars
=============================================================================
