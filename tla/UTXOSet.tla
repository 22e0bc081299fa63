------------------------------ MODULE UTXOSet ------------------------------
(***************************************************************************)
(* core/utxo.go: the map from output keys to unspent-or-spent outputs.     *)
(*                                                                         *)
(* An output key stands for the pair (transaction hash, index) that GetKey *)
(* encodes.  Every method takes the set's own mutex for its whole body, so *)
(* each is one atomic function from map to map.  Owner and amount are      *)
(* fixed by the key; Spent and BlockHash are the fields that change.       *)
(***************************************************************************)
EXTENDS BlockTree

CONSTANT OutPoint   \* output keys

UTXO == [spent : BOOLEAN, block : Block]

\* A Go map: a function on the keys present.
IsUTXOMap(us) == /\ DOMAIN us \subseteq OutPoint
                 /\ us \in [DOMAIN us -> UTXO]

NewUTXOSet == [o \in {} |-> [spent |-> FALSE, block |-> o]]

\* GetUTXOs and SpendUTXO ask the same: the key is there and not spent.
Unspent(us, o) == o \in DOMAIN us /\ ~us[o].spent

\* AddUTXO for all the outputs of one transaction; an existing entry is
\* overwritten, spent or not.
AddUTXOs(us, S, b) ==
    [o \in DOMAIN us \cup S |->
        IF o \in S THEN [spent |-> FALSE, block |-> b] ELSE us[o]]

\* SpendUTXO of every key of S, all of which are Unspent.
SpendUTXOs(us, S) ==
    [o \in DOMAIN us |-> IF o \in S THEN [us[o] EXCEPT !.spent = TRUE] ELSE us[o]]

\* RestoreUTXO of every key of S that is present.
RestoreUTXOs(us, S) ==
    [o \in DOMAIN us |-> IF o \in S THEN [us[o] EXCEPT !.spent = FALSE] ELSE us[o]]

\* RemoveUTXOs: drop what block b created.
RemoveUTXOs(us, b) == [o \in {x \in DOMAIN us : us[x].block # b} |-> us[o]]
=============================================================================
