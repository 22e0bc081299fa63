----------------------------- MODULE LedgerProofs -----------------------------
(***************************************************************************)
(* With one caller at a time and no refused block, the UTXO set and the    *)
(* nonces that Blockchain maintains step by step are those a replay of the *)
(* main chain gives, and nothing is spent twice.                           *)
(***************************************************************************)
EXTENDS BlockchainProofs

-----------------------------------------------------------------------------
(* Places *)

LEMMA PlaceFacts ==
    ASSUME NEW B, NEW p \in Places(B)
    PROVE  p[1] \in B /\ p[2] \in DOMAIN Txs[p[1]] /\ p = <<p[1], p[2]>>
  BY DEF Places

LEMMA PlaceIn ==
    ASSUME NEW B, NEW b \in B, NEW i \in DOMAIN Txs[b]
    PROVE  <<b, i>> \in Places(B) /\ TxAt(<<b, i>>) = Txs[b][i]
  BY DEF Places, TxAt

LEMMA PlaceTx ==
    ASSUME NEW p \in Places(Block)
    PROVE  p[1] \in Block /\ TxAt(p) \in Tx
<1>1. p[1] \in Block /\ p[2] \in DOMAIN Txs[p[1]]
  BY PlaceFacts
<1> QED  BY <1>1, TxAssumption DEF TxAt

LEMMA PlacesUnion ==
    ASSUME NEW B, NEW C
    PROVE  Places(B \cup C) = Places(B) \cup Places(C)
  BY DEF Places

LEMMA PlacesMonotone ==
    ASSUME NEW B, NEW C, B \subseteq C
    PROVE  Places(B) \subseteq Places(C)
  BY DEF Places

\* The transactions of one block up to the last are all its places.
LEMMA PlacesOfBlock ==
    ASSUME NEW b \in Block, NEW n \in Nat
    PROVE  /\ n <= Len(Txs[b]) => FirstPlaces(b, n) \subseteq Places({b})
           /\ n = Len(Txs[b]) => FirstPlaces(b, n) = Places({b})
           /\ FirstPlaces(b, 0) = {}
           /\ FirstPlaces(b, n + 1) = FirstPlaces(b, n) \cup {<<b, n + 1>>}
<1>1. Txs[b] \in Seq(Tx)
  BY TxAssumption
<1>2. DOMAIN Txs[b] = 1..Len(Txs[b]) /\ Len(Txs[b]) \in Nat
  BY <1>1
<1>3. n <= Len(Txs[b]) => 1..n \subseteq DOMAIN Txs[b]
  BY <1>2
<1>4. n = Len(Txs[b]) => 1..n = DOMAIN Txs[b]
  BY <1>2
<1>5. 1..0 = {} /\ 1..(n + 1) = (1..n) \cup {n + 1}
  OBVIOUS
<1> QED  BY <1>3, <1>4, <1>5 DEF FirstPlaces, Places

-----------------------------------------------------------------------------
(* Books: what the operations of the UTXO set do to one. *)

\* A transaction whose inputs are all unspent stands at no place yet.
LEMMA FreshTx ==
    ASSUME NEW us, NEW P \in SUBSET Places(Block), NEW b \in Block, NEW i \in DOMAIN Txs[b],
           <<b, i>> \notin P, IsBook(us, P, P),
           \A o \in InputSet(Txs[b][i]) : Unspent(us, o)
    PROVE  \A p \in P : TxAt(p) # Txs[b][i] /\ InputSet(TxAt(p)) \cap InputSet(Txs[b][i]) = {}
<1> DEFINE t == Txs[b][i]
<1>1. t \in Tx /\ Inputs[t] \in Seq(OutPoint)
  BY TxAssumption
<1> SUFFICES ASSUME NEW p \in P
             PROVE  TxAt(p) # t /\ InputSet(TxAt(p)) \cap InputSet(t) = {}
  OBVIOUS
<1>2. InputSet(TxAt(p)) \cap InputSet(t) = {}
  BY DEF IsBook, Unspent
<1>3. CASE IsReward(t)
  <2>1. p[1] \in Block /\ p[2] \in DOMAIN Txs[p[1]] /\ p = <<p[1], p[2]>>
    BY PlaceFacts
  <2>2. TxAt(p) # t
    BY <1>3, <2>1, RewardAssumption DEF IsReward, TxAt
  <2> QED  BY <1>2, <2>2
<1>4. CASE ~IsReward(t)
  <2>1. Inputs[t][1] \in InputSet(t)
    BY <1>1, <1>4, ToSetOfSeq DEF IsReward, InputSet
  <2> QED  BY <1>2, <2>1
<1> QED  BY <1>3, <1>4

\* processTransactionUTXOs writes a transaction into the book.
LEMMA AddPlace ==
    ASSUME NEW us, IsUTXOMap(us), NEW P \in SUBSET Places(Block),
           NEW b \in Block, NEW i \in DOMAIN Txs[b],
           <<b, i>> \notin P, \A p \in P : Number(p[1]) <= Number(b),
           IsBook(us, P, P), IsSound(P),
           \A o \in InputSet(Txs[b][i]) : Unspent(us, o)
    PROVE  LET t == Txs[b][i]
               Q == P \cup {<<b, i>>}
           IN  /\ IsBook(AddUTXOs(SpendUTXOs(us, InputSet(t)), Outputs[t], b), Q, Q)
               /\ IsSound(Q)
<1> DEFINE t == Txs[b][i]
           new == <<b, i>>
           Q == P \cup {new}
           vs == AddUTXOs(SpendUTXOs(us, InputSet(t)), Outputs[t], b)
<1>1. /\ t \in Tx /\ InputSet(t) \subseteq OutPoint /\ Outputs[t] \subseteq OutPoint
      /\ TxAt(new) = t /\ new[1] = b /\ Number(b) \in Nat
  <2>1. t \in Tx
    BY TxAssumption
  <2> QED  BY <2>1, TxFacts, PathFacts DEF TxAt
<1>2. \A p \in P : TxAt(p) # t /\ InputSet(TxAt(p)) \cap InputSet(t) = {} /\ TxAt(p) \in Tx
  BY FreshTx, PlaceTx
<1>3. \A p \in P : Outputs[TxAt(p)] \cap Outputs[t] = {}
  BY <1>1, <1>2, TxAssumption
<1>4. \A o \in InputSet(t) : o \in DOMAIN us /\ o \in OutPoint /\ \E q \in P : o \in Outputs[TxAt(q)]
  BY <1>1 DEF Unspent, IsBook
<1>5. \A p \in P : \A o \in InputSet(TxAt(p)) : o \notin Outputs[t]
  BY <1>3 DEF IsSound
<1>6. InputSet(t) \cap Outputs[t] = {}
  BY <1>3, <1>4
<1>7. /\ DOMAIN vs = DOMAIN us \cup Outputs[t]
      /\ \A o \in Outputs[t] : vs[o].spent = FALSE /\ vs[o].block = b
      /\ \A o \in DOMAIN us \ Outputs[t] :
            /\ vs[o].block = us[o].block
            /\ vs[o].spent <=> us[o].spent \/ o \in InputSet(t)
  BY DEF AddUTXOs, SpendUTXOs, IsUTXOMap, UTXO
<1> HIDE DEF vs, t
<1>8. \A o \in OutPoint : o \in DOMAIN vs <=> \E p \in Q : o \in Outputs[TxAt(p)]
  BY <1>1, <1>7 DEF IsBook
<1>9. \A o \in DOMAIN vs : vs[o].spent <=> \E p \in Q : o \in InputSet(TxAt(p))
  <2> TAKE o \in DOMAIN vs
  <2>1. CASE o \in Outputs[t]
    BY <1>1, <1>5, <1>6, <1>7, <2>1
  <2>2. CASE o \notin Outputs[t]
    <3>1. o \in DOMAIN us
      BY <1>7, <2>2
    <3>2. us[o].spent <=> \E p \in P : o \in InputSet(TxAt(p))
      BY <3>1 DEF IsBook
    <3>3. vs[o].spent <=> us[o].spent \/ o \in InputSet(t)
      BY <1>7, <2>2, <3>1
    <3> HIDE DEF new
    <3> QED  BY <1>1, <3>2, <3>3
  <2> QED  BY <2>1, <2>2
<1>10. \A p \in Q : \A o \in Outputs[TxAt(p)] : vs[o].block = p[1]
  <2> SUFFICES ASSUME NEW p \in Q, NEW o \in Outputs[TxAt(p)] PROVE vs[o].block = p[1]
    OBVIOUS
  <2>1. CASE p = new
    BY <1>1, <1>7, <2>1
  <2>2. CASE p \in P
    <3>1. o \notin Outputs[t] /\ o \in OutPoint
      BY <1>2, <1>3, <2>2, TxFacts
    <3>2. o \in DOMAIN us /\ us[o].block = p[1]
      BY <2>2, <3>1 DEF IsBook
    <3> QED  BY <1>7, <3>1, <3>2
  <2> QED  BY <2>1, <2>2
<1>11. IsSound(Q)
  <2> SUFFICES ASSUME NEW p \in Q
               PROVE  /\ \A q \in Q : p # q => /\ TxAt(p) # TxAt(q)
                                               /\ InputSet(TxAt(p)) \cap InputSet(TxAt(q)) = {}
                      /\ \A o \in InputSet(TxAt(p)) :
                             \E q \in Q : o \in Outputs[TxAt(q)] /\ Number(q[1]) <= Number(p[1])
    BY DEF IsSound
  <2>1. \A q \in Q : p # q => /\ TxAt(p) # TxAt(q)
                              /\ InputSet(TxAt(p)) \cap InputSet(TxAt(q)) = {}
    BY <1>1, <1>2 DEF IsSound
  <2>2. \A o \in InputSet(TxAt(p)) :
            \E q \in Q : o \in Outputs[TxAt(q)] /\ Number(q[1]) <= Number(p[1])
    BY <1>1, <1>4 DEF IsSound
  <2> QED  BY <2>1, <2>2
<1>12. IsBook(vs, Q, Q)
  BY <1>8, <1>9, <1>10 DEF IsBook
<1> QED  BY <1>11, <1>12 DEF vs, t

\* The rollback of one transaction makes its inputs unspent again.
LEMMA UndoPlace ==
    ASSUME TypeOK, NEW S \in SUBSET Places(ToSet(blocks)), NEW p \in S,
           IsBook(utxos, Places(ToSet(blocks)), S), IsSound(Places(ToSet(blocks)))
    PROVE  IsBook(RestoreInputs(TxAt(p)), Places(ToSet(blocks)), S \ {p})
<1> DEFINE t == TxAt(p)
           P == Places(ToSet(blocks))
           found == {o \in InputSet(t) : CreatedAt(o) # {}}
           back == RestoreUTXOs(utxos, found)
           vs == RestoreInputs(t)
<1>1. blocks \in Seq(Block) /\ IsUTXOMap(utxos) /\ ToSet(blocks) \subseteq Block
      /\ ToSet(blocks) = {blocks[i] : i \in 1..Len(blocks)}
  <2>1. blocks \in Seq(Block) /\ IsUTXOMap(utxos)
    BY DEF TypeOK
  <2> QED  BY <2>1, ToSetOfSeq
<1>2. P \subseteq Places(Block)
  BY <1>1, PlacesMonotone
<1>3. t \in Tx /\ InputSet(t) \subseteq OutPoint
  BY <1>2, PlaceTx, TxFacts
<1>4. ASSUME NEW o \in InputSet(t) PROVE CreatedAt(o) # {} /\ o \in DOMAIN utxos
  <2>1. PICK q \in P : o \in Outputs[TxAt(q)]
    BY DEF IsSound
  <2>2. q[1] \in ToSet(blocks) /\ q[2] \in DOMAIN Txs[q[1]]
    BY PlaceFacts
  <2>3. PICK i \in 1..Len(blocks) : blocks[i] = q[1]
    BY <1>1, <2>2
  <2>4. Txs[q[1]][q[2]] \in ToSet(Txs[q[1]])
    BY <2>2 DEF ToSet
  <2>5. i \in DOMAIN blocks
    BY <1>1
  <2>6. i \in CreatedAt(o)
    BY <2>1, <2>3, <2>4, <2>5 DEF CreatedAt, TxAt
  <2> QED  BY <1>3, <2>1, <2>6 DEF IsBook
<1>5. found = InputSet(t) /\ found \subseteq DOMAIN utxos
  BY <1>4
<1>6. /\ DOMAIN back = DOMAIN utxos
      /\ \A o \in DOMAIN utxos :
            /\ back[o].block = utxos[o].block
            /\ back[o].spent <=> utxos[o].spent /\ o \notin InputSet(t)
  BY <1>1, <1>5 DEF RestoreUTXOs, IsUTXOMap, UTXO
<1>7. DOMAIN vs = DOMAIN utxos /\ \A o \in DOMAIN utxos : vs[o] = back[o]
  <2>1. vs = [o \in DOMAIN utxos \cup found |->
                 IF o \in DOMAIN utxos THEN back[o]
                 ELSE [spent |-> FALSE, block |-> blocks[Min(CreatedAt(o))]]]
    BY DEF RestoreInputs
  <2> HIDE DEF vs, found, back
  <2> QED  BY <1>5, <2>1
<1>8. \A q \in S : q # p => InputSet(TxAt(q)) \cap InputSet(t) = {}
  BY DEF IsSound
<1> HIDE DEF vs, back, found, t
<1>9. \A o \in OutPoint : o \in DOMAIN vs <=> \E q \in P : o \in Outputs[TxAt(q)]
  BY <1>7 DEF IsBook
<1>10. \A o \in DOMAIN vs : vs[o].spent <=> \E q \in S \ {p} : o \in InputSet(TxAt(q))
  <2> TAKE o \in DOMAIN vs
  <2>1. vs[o].spent <=> utxos[o].spent /\ o \notin InputSet(t)
    BY <1>6, <1>7
  <2>2. utxos[o].spent <=> \E q \in S : o \in InputSet(TxAt(q))
    BY <1>7 DEF IsBook
  <2>3. InputSet(t) = InputSet(TxAt(p))
    BY DEF t
  <2> QED  BY <1>8, <2>1, <2>2, <2>3
<1>11. \A q \in P : \A o \in Outputs[TxAt(q)] : vs[o].block = q[1]
  <2> SUFFICES ASSUME NEW q \in P, NEW o \in Outputs[TxAt(q)] PROVE vs[o].block = q[1]
    OBVIOUS
  <2>1. o \in OutPoint
    BY <1>2, PlaceTx, TxFacts
  <2>2. o \in DOMAIN utxos /\ utxos[o].block = q[1]
    BY <2>1 DEF IsBook
  <2> QED  BY <1>6, <1>7, <2>2
<1>12. IsBook(vs, P, S \ {p})
  BY <1>9, <1>10, <1>11 DEF IsBook
<1> QED  BY <1>12 DEF vs, t

\* RemoveUTXOs drops what the block that was undone created, and no more.
LEMMA RemoveBlock ==
    ASSUME NEW us, IsUTXOMap(us), NEW B \in SUBSET Block, NEW b \in Block,
           \A c \in B : Number(c) < Number(b),
           IsBook(us, Places(B \cup {b}), Places(B)), IsSound(Places(B \cup {b}))
    PROVE  IsBook(RemoveUTXOs(us, b), Places(B), Places(B)) /\ IsSound(Places(B))
<1> DEFINE P == Places(B \cup {b})
           R == Places(B)
           vs == RemoveUTXOs(us, b)
<1>1. R \subseteq P /\ P \subseteq Places(Block) /\ Number(b) \in Nat
  BY PlacesMonotone, PathFacts
<1>2. \A p \in P : /\ p \in R <=> p[1] # b
                   /\ p \in R <=> Number(p[1]) < Number(b)
                   /\ p[1] \in Block /\ Outputs[TxAt(p)] \subseteq OutPoint
  <2> TAKE p \in P
  <2>1. p[1] \in B \cup {b} /\ p[2] \in DOMAIN Txs[p[1]] /\ p = <<p[1], p[2]>>
    BY PlaceFacts
  <2>2. p \in R => p[1] \in B
    BY PlaceFacts
  <2>3. p[1] \in B => p \in R
    BY <2>1, PlaceIn
  <2>4. Outputs[TxAt(p)] \subseteq OutPoint
    BY <1>1, PlaceTx, TxFacts
  <2> QED  BY <1>1, <2>1, <2>2, <2>3, <2>4
<1>3. DOMAIN vs = {o \in DOMAIN us : us[o].block # b} /\ \A o \in DOMAIN vs : vs[o] = us[o]
  BY DEF RemoveUTXOs
<1>4. DOMAIN us \subseteq OutPoint
  BY DEF IsUTXOMap
<1> HIDE DEF vs, P, R
<1>5. IsBook(us, P, R) /\ IsSound(P)
  BY DEF P, R
<1>6. \A o \in OutPoint : o \in DOMAIN vs <=> \E p \in R : o \in Outputs[TxAt(p)]
  <2> TAKE o \in OutPoint
  <2>1. ASSUME o \in DOMAIN vs PROVE \E p \in R : o \in Outputs[TxAt(p)]
    <3>1. PICK p \in P : o \in Outputs[TxAt(p)]
      BY <1>3, <1>5, <2>1 DEF IsBook
    <3>2. p[1] # b
      BY <1>3, <1>5, <2>1, <3>1 DEF IsBook
    <3> QED  BY <1>2, <3>1, <3>2
  <2>2. ASSUME NEW p \in R, o \in Outputs[TxAt(p)] PROVE o \in DOMAIN vs
    <3>1. p \in P /\ p[1] # b
      BY <1>1, <1>2 DEF P, R
    <3>2. o \in DOMAIN us /\ us[o].block = p[1]
      BY <1>5, <2>2, <3>1 DEF IsBook
    <3> QED  BY <1>3, <3>1, <3>2
  <2> QED  BY <2>1, <2>2
<1>7. \A o \in DOMAIN vs : vs[o].spent <=> \E p \in R : o \in InputSet(TxAt(p))
  BY <1>3, <1>5 DEF IsBook
<1>8. \A p \in R : \A o \in Outputs[TxAt(p)] : vs[o].block = p[1]
  <2> SUFFICES ASSUME NEW p \in R, NEW o \in Outputs[TxAt(p)] PROVE vs[o].block = p[1]
    OBVIOUS
  <2>1. p \in P /\ o \in OutPoint
    BY <1>1, <1>2 DEF P, R
  <2>2. o \in DOMAIN vs /\ us[o].block = p[1]
    BY <1>5, <1>6, <2>1 DEF IsBook
  <2> QED  BY <1>3, <2>2
<1>9. IsBook(vs, R, R)
  BY <1>6, <1>7, <1>8 DEF IsBook
<1>10. IsSound(R)
  <2> SUFFICES ASSUME NEW p \in R
               PROVE  /\ \A q \in R : p # q => /\ TxAt(p) # TxAt(q)
                                               /\ InputSet(TxAt(p)) \cap InputSet(TxAt(q)) = {}
                      /\ \A o \in InputSet(TxAt(p)) :
                             \E q \in R : o \in Outputs[TxAt(q)] /\ Number(q[1]) <= Number(p[1])
    BY DEF IsSound
  <2>1. R \subseteq P
    BY <1>1 DEF P, R
  <2>2. \A q \in R : p # q => /\ TxAt(p) # TxAt(q)
                              /\ InputSet(TxAt(p)) \cap InputSet(TxAt(q)) = {}
    BY <1>5, <2>1 DEF IsSound
  <2>3. ASSUME NEW o \in InputSet(TxAt(p))
        PROVE  \E q \in R : o \in Outputs[TxAt(q)] /\ Number(q[1]) <= Number(p[1])
    <3>1. PICK q \in P : o \in Outputs[TxAt(q)] /\ Number(q[1]) <= Number(p[1])
      BY <1>5, <2>1 DEF IsSound
    <3>2. Number(q[1]) \in Nat /\ Number(p[1]) \in Nat /\ Number(b) \in Nat
      BY <1>2, <2>1, PathFacts
    <3>3. Number(p[1]) < Number(b)
      BY <1>2, <2>1
    <3>4. q \in R
      BY <1>2, <3>1, <3>2, <3>3
    <3> QED  BY <3>1, <3>4
  <2> QED  BY <2>2, <2>3
<1> QED  BY <1>9, <1>10 DEF vs, R

-----------------------------------------------------------------------------
(* Nonces *)

LEMMA NoncesAtUnion ==
    ASSUME NEW P, NEW Q, NEW a
    PROVE  NoncesAt(P \cup Q, a) = NoncesAt(P, a) \cup NoncesAt(Q, a)
  BY DEF NoncesAt

LEMMA NoncesAtOne ==
    ASSUME NEW p, NEW a
    PROVE  NoncesAt({p}, a) = IF ~IsReward(TxAt(p)) /\ Sender[TxAt(p)] = a
                              THEN {Nonce[TxAt(p)]} ELSE {}
  BY DEF NoncesAt

LEMMA NoncesAtType ==
    ASSUME NEW P \in SUBSET Places(Block), NEW a
    PROVE  NoncesAt(P, a) \in SUBSET Nat
<1>1. \A p \in P : TxAt(p) \in Tx
  BY PlaceTx
<1> QED  BY <1>1, TxFacts DEF NoncesAt

LEMMA OnChainPlaces ==
    ASSUME NEW chain, ToSet(chain) \subseteq Block, NEW t
    PROVE  OnChain(chain, t) <=> \E p \in Places(ToSet(chain)) : TxAt(p) = t
<1>1. ASSUME NEW b \in ToSet(chain), Contains(Txs[b], t)
      PROVE  \E p \in Places(ToSet(chain)) : TxAt(p) = t
  <2>1. Txs[b] \in Seq(Tx)
    BY TxAssumption
  <2>2. PICK i \in 1..Len(Txs[b]) : Txs[b][i] = t
    BY <1>1 DEF Contains
  <2>3. i \in DOMAIN Txs[b]
    BY <2>1
  <2> QED  BY <2>2, <2>3, PlaceIn
<1>2. ASSUME NEW p \in Places(ToSet(chain)), TxAt(p) = t
      PROVE  \E b \in ToSet(chain) : Contains(Txs[b], t)
  <2>1. p[1] \in ToSet(chain) /\ p[2] \in DOMAIN Txs[p[1]]
    BY PlaceFacts
  <2>2. Txs[p[1]] \in Seq(Tx)
    BY <2>1, TxAssumption
  <2>3. p[2] \in 1..Len(Txs[p[1]]) /\ Txs[p[1]][p[2]] = t
    BY <1>2, <2>1, <2>2 DEF TxAt
  <2> QED  BY <2>1, <2>3 DEF Contains
<1> QED  BY <1>1, <1>2 DEF OnChain

LEMMA NoncesUsedAt ==
    ASSUME NEW chain, ToSet(chain) \subseteq Block, NEW a
    PROVE  NoncesUsed(chain, a) = NoncesAt(Places(ToSet(chain)), a)
<1>1. \A t : OnChain(chain, t) <=> \E p \in Places(ToSet(chain)) : TxAt(p) = t
  BY OnChainPlaces
<1>2. \A p \in Places(ToSet(chain)) : TxAt(p) \in Tx
  BY PlacesMonotone, PlaceTx
<1> QED  BY <1>1, <1>2 DEF NoncesUsed, NoncesAt

\* A highest nonce is the maximum that LastNonce asks for ...
LEMMA LastNonceIs ==
    ASSUME NEW chain, ToSet(chain) \subseteq Block, NEW a, NEW n \in Nat,
           IsLastNonce(n, Places(ToSet(chain)), a)
    PROVE  LastNonce(chain, a) = n
<1> DEFINE S == NoncesUsed(chain, a) \cup {0}
<1>1. NoncesUsed(chain, a) = NoncesAt(Places(ToSet(chain)), a) /\ S \in SUBSET Nat
  BY NoncesUsedAt, NoncesAtType, PlacesMonotone
<1>2. n \in S /\ \A m \in S : m <= n
  BY <1>1 DEF IsLastNonce
<1> HIDE DEF S
<1>3. Max(S) \in S /\ \A m \in S : m <= Max(S)
  BY <1>1, <1>2, MaxNat
<1>4. Max(S) \in Nat /\ n <= Max(S) /\ Max(S) <= n
  BY <1>1, <1>2, <1>3
<1>5. Max(S) = n
  BY <1>4
<1> QED  BY <1>5 DEF LastNonce, S

\* ... and the maximum is the highest nonce, when the nonces are bounded at all.
LEMMA LastNonceIsLast ==
    ASSUME NEW chain, ToSet(chain) \subseteq Block, NEW a, NEW n \in Nat,
           NEW P, Places(ToSet(chain)) \subseteq P, IsLastNonce(n, P, a)
    PROVE  /\ LastNonce(chain, a) \in Nat
           /\ IsLastNonce(LastNonce(chain, a), Places(ToSet(chain)), a)
<1> DEFINE S == NoncesUsed(chain, a) \cup {0}
<1>1. NoncesUsed(chain, a) = NoncesAt(Places(ToSet(chain)), a) /\ S \in SUBSET Nat /\ S # {}
  BY NoncesUsedAt, NoncesAtType, PlacesMonotone
<1>2. NoncesAt(Places(ToSet(chain)), a) \subseteq NoncesAt(P, a)
  BY DEF NoncesAt
<1>3. \A m \in S : m <= n
  BY <1>1, <1>2 DEF IsLastNonce
<1>4. Max(S) \in S /\ \A m \in S : m <= Max(S)
  <2> HIDE DEF S
  <2> QED  BY <1>1, <1>3, MaxNat
<1>5. Max(S) \in Nat
  BY <1>1, <1>4
<1>6. IsLastNonce(Max(S), Places(ToSet(chain)), a)
  BY <1>1, <1>4 DEF IsLastNonce
<1> QED  BY <1>5, <1>6 DEF LastNonce

\* Every payment of a block has the nonce after the last of its branch.
LEMMA NoncesOfBlock ==
    ASSUME NEW b \in Block, NoncesFollow(b), NEW a, NEW n \in NoncesAt(Places({b}), a)
    PROVE  n = LastNonce(Front(Path[b]), a) + 1
<1>1. PICK p \in Places({b}) : ~IsReward(TxAt(p)) /\ Sender[TxAt(p)] = a /\ n = Nonce[TxAt(p)]
  BY DEF NoncesAt
<1>2. p[1] = b /\ p[2] \in DOMAIN Txs[b]
  BY PlaceFacts
<1>3. TxAt(p) \in ToSet(Txs[b])
  BY <1>2 DEF TxAt, ToSet
<1> QED  BY <1>1, <1>3 DEF NoncesFollow

-----------------------------------------------------------------------------
(* The main chain in each phase *)

LEMMA AppendedChain ==
    ASSUME NEW b \in Block, NEW s \in Seq(Block), Path[b] = Append(s, b)
    PROVE  /\ ToSet(s) \subseteq Block
           /\ ToSet(Path[b]) = ToSet(s) \cup {b}
           /\ Front(Path[b]) = s
           /\ \A c \in ToSet(s) : Number(c) < Number(b)
           /\ b \notin ToSet(s)
<1>1. ToSet(s) \subseteq Block /\ ToSet(s) = {s[i] : i \in 1..Len(s)} /\ Len(s) \in Nat
  BY ToSetOfSeq
<1>2. ToSet(Path[b]) = ToSet(s) \cup {b}
  BY ToSetOfAppend
<1>4. Number(b) = Len(s) /\ Len(Path[b]) = Len(s) + 1
  BY <1>1 DEF Number
<1>3. Front(Path[b]) = s
  <2>1. Len(s) \in 0..Len(s) /\ Len(Append(s, b)) - 1 = Len(s)
    BY <1>1
  <2>2. SubSeq(Append(s, b), 1, Len(s)) = SubSeq(s, 1, Len(s))
    BY <2>1, PrefixOfAppend
  <2>3. SubSeq(s, 1, Len(s)) = s
    BY SubSeqFull
  <2> QED  BY <2>1, <2>2, <2>3 DEF Front
<1>5. \A c \in ToSet(s) : Number(c) < Number(b)
  <2> TAKE c \in ToSet(s)
  <2>1. PICK i \in 1..Len(s) : c = s[i]
    BY <1>1
  <2>2. i \in 1..Len(Path[b]) /\ Path[b][i] = s[i]
    BY <1>1, <1>4
  <2>3. Number(c) = i - 1
    BY <2>1, <2>2, OnPath
  <2> QED  BY <1>1, <1>4, <2>1, <2>3
<1>6. b \notin ToSet(s)
  BY <1>4, <1>5
<1> QED  BY <1>1, <1>2, <1>3, <1>5, <1>6

\* The block at work is the child of the last block of the chain.
LEMMA WorkChain ==
    ASSUME IndInv, ~Concurrent, failed = {}, phase \in {"extend", "apply"}, adding # <<>>
    PROVE  /\ Head(adding) \in Block /\ Head(adding) \in blockIndex
           /\ blocks \in Seq(Block)
           /\ Path[Head(adding)] = Append(blocks, Head(adding))
<1> DEFINE h == Head(adding)
<1>t. TypeOK /\ WorkIsIndexed /\ ExtendInv /\ AdoptInv /\ MainChainInv /\ blocks \in Seq(Block)
      /\ blockIndex \subseteq Block /\ adding \in Seq(Block)
  BY DEF IndInv, BaseInv, SingleInv, TypeOK
<1>1. h \in Block /\ h \in blockIndex
  BY <1>t, WorkBlock DEF WorkIsIndexed
<1>2. CASE phase = "extend"
  BY <1>t, <1>1, <1>2 DEF ExtendInv, MainChainInv
<1>3. CASE phase = "apply"
  <2> DEFINE k == Len(adding)
  <2>1. PICK b \in blockIndex :
            /\ k < Len(Path[b])
            /\ adding = SubSeq(Path[b], Len(Path[b]) - k + 1, Len(Path[b]))
            /\ blocks = SubSeq(Path[b], 1, Len(Path[b]) - k)
    BY <1>t, <1>3 DEF AdoptInv
  <2>2. b \in Block /\ Path[b] \in Seq(Block) /\ Len(Path[b]) \in Nat
    BY <1>t, PathFacts
  <2>3. k \in 1..Len(Path[b])
    BY <1>t, <2>1, <2>2
  <2> DEFINE r == SubSeq(Path[b], Len(Path[b]) - k + 1, Len(Path[b]))
  <2>4. /\ Head(r) = Path[b][Len(Path[b]) - k + 1]
        /\ Append(SubSeq(Path[b], 1, Len(Path[b]) - k), Head(r)) = SubSeq(Path[b], 1, Len(Path[b]) - (k - 1))
    <3> HIDE DEF k
    <3> QED  BY <2>2, <2>3, TakeNext
  <2>5. adding = r
    BY <2>1
  <2> DEFINE j == Len(Path[b]) - k + 1
  <2>6. j \in 1..Len(Path[b]) /\ Len(Path[b]) - (k - 1) = j
    <3> HIDE DEF k
    <3> QED  BY <2>2, <2>3
  <2>7. h = Path[b][j] /\ Append(blocks, h) = SubSeq(Path[b], 1, j)
    <3> HIDE DEF r, k
    <3> QED  BY <2>1, <2>4, <2>5, <2>6
  <2>8. Path[h] = SubSeq(Path[b], 1, j)
    <3> HIDE DEF j, h
    <3> QED  BY <2>2, <2>6, <2>7, OnPath
  <2> QED  BY <1>t, <1>1, <2>7, <2>8
<1> QED  BY <1>2, <1>3

\* During a rollback the chain is the one to leave.
LEMMA RollbackChain ==
    ASSUME IndInv, ~Concurrent, failed = {}, phase \in {"idle", "rollback"}
    PROVE  /\ blocks = Path[bestBlock] /\ bestBlock \in Block /\ bestBlock \in blockIndex
           /\ blocks \in Seq(Block)
           /\ bestBlock # Genesis => /\ Parent(bestBlock) \in Block
                                     /\ Path[Parent(bestBlock)] \in Seq(Block)
                                     /\ blocks = Append(Path[Parent(bestBlock)], bestBlock)
<1>1. blocks = Path[bestBlock] /\ bestBlock \in Block /\ bestBlock \in blockIndex
  BY DEF IndInv, BaseInv, SingleInv, TypeOK, WorkIsIndexed, MainChainInv
<1>2. bestBlock # Genesis => /\ Parent(bestBlock) \in Block
                             /\ Path[bestBlock] = Append(Path[Parent(bestBlock)], bestBlock)
  BY <1>1, ParentFacts
<1> QED  BY <1>1, <1>2, PathFacts

\* bc.blocks is cut to the path of the common parent.
LEMMA CutChain ==
    ASSUME IndInv, ~Concurrent, failed = {}, TruncateBlocks
    PROVE  blocks' = Path[commonParent] /\ commonParent \in Block
<1>t. TypeOK /\ AdoptInv /\ phase = "rollback" /\ commonParent \in Block /\ bestBlock \in Block
      /\ blocks = Path[bestBlock]
  BY RollbackChain DEF IndInv, BaseInv, SingleInv, TypeOK, TruncateBlocks
<1>1. commonParent \in ToSet(Path[bestBlock])
  BY <1>t DEF AdoptInv
<1>2. Path[bestBlock] \in Seq(Block)
  BY <1>t, PathFacts
<1>3. PICK m \in 1..Len(Path[bestBlock]) : commonParent = Path[bestBlock][m]
  BY <1>1, <1>2, ToSetOfSeq
<1>4. Path[commonParent] = SubSeq(Path[bestBlock], 1, m) /\ Number(commonParent) = m - 1
  BY <1>t, <1>3, OnPath
<1> DEFINE at == {i \in DOMAIN blocks : blocks[i] = commonParent}
<1>5. m \in at
  BY <1>t, <1>2, <1>3
<1>6. \A i \in at : i = m
  <2> TAKE i \in at
  <2>1. i \in 1..Len(Path[bestBlock]) /\ commonParent = Path[bestBlock][i]
    BY <1>t, <1>2
  <2>2. Number(commonParent) = i - 1
    BY <1>t, <2>1, OnPath
  <2> QED  BY <1>4, <2>1, <2>2
<1>7. blocks' = SubSeq(blocks, 1, Min(at))
  BY <1>5 DEF TruncateBlocks
<1>8. Min(at) = m
  <2>1. at \in SUBSET Nat /\ at # {}
    BY <1>5, <1>6
  <2> HIDE DEF at
  <2> QED  BY <1>6, <2>1, MinNat
<1> HIDE DEF at
<1> QED  BY <1>t, <1>4, <1>7, <1>8

\* reorganizeChain finds at most the tip to undo.
LEMMA TipIsUndone ==
    ASSUME IndInv, ~Concurrent, failed = {}, NEW b \in Block, reorganizeChain(b)
    PROVE  \/ removing' = <<>> /\ commonParent' = bestBlock
           \/ /\ removing' = <<bestBlock>> /\ commonParent' = Parent(bestBlock)
              /\ bestBlock # Genesis
<1> DEFINE c == findCommonParent(blockIndex, bestBlock, b)
           best == Path[bestBlock]
<1>t. /\ BaseInv /\ IdleInv /\ OneCall /\ phase = "idle" /\ b \in reorgWaiting /\ b \in blockIndex
      /\ bestBlock \in Block
  BY DEF IndInv, SingleInv, BaseInv, TypeOK, WorkIsIndexed, reorganizeChain, CanTakeLock
<1>1. Number(b) > Number(bestBlock) /\ ForksAtTip(b, bestBlock)
  BY <1>t DEF IdleInv, Outgrown
<1>2. c \in ToSet(best) /\ Len(BlocksAfter(c, bestBlock)) <= 1
  BY <1>t, <1>1, ReorganizationFacts
<1>3. removing' = BlocksAfter(c, bestBlock) /\ commonParent' = c
  BY DEF reorganizeChain
<1> HIDE DEF c
<1>4. best \in Seq(Block) /\ Len(best) = Number(bestBlock) + 1 /\ Number(bestBlock) \in Nat
      /\ best[Len(best)] = bestBlock
  BY <1>t, PathFacts
<1>5. PICK i \in 1..Len(best) : c = best[i]
  <2> HIDE DEF best
  <2>1. ToSet(best) = {best[i] : i \in 1..Len(best)}
    BY <1>4, ToSetOfSeq
  <2> QED  BY <1>2, <2>1
<1>6. Number(c) = i - 1 /\ BlocksAfter(c, bestBlock) = SubSeq(best, i + 1, Len(best))
  <2>1. Number(c) = i - 1
    BY <1>t, <1>5, OnPath
  <2>2. Number(c) + 2 = i + 1
    BY <2>1
  <2> QED  BY <2>1, <2>2 DEF BlocksAfter
<1>7. Len(SubSeq(best, i + 1, Len(best))) = Len(best) - i
  <2>1. i \in 0..Len(best)
    OBVIOUS
  <2> HIDE DEF best
  <2> QED  BY <1>4, <2>1, SuffixLen
<1>8. CASE i = Len(best)
  <2>1. BlocksAfter(c, bestBlock) \in Seq(Block) /\ Len(BlocksAfter(c, bestBlock)) = 0
    <3>1. c \in Block
      BY <1>t, <1>5, OnPath
    <3>2. Len(best) - i = 0
      BY <1>4, <1>8
    <3> QED  BY <1>t, <1>6, <1>7, <3>1, <3>2, BlocksAfterFacts
  <2> QED  BY <1>3, <1>4, <1>5, <1>8, <2>1, EmptySeq
<1>9. CASE i # Len(best)
  <2>1. i = Len(best) - 1 /\ i = Number(bestBlock)
    BY <1>2, <1>4, <1>6, <1>7, <1>9
  <2>2. Tail(<<bestBlock>>) = <<>> /\ c = Parent(bestBlock)
    BY <1>5, <2>1 DEF Parent
  <2>3. SubSeq(best, i + 1, Len(best)) = <<bestBlock>>
    <3> HIDE DEF best
    <3>1. i + 1 = Len(best) /\ Len(best) \in Nat \ {0}
      BY <1>4, <2>1
    <3>2. SubSeq(best, Len(best), Len(best)) = <<best[Len(best)]>>
      BY <1>4, <3>1, SubSeqOne
    <3> QED  BY <1>4, <3>1, <3>2
  <2>4. bestBlock # Genesis
    BY <2>1, PathGenesis
  <2> QED  BY <1>3, <1>6, <2>2, <2>3, <2>4
<1> QED  BY <1>8, <1>9

-----------------------------------------------------------------------------
(* The steps *)

\* Nothing of the ledger changes, and nothing leaves the index.
replayVars == <<utxos, accountNonces, blocks, adding, txi, phase, removing, bestBlock, commonParent>>

LEMMA SameLedger ==
    ASSUME ReplayInv, UNCHANGED replayVars, failed' = failed, blockIndex \subseteq blockIndex'
    PROVE  ReplayInv'
<1> SUFFICES ASSUME failed = {} PROVE WorkInv' /\ LedgerInv' /\ NonceInv'
  BY DEF ReplayInv
<1>1. WorkInv /\ LedgerInv /\ NonceInv
  BY DEF ReplayInv
<1>2. WorkInv'
  BY <1>1 DEF WorkInv, replayVars
<1>3. LedgerInv'
  BY <1>1 DEF LedgerInv, replayVars, placed, undone
<1>4. NonceInv'
  BY <1>1 DEF NonceInv, replayVars, placed, undone
<1> QED  BY <1>2, <1>3, <1>4

\* What ReplayInv says before a step without refusals.
LEMMA ReplayFacts ==
    ASSUME IndInv, ReplayInv, failed = {}
    PROVE  /\ WorkInv /\ LedgerInv /\ NonceInv
           /\ TypeOK /\ IsUTXOMap(utxos) /\ txi \in Nat \ {0} /\ blocks \in Seq(Block)
           /\ ToSet(blocks) \subseteq Block /\ Places(ToSet(blocks)) \subseteq Places(Block)
           /\ phase \in Phases
           /\ accountNonces \in [Address -> Nat]
<1>1. blocks \in Seq(Block) /\ TypeOK
  BY DEF IndInv, BaseInv, TypeOK
<1>2. ToSet(blocks) \subseteq Block
  BY <1>1, ToSetOfSeq
<1> QED  BY <1>1, <1>2, PlacesMonotone DEF ReplayInv, TypeOK

\* Between two blocks the places are those of the chain.
LEMMA PlacedBetween ==
    /\ adding = <<>> => placed = Places(ToSet(blocks))
    /\ txi = 1 => placed = Places(ToSet(blocks))
<1>1. \A b : FirstPlaces(b, 1 - 1) = {}
  BY DEF FirstPlaces
<1> QED  BY <1>1 DEF placed

\* When its last transaction is processed a block has all its places.
LEMMA PlacedAtEnd ==
    ASSUME TypeOK, WorkInv, phase \in {"extend", "apply"}, adding # <<>>,
           Head(adding) \in Block, BlockDone(Head(adding))
    PROVE  placed = Places(ToSet(blocks) \cup {Head(adding)})
<1>1. Txs[Head(adding)] \in Seq(Tx) /\ txi \in Nat \ {0}
  BY TxAssumption DEF TypeOK
<1>2. txi - 1 \in Nat /\ txi - 1 = Len(Txs[Head(adding)])
  BY <1>1 DEF WorkInv, BlockDone
<1>3. FirstPlaces(Head(adding), txi - 1) = Places({Head(adding)})
  BY <1>2, PlacesOfBlock
<1> QED  BY <1>3, PlacesUnion DEF placed

\* processTransactionUTXOs and updateAccountNonces.
LEMMA ReplayProcess ==
    ASSUME IndInv, ~Concurrent, ReplayInv, failed = {}, ProcessTransaction
    PROVE  WorkInv' /\ LedgerInv' /\ NonceInv'
<1> DEFINE h == Head(adding)
           t == Txs[h][txi]
           p == <<h, txi>>
<1>t. /\ WorkInv /\ LedgerInv /\ NonceInv /\ TypeOK /\ IsUTXOMap(utxos) /\ txi \in Nat \ {0}
      /\ ToSet(blocks) \subseteq Block /\ Places(ToSet(blocks)) \subseteq Places(Block)
      /\ accountNonces \in [Address -> Nat]
  BY ReplayFacts
<1>1. /\ phase \in {"extend", "apply"} /\ adding # <<>> /\ ~BlockDone(h) /\ RefusedInputs(t) = {}
      /\ utxos' = AddUTXOs(SpendUTXOs(utxos, InputSet(t)), Outputs[t], h)
      /\ accountNonces' = updateAccountNonces(t) /\ txi' = txi + 1
      /\ UNCHANGED <<blocks, bestBlock, blockIndex, phase, removing, adding, commonParent>>
  BY DEF ProcessTransaction, Processing, chainVars, indexVars
<1>2. /\ h \in Block /\ h \in blockIndex /\ blocks \in Seq(Block) /\ Path[h] = Append(blocks, h)
  BY <1>1, WorkChain
<1>3. /\ Front(Path[h]) = blocks /\ h \notin ToSet(blocks)
      /\ \A c \in ToSet(blocks) : Number(c) < Number(h)
  BY <1>2, AppendedChain
<1>4. txi \in DOMAIN Txs[h] /\ txi <= Len(Txs[h]) /\ t \in Tx /\ TxAt(p) = t
      /\ txi - 1 \in Nat /\ txi - 1 <= Len(Txs[h]) /\ (txi - 1) + 1 = txi /\ (txi + 1) - 1 = txi
      /\ Len(Txs[h]) \in Nat
  <2>1. Txs[h] \in Seq(Tx)
    BY <1>2, TxAssumption
  <2> QED  BY <1>t, <1>1, <2>1 DEF BlockDone, TxAt
<1>5. /\ placed = Places(ToSet(blocks)) \cup FirstPlaces(h, txi - 1)
      /\ FirstPlaces(h, txi - 1) \subseteq Places({h})
      /\ placed' = placed \cup {p}
  <2>1. FirstPlaces(h, txi) = FirstPlaces(h, txi - 1) \cup {p}
    BY <1>2, <1>4, PlacesOfBlock
  <2>2. placed = Places(ToSet(blocks)) \cup FirstPlaces(h, txi - 1)
    BY <1>1 DEF placed
  <2>3. placed' = Places(ToSet(blocks)) \cup FirstPlaces(h, txi)
    BY <1>1, <1>4 DEF placed
  <2>4. FirstPlaces(h, txi - 1) \subseteq Places({h})
    BY <1>2, <1>4, PlacesOfBlock
  <2> QED  BY <2>1, <2>2, <2>3, <2>4
<1>6. placed \subseteq Places(Block) /\ p \notin placed /\ \A q \in placed : Number(q[1]) <= Number(h)
  <2>1. Places({h}) \subseteq Places(Block)
    BY <1>2, PlacesMonotone
  <2>2. p \notin Places(ToSet(blocks))
    BY <1>3, PlaceFacts
  <2>3. p \notin FirstPlaces(h, txi - 1)
    BY <1>4 DEF FirstPlaces
  <2>4. \A q \in Places(ToSet(blocks)) : Number(q[1]) <= Number(h)
    <3> TAKE q \in Places(ToSet(blocks))
    <3>1. q[1] \in ToSet(blocks)
      BY PlaceFacts
    <3>2. Number(q[1]) < Number(h) /\ Number(q[1]) \in Nat /\ Number(h) \in Nat
      BY <1>t, <1>2, <1>3, <3>1, PathFacts
    <3> QED  BY <3>2
  <2>5. \A q \in Places({h}) : Number(q[1]) <= Number(h)
    BY <1>2, PlaceFacts, PathFacts
  <2> QED  BY <1>t, <1>5, <2>1, <2>2, <2>3, <2>4, <2>5
<1> HIDE DEF p
<1>7. WorkInv'
  BY <1>t, <1>1, <1>4 DEF WorkInv
<1>8. LedgerInv'
  <2>1. \A o \in InputSet(t) : Unspent(utxos, o)
    <3> TAKE o \in InputSet(t)
    <3>1. Inputs[t] \in Seq(OutPoint)
      BY <1>4, TxAssumption
    <3>2. PICK j \in DOMAIN Inputs[t] : Inputs[t][j] = o
      BY <3>1, ToSetOfSeq DEF InputSet
    <3> QED  BY <1>1, <3>2 DEF RefusedInputs
  <2>2. IsBook(utxos, placed, placed) /\ IsSound(placed)
    BY <1>t, <1>1 DEF LedgerInv
  <2>3. IsBook(utxos', placed', placed') /\ IsSound(placed')
    <3> DEFINE Q == placed \cup {<<h, txi>>}
    <3>1. IsBook(AddUTXOs(SpendUTXOs(utxos, InputSet(t)), Outputs[t], h), Q, Q) /\ IsSound(Q)
      <4>1. <<h, txi>> \notin placed
        BY <1>6 DEF p
      <4> HIDE DEF h
      <4> QED  BY <1>t, <1>2, <1>4, <1>6, <2>1, <2>2, <4>1, AddPlace
    <3>2. placed' = Q
      BY <1>5 DEF p
    <3> QED  BY <1>1, <3>1, <3>2
  <2> QED  BY <1>1, <2>3 DEF LedgerInv
<1>9. NonceInv'
  <2> SUFFICES ASSUME \A b \in blockIndex : NoncesFollow(b), NEW a \in Address
               PROVE  IsLastNonce(accountNonces'[a], placed', a)
    BY <1>1 DEF NonceInv, NoncesFollow, LastNonce, NoncesUsed, OnChain
  <2>1. IsLastNonce(accountNonces[a], placed, a) /\ accountNonces[a] \in Nat
    BY <1>t, <1>1 DEF NonceInv
  <2>2. NoncesAt(placed', a) = NoncesAt(placed, a) \cup NoncesAt({p}, a)
    BY <1>5, NoncesAtUnion
  <2>3. NoncesAt({p}, a) = IF ~IsReward(t) /\ Sender[t] = a THEN {Nonce[t]} ELSE {}
    BY <1>4, NoncesAtOne
  <2>4. CASE IsReward(t) \/ Sender[t] # a
    <3>1. accountNonces'[a] = accountNonces[a]
      BY <1>t, <1>1, <2>4 DEF updateAccountNonces
    <3> QED  BY <2>1, <2>2, <2>3, <2>4, <3>1 DEF IsLastNonce
  <2>5. CASE ~IsReward(t) /\ Sender[t] = a
    <3> DEFINE n == LastNonce(blocks, a)
    <3>1. n \in Nat /\ IsLastNonce(n, Places(ToSet(blocks)), a)
      <4>1. Places(ToSet(blocks)) \subseteq placed
        BY <1>5
      <4> QED  BY <1>t, <2>1, <4>1, LastNonceIsLast
    <3>2. \A m \in NoncesAt(Places({h}), a) : m = n + 1
      BY <1>2, <1>3, NoncesOfBlock
    <3>3. Nonce[t] = n + 1
      <4>1. t \in ToSet(Txs[h])
        BY <1>4 DEF ToSet
      <4> QED  BY <1>2, <1>3, <2>5, <4>1 DEF NoncesFollow
    <3>4. NoncesAt(placed, a) \subseteq NoncesAt(Places(ToSet(blocks)), a) \cup NoncesAt(Places({h}), a)
      BY <1>5 DEF NoncesAt
    <3>5. \A m \in NoncesAt(placed', a) : m <= n + 1
      <4>1. \A m \in NoncesAt(Places(ToSet(blocks)), a) : m \in Nat /\ m <= n
        BY <1>t, <3>1, NoncesAtType DEF IsLastNonce
      <4>2. NoncesAt({p}, a) = {n + 1}
        BY <2>3, <2>5, <3>3
      <4>3. NoncesAt(placed', a) \subseteq NoncesAt(Places(ToSet(blocks)), a)
                                            \cup NoncesAt(Places({h}), a) \cup {n + 1}
        BY <2>2, <3>4, <4>2
      <4>4. \A m \in NoncesAt(Places(ToSet(blocks)), a) : m <= n + 1
        <5> HIDE DEF n
        <5> QED  BY <3>1, <4>1
      <4>5. n + 1 <= n + 1
        <5> HIDE DEF n
        <5> QED  BY <3>1
      <4>6. \A m \in NoncesAt(Places({h}), a) : m <= n + 1
        BY <3>2, <4>5
      <4> HIDE DEF n, h
      <4> QED  BY <4>3, <4>4, <4>5, <4>6
    <3>6. accountNonces'[a] = n + 1
      BY <1>t, <1>1, <2>5, <3>3 DEF updateAccountNonces
    <3>7. n + 1 \in NoncesAt(placed', a)
      BY <2>2, <2>3, <2>5, <3>3
    <3> HIDE DEF n
    <3> QED  BY <3>5, <3>6, <3>7 DEF IsLastNonce
  <2> QED  BY <2>4, <2>5
<1> QED  BY <1>7, <1>8, <1>9

\* The inner rollback loop: the inputs and the nonce of one transaction.
LEMMA ReplayRollback ==
    ASSUME IndInv, ~Concurrent, ReplayInv, failed = {}, RollbackTransaction
    PROVE  WorkInv' /\ LedgerInv' /\ NonceInv'
<1> DEFINE h == bestBlock
           t == Txs[h][txi]
           p == <<h, txi>>
           all == Places(ToSet(blocks))
           kept == Places(ToSet(Path[commonParent]))
<1>t. /\ WorkInv /\ LedgerInv /\ NonceInv /\ TypeOK /\ IsUTXOMap(utxos) /\ txi \in Nat \ {0}
      /\ ToSet(blocks) \subseteq Block /\ all \subseteq Places(Block)
      /\ accountNonces \in [Address -> Nat]
  BY ReplayFacts
<1>1. /\ phase = "rollback" /\ removing # <<>> /\ removing = <<h>> /\ Head(removing) = h
      /\ h # Genesis /\ commonParent = Parent(h) /\ ~BlockDone(h)
      /\ accountNonces' = RollbackNonce(t) /\ utxos' = RestoreInputs(t) /\ txi' = txi + 1
      /\ UNCHANGED <<blocks, bestBlock, blockIndex, phase, removing, adding, commonParent>>
  BY <1>t DEF RollbackTransaction, WorkInv, chainVars, indexVars
<1>2. /\ h \in Block /\ h \in blockIndex /\ blocks = Path[h] /\ Path[commonParent] \in Seq(Block)
      /\ Path[h] = Append(Path[commonParent], h)
  BY <1>1, RollbackChain
<1>3. /\ ToSet(blocks) = ToSet(Path[commonParent]) \cup {h} /\ Front(Path[h]) = Path[commonParent]
      /\ ToSet(Path[commonParent]) \subseteq Block
  BY <1>2, AppendedChain
<1>4. txi \in DOMAIN Txs[h] /\ txi <= Len(Txs[h]) /\ t \in Tx /\ TxAt(p) = t
      /\ txi - 1 \in Nat /\ txi - 1 <= Len(Txs[h]) /\ (txi - 1) + 1 = txi /\ (txi + 1) - 1 = txi
      /\ Len(Txs[h]) \in Nat
  <2>1. Txs[h] \in Seq(Tx)
    BY <1>2, TxAssumption
  <2> QED  BY <1>t, <1>1, <2>1 DEF BlockDone, TxAt
<1>5. /\ undone' = undone \cup {p} /\ p \notin undone /\ p \in all /\ undone \subseteq Places({h})
      /\ all = kept \cup Places({h})
  <2>1. FirstPlaces(h, txi) = FirstPlaces(h, txi - 1) \cup {p}
    BY <1>2, <1>4, PlacesOfBlock
  <2>2. undone' = FirstPlaces(h, txi)
    BY <1>1, <1>4 DEF undone
  <2>3. p \notin undone
    BY <1>4 DEF undone, FirstPlaces
  <2>4. p \in all
    BY <1>3, <1>4, PlaceIn
  <2>5. undone \subseteq Places({h})
    BY <1>2, <1>4, PlacesOfBlock DEF undone
  <2>6. all = kept \cup Places({h})
    BY <1>3, PlacesUnion
  <2> QED  BY <2>1, <2>2, <2>3, <2>4, <2>5, <2>6 DEF undone
<1> HIDE DEF p
<1>7. WorkInv'
  BY <1>t, <1>1, <1>4 DEF WorkInv
<1>8. LedgerInv'
  <2>1. IsBook(utxos, all, all \ undone) /\ IsSound(all)
    BY <1>t, <1>1 DEF LedgerInv
  <2>2. IsBook(RestoreInputs(TxAt(p)), all, (all \ undone) \ {p})
    BY <1>t, <1>5, <2>1, UndoPlace
  <2>3. (all \ undone) \ {p} = all \ undone'
    BY <1>5
  <2>4. IsBook(utxos', all, all \ undone')
    BY <1>1, <1>4, <2>2, <2>3
  <2> QED  BY <1>1, <2>1, <2>4 DEF LedgerInv
<1>9. NonceInv'
  <2> SUFFICES ASSUME \A b \in blockIndex : NoncesFollow(b), NEW a \in Address
               PROVE  IsLastNonce(accountNonces'[a], IF NoncesAt(undone', a) # {} THEN kept ELSE all, a)
    BY <1>1 DEF NonceInv, NoncesFollow, LastNonce, NoncesUsed, OnChain
  <2>1. /\ IsLastNonce(accountNonces[a], IF NoncesAt(undone, a) # {} THEN kept ELSE all, a)
        /\ accountNonces[a] \in Nat
    BY <1>t, <1>1 DEF NonceInv
  <2>2. NoncesAt(undone', a) = NoncesAt(undone, a) \cup NoncesAt({p}, a)
    BY <1>5, NoncesAtUnion
  <2>3. NoncesAt({p}, a) = IF ~IsReward(t) /\ Sender[t] = a THEN {Nonce[t]} ELSE {}
    BY <1>4, NoncesAtOne
  <2>4. CASE IsReward(t) \/ Sender[t] # a
    <3>1. accountNonces'[a] = accountNonces[a]
      BY <1>t, <1>1, <2>4 DEF RollbackNonce
    <3>2. NoncesAt(undone', a) = NoncesAt(undone, a)
      BY <2>2, <2>3, <2>4
    <3> QED  BY <2>1, <3>1, <3>2
  <2>5. CASE ~IsReward(t) /\ Sender[t] = a
    <3> DEFINE n == LastNonce(Path[commonParent], a)
    <3>1. NoncesAt(undone', a) # {}
      BY <2>2, <2>3, <2>5
    <3>2. n \in Nat /\ IsLastNonce(n, kept, a)
      <4>1. kept \subseteq kept /\ kept \subseteq all
        BY <1>5
      <4>2. CASE NoncesAt(undone, a) # {}
        BY <1>3, <2>1, <4>1, <4>2, LastNonceIsLast
      <4>3. CASE NoncesAt(undone, a) = {}
        BY <1>3, <2>1, <4>1, <4>3, LastNonceIsLast
      <4> QED  BY <4>2, <4>3
    <3>3. Nonce[t] = n + 1
      <4>1. t \in ToSet(Txs[h])
        BY <1>4 DEF ToSet
      <4> QED  BY <1>2, <1>3, <2>5, <4>1 DEF NoncesFollow
    <3>4. accountNonces'[a] = IF accountNonces[a] = n + 1 THEN n ELSE accountNonces[a]
      <4>1. accountNonces' = IF accountNonces[a] = Nonce[t]
                             THEN [accountNonces EXCEPT ![a] = Nonce[t] - 1] ELSE accountNonces
        BY <1>1, <2>5 DEF RollbackNonce
      <4>2. Nonce[t] - 1 = n
        <5> HIDE DEF n
        <5> QED  BY <3>2, <3>3
      <4> HIDE DEF n
      <4> QED  BY <1>t, <3>3, <4>1, <4>2
    <3>5. accountNonces'[a] = n
      <4>1. CASE NoncesAt(undone, a) # {}
        <5>1. IsLastNonce(accountNonces[a], kept, a)
          BY <2>1, <4>1
        <5>2. n = accountNonces[a]
          BY <1>3, <2>1, <5>1, LastNonceIs
        <5> HIDE DEF n
        <5> QED  BY <3>2, <3>4, <5>2
      <4>2. CASE NoncesAt(undone, a) = {}
        <5>1. IsLastNonce(accountNonces[a], all, a)
          BY <2>1, <4>2
        <5>2. NoncesAt(all, a) = NoncesAt(kept, a) \cup NoncesAt(Places({h}), a)
          <6>1. NoncesAt(kept \cup Places({h}), a) = NoncesAt(kept, a) \cup NoncesAt(Places({h}), a)
            <7> HIDE DEF kept, h, all, n
            <7> QED  BY NoncesAtUnion
          <6> QED  BY <1>5, <6>1
        <5>3. \A m \in NoncesAt(kept, a) : m <= n
          BY <3>2 DEF IsLastNonce
        <5>4. \A m \in NoncesAt(Places({h}), a) : m = n + 1
          BY <1>2, <1>3, NoncesOfBlock
        <5>5. n + 1 \in NoncesAt(all, a)
          BY <1>4, <1>5, <2>5, <3>3 DEF NoncesAt
        <5> HIDE DEF n
        <5>6. n + 1 <= accountNonces[a]
          BY <5>1, <5>5 DEF IsLastNonce
        <5>7. accountNonces[a] \in NoncesAt(all, a) \cup {0}
          BY <5>1 DEF IsLastNonce
        <5>8. CASE accountNonces[a] \in NoncesAt(kept, a) \cup {0}
          BY <2>1, <3>2, <5>3, <5>6, <5>8
        <5>9. CASE accountNonces[a] \in NoncesAt(Places({h}), a)
          BY <3>4, <5>4, <5>9
        <5> QED  BY <5>2, <5>7, <5>8, <5>9
      <4> QED  BY <4>1, <4>2
    <3> QED  BY <3>1, <3>2, <3>5
  <2> QED  BY <2>4, <2>5
<1> QED  BY <1>7, <1>8, <1>9

\* RemoveUTXOs, at the end of the block that is undone.
LEMMA ReplayRemove ==
    ASSUME IndInv, ~Concurrent, ReplayInv, failed = {}, RollbackBlock
    PROVE  WorkInv' /\ LedgerInv' /\ NonceInv'
<1> DEFINE h == bestBlock
           B == ToSet(Path[commonParent])
<1>t. /\ WorkInv /\ LedgerInv /\ NonceInv /\ TypeOK /\ IsUTXOMap(utxos) /\ txi \in Nat \ {0}
      /\ ToSet(blocks) \subseteq Block
  BY ReplayFacts
<1>1. /\ phase = "rollback" /\ removing # <<>> /\ removing = <<h>> /\ Head(removing) = h
      /\ h # Genesis /\ commonParent = Parent(h) /\ BlockDone(h) /\ txi <= Len(Txs[h]) + 1
      /\ utxos' = RemoveUTXOs(utxos, h) /\ txi' = 1 /\ removing' = Tail(removing)
      /\ UNCHANGED <<accountNonces, blocks, bestBlock, blockIndex, phase, adding, commonParent>>
  BY <1>t DEF RollbackBlock, WorkInv, chainVars, indexVars
<1>2. removing' = <<>>
  BY <1>1
<1>3. /\ h \in Block /\ h \in blockIndex /\ blocks = Path[h] /\ Path[commonParent] \in Seq(Block)
      /\ Path[h] = Append(Path[commonParent], h)
  BY <1>1, RollbackChain
<1>4. /\ ToSet(blocks) = B \cup {h} /\ B \subseteq Block
      /\ \A c \in B : Number(c) < Number(h)
      /\ h \notin B
  BY <1>3, AppendedChain
<1>5. undone = Places({h}) /\ Places(ToSet(blocks)) = Places(B) \cup Places({h})
  <2>1. Txs[h] \in Seq(Tx)
    BY <1>3, TxAssumption
  <2>2. txi - 1 \in Nat /\ txi - 1 = Len(Txs[h])
    BY <1>t, <1>1, <2>1 DEF BlockDone
  <2>3. undone = Places({h})
    BY <1>3, <2>2, PlacesOfBlock DEF undone
  <2> QED  BY <1>4, <2>3, PlacesUnion
<1>6. Places(ToSet(blocks)) \ undone = Places(B)
  <2>1. \A q \in Places(B) : q \notin Places({h})
    <3> TAKE q \in Places(B)
    <3>1. q[1] \in B
      BY PlaceFacts
    <3>2. q \in Places({h}) => q[1] = h
      BY PlaceFacts
    <3> QED  BY <1>4, <3>1, <3>2
  <2> HIDE DEF B
  <2> QED  BY <1>5, <2>1
<1>7. WorkInv'
  BY <1>t, <1>1, <1>2 DEF WorkInv
<1>8. LedgerInv'
  <2>1. IsBook(utxos, Places(B \cup {h}), Places(B)) /\ IsSound(Places(B \cup {h}))
    BY <1>t, <1>1, <1>4, <1>6 DEF LedgerInv
  <2>2. IsBook(RemoveUTXOs(utxos, h), Places(B), Places(B)) /\ IsSound(Places(B))
    <3> HIDE DEF B, h
    <3> QED  BY <1>t, <1>3, <1>4, <2>1, RemoveBlock
  <2> QED  BY <1>1, <1>2, <2>2 DEF LedgerInv
<1>9. NonceInv'
  <2> SUFFICES ASSUME \A b \in blockIndex : NoncesFollow(b), NEW a \in Address
               PROVE  IsLastNonce(accountNonces[a], Places(B), a)
    BY <1>1, <1>2 DEF NonceInv, NoncesFollow, LastNonce, NoncesUsed, OnChain
  <2>1. IsLastNonce(accountNonces[a], IF NoncesAt(undone, a) # {} THEN Places(B)
                                      ELSE Places(ToSet(blocks)), a)
    BY <1>t, <1>1 DEF NonceInv
  <2>2. CASE NoncesAt(undone, a) # {}
    BY <2>1, <2>2
  <2>3. CASE NoncesAt(undone, a) = {}
    <3>1. NoncesAt(Places(ToSet(blocks)), a) = NoncesAt(Places(B), a)
      <4>1. NoncesAt(Places(B) \cup Places({h}), a) = NoncesAt(Places(B), a) \cup NoncesAt(Places({h}), a)
        BY NoncesAtUnion
      <4>2. NoncesAt(Places({h}), a) = {}
        BY <1>5, <2>3
      <4> HIDE DEF B, h
      <4> QED  BY <1>5, <4>1, <4>2
    <3> QED  BY <2>1, <2>3, <3>1 DEF IsLastNonce
  <2> QED  BY <2>2, <2>3
<1> QED  BY <1>7, <1>8, <1>9

\* A call that has the lock again begins its rollback.
LEMMA ReplayReorganize ==
    ASSUME IndInv, ~Concurrent, ReplayInv, failed = {}, NEW b \in Block, reorganizeChain(b)
    PROVE  WorkInv' /\ LedgerInv' /\ NonceInv'
<1>t. WorkInv /\ LedgerInv /\ NonceInv
  BY ReplayFacts
<1>1. /\ phase = "idle" /\ phase' = "rollback" /\ txi' = 1
      /\ UNCHANGED <<utxos, accountNonces, blocks, bestBlock, blockIndex>>
  BY DEF reorganizeChain, CanTakeLock, chainVars, indexVars, ledgerVars
<1>2. blocks = Path[bestBlock] /\ bestBlock \in Block
  BY <1>1, RollbackChain
<1>3. placed = Places(ToSet(blocks))
  BY <1>t, <1>1, PlacedBetween DEF WorkInv
<1>4. undone' = {} /\ \A a : NoncesAt(undone', a) = {}
  BY <1>1 DEF undone, FirstPlaces, NoncesAt
<1>5. CASE removing' = <<>> /\ commonParent' = bestBlock
  <2>1. WorkInv'
    BY <1>1, <1>5 DEF WorkInv
  <2>2. LedgerInv'
    BY <1>t, <1>1, <1>2, <1>3, <1>5 DEF LedgerInv
  <2>3. NonceInv'
    BY <1>t, <1>1, <1>2, <1>3, <1>5 DEF NonceInv, NoncesFollow, LastNonce, NoncesUsed, OnChain
  <2> QED  BY <2>1, <2>2, <2>3
<1>6. CASE removing' = <<bestBlock>> /\ commonParent' = Parent(bestBlock) /\ bestBlock # Genesis
  <2>0. Txs[bestBlock] \in Seq(Tx)
    BY <1>2, TxAssumption
  <2>1. WorkInv'
    BY <1>1, <1>6, <2>0 DEF WorkInv
  <2>2. LedgerInv'
    BY <1>t, <1>1, <1>3, <1>4, <1>6 DEF LedgerInv
  <2>3. NonceInv'
    BY <1>t, <1>1, <1>3, <1>4, <1>6 DEF NonceInv, NoncesFollow, LastNonce, NoncesUsed, OnChain
  <2> QED  BY <2>1, <2>2, <2>3
<1> QED  BY <1>5, <1>6, TipIsUndone

\* A step that moves no output and no nonce, with phases other than "rollback" around it
\* and the same places.
LEMMA SamePlaces ==
    ASSUME LedgerInv, NonceInv, phase # "rollback", phase' # "rollback", placed' = placed,
           UNCHANGED <<utxos, accountNonces>>, blockIndex \subseteq blockIndex'
    PROVE  LedgerInv' /\ NonceInv'
<1>1. LedgerInv'
  BY DEF LedgerInv
<1>2. NonceInv'
  BY DEF NonceInv, NoncesFollow, LastNonce, NoncesUsed, OnChain
<1> QED  BY <1>1, <1>2

\* The block whose transactions are processed becomes part of the chain.
LEMMA ReplayAppend ==
    ASSUME IndInv, ~Concurrent, ReplayInv, failed = {}, FinishExtend \/ ApplyBlock
    PROVE  WorkInv' /\ LedgerInv' /\ NonceInv'
<1> DEFINE h == Head(adding)
<1>t. /\ WorkInv /\ LedgerInv /\ NonceInv /\ TypeOK
      /\ WorkIsIndexed /\ txi \in Nat \ {0}
  BY ReplayFacts DEF IndInv, BaseInv
<1>1. /\ phase \in {"extend", "apply"} /\ adding # <<>> /\ BlockDone(h)
      /\ blocks' = Append(blocks, h) /\ phase' \in {"idle", "apply"}
      /\ phase' = "idle" => adding' = <<>>
      /\ phase' = "apply" => txi' = 1
      /\ blockIndex \subseteq blockIndex'
      /\ UNCHANGED <<utxos, accountNonces>>
  <2>1. CASE FinishExtend
    BY <1>t, <2>1 DEF FinishExtend, AppendBlock, WorkIsIndexed, indexVars, ledgerVars
  <2>2. CASE ApplyBlock
    BY <2>2 DEF ApplyBlock, AppendBlock, ledgerVars
  <2> QED  BY <2>1, <2>2
<1>2. h \in Block /\ blocks \in Seq(Block)
  BY <1>1, WorkChain
<1>3. ToSet(blocks') = ToSet(blocks) \cup {h}
  <2> HIDE DEF h
  <2> QED  BY <1>1, <1>2, ToSetOfAppend
<1>4. placed = Places(ToSet(blocks'))
  BY <1>t, <1>1, <1>2, <1>3, PlacedAtEnd
<1>5. placed' = Places(ToSet(blocks'))
  <2>1. \A b : FirstPlaces(b, 1 - 1) = {}
    BY DEF FirstPlaces
  <2>2. adding' = <<>> \/ txi' = 1
    BY <1>1
  <2> QED  BY <2>1, <2>2 DEF placed
<1>6. WorkInv'
  <2> SUFFICES ASSUME phase' = "apply", adding' # <<>> PROVE 1 <= Len(Txs[Head(adding')]) + 1
    BY <1>1 DEF WorkInv
  <2>1. adding' = Tail(adding) /\ adding \in Seq(Block)
    BY <1>t DEF FinishExtend, ApplyBlock, TypeOK
  <2>2. Head(adding') \in Block
    BY <1>1, <2>1
  <2>3. Txs[Head(adding')] \in Seq(Tx)
    BY <2>2, TxAssumption
  <2> QED  BY <2>3
<1> QED  BY <1>t, <1>1, <1>4, <1>5, <1>6, SamePlaces

\* The rollback is over.
LEMMA ReplayTruncate ==
    ASSUME IndInv, ~Concurrent, ReplayInv, failed = {}, TruncateBlocks
    PROVE  WorkInv' /\ LedgerInv' /\ NonceInv'
<1>t. WorkInv /\ LedgerInv /\ NonceInv /\ TypeOK
  BY ReplayFacts
<1>1. /\ phase = "rollback" /\ removing = <<>> /\ phase' = "apply" /\ txi' = 1
      /\ UNCHANGED <<utxos, accountNonces, adding, blockIndex>>
  BY DEF TruncateBlocks, indexVars, ledgerVars
<1>2. blocks' = Path[commonParent]
  BY CutChain
<1>3. placed' = Places(ToSet(Path[commonParent]))
  <2>1. \A b : FirstPlaces(b, 1 - 1) = {}
    BY DEF FirstPlaces
  <2> QED  BY <1>1, <1>2, <2>1 DEF placed
<1>4. WorkInv'
  <2> SUFFICES ASSUME adding # <<>> PROVE 1 <= Len(Txs[Head(adding)]) + 1
    BY <1>1 DEF WorkInv
  <2>1. Head(adding) \in Block
    BY <1>t, WorkBlock
  <2>2. Txs[Head(adding)] \in Seq(Tx)
    BY <2>1, TxAssumption
  <2> QED  BY <2>2
<1>5. LedgerInv'
  BY <1>t, <1>1, <1>3 DEF LedgerInv
<1>6. NonceInv'
  BY <1>t, <1>1, <1>3 DEF NonceInv, NoncesFollow, LastNonce, NoncesUsed, OnChain
<1> QED  BY <1>4, <1>5, <1>6

LEMMA ReplayExtend ==
    ASSUME IndInv, ReplayInv, failed = {}, NEW b \in Block, ExtendBestBlock(b)
    PROVE  WorkInv' /\ LedgerInv' /\ NonceInv'
<1>t. WorkInv /\ LedgerInv /\ NonceInv
  BY ReplayFacts
<1>1. /\ phase = "idle" /\ phase' = "extend" /\ adding' = <<b>> /\ txi' = 1
      /\ blockIndex \subseteq blockIndex'
      /\ UNCHANGED <<utxos, accountNonces, blocks>>
  BY DEF ExtendBestBlock, Accepts, CanTakeLock, ledgerVars, chainVars
<1>2. Txs[b] \in Seq(Tx)
  BY TxAssumption
<1>3. WorkInv'
  BY <1>1, <1>2 DEF WorkInv
<1>4. placed' = placed
  <2>1. \A c : FirstPlaces(c, 1 - 1) = {}
    BY DEF FirstPlaces
  <2>2. placed = Places(ToSet(blocks))
    BY <1>t, <1>1, PlacedBetween DEF WorkInv
  <2> QED  BY <1>1, <2>1, <2>2 DEF placed
<1> QED  BY <1>t, <1>1, <1>3, <1>4, SamePlaces

LEMMA ReplayFinish ==
    ASSUME IndInv, ReplayInv, failed = {}, FinishReorganize
    PROVE  WorkInv' /\ LedgerInv' /\ NonceInv'
<1>t. WorkInv /\ LedgerInv /\ NonceInv
  BY ReplayFacts
<1>1. /\ phase = "apply" /\ phase' = "idle" /\ adding = <<>>
      /\ UNCHANGED <<utxos, accountNonces, blocks, blockIndex, adding>>
  BY DEF FinishReorganize, ledgerVars, chainVars, indexVars
<1>2. WorkInv'
  BY <1>1 DEF WorkInv
<1>3. placed' = placed
  BY <1>1 DEF placed
<1> QED  BY <1>t, <1>1, <1>2, <1>3, SamePlaces

LEMMA ReplayStep ==
    ASSUME IndInv, ~Concurrent, ReplayInv, [Next]_vars
    PROVE  ReplayInv'
<1> SUFFICES ASSUME failed' = {} PROVE ReplayInv'
  BY DEF ReplayInv
<1>1. ASSUME NEW b \in Block, AddBlockV2(b) PROVE ReplayInv'
  <2>1. CASE ExtendBestBlock(b)
    <3>1. failed = {}
      BY <2>1 DEF ExtendBestBlock
    <3> QED  BY <2>1, <3>1, ReplayExtend DEF ReplayInv
  <2>2. CASE StoreForkBlock(b)
    <3>1. UNCHANGED replayVars /\ failed' = failed /\ blockIndex \subseteq blockIndex'
      BY <2>2 DEF StoreForkBlock, replayVars, chainVars, ledgerVars, callVars
    <3> QED  BY <3>1, SameLedger
  <2> QED  BY <1>1, <2>1, <2>2 DEF AddBlockV2
<1>2. ASSUME NEW b \in Block, reorganizeChain(b) PROVE ReplayInv'
  <2>1. failed = {}
    BY <1>2 DEF reorganizeChain
  <2> QED  BY <1>2, <2>1, ReplayReorganize DEF ReplayInv
<1>3. CASE CallStep
  <2>1. ~RefuseTransaction
    BY DEF RefuseTransaction
  <2>2. failed = {}
    BY <1>3, <2>1 DEF CallStep, ProcessTransaction, FinishExtend, RollbackTransaction,
        RollbackBlock, TruncateBlocks, ApplyBlock, FinishReorganize
  <2>3. WorkInv' /\ LedgerInv' /\ NonceInv'
    BY <1>3, <2>1, <2>2, ReplayProcess, ReplayRollback, ReplayRemove, ReplayAppend, ReplayTruncate,
       ReplayFinish DEF CallStep
  <2> QED  BY <2>3 DEF ReplayInv
<1>4. ASSUME NEW t \in UserTx, CheckNonce(t) \/ AddToPool(t) PROVE ReplayInv'
  <2>1. UNCHANGED replayVars /\ failed' = failed /\ blockIndex \subseteq blockIndex'
    BY <1>4 DEF CheckNonce, AddToPool, replayVars, chainVars, ledgerVars, indexVars, callVars
  <2> QED  BY <2>1, SameLedger
<1>5. CASE UNCHANGED vars
  <2>1. UNCHANGED replayVars /\ failed' = failed /\ blockIndex \subseteq blockIndex'
    BY <1>5 DEF vars, replayVars, chainVars, ledgerVars, indexVars, callVars
  <2> QED  BY <2>1, SameLedger
<1> QED  BY <1>1, <1>2, <1>3, <1>4, <1>5 DEF Next

LEMMA InitReplay == Init => ReplayInv
<1> SUFFICES ASSUME Init PROVE WorkInv /\ LedgerInv /\ NonceInv
  BY DEF ReplayInv
<1>1. Txs[Genesis] = <<>>
  BY TxAssumption
<1>2. Places({Genesis}) = {}
  BY <1>1 DEF Places
<1>3. placed = {}
  <2>1. ToSet(<<Genesis>>) = {Genesis}
    BY DEF ToSet
  <2> QED  BY <1>2, <2>1 DEF Init, placed
<1>4. WorkInv
  BY DEF Init, WorkInv
<1>5. LedgerInv
  <2>1. phase = "idle" /\ utxos = NewUTXOSet /\ DOMAIN utxos = {}
    BY DEF Init, NewUTXOSet
  <2>2. IsBook(utxos, {}, {}) /\ IsSound({})
    BY <2>1 DEF IsBook, IsSound
  <2> QED  BY <1>3, <2>1, <2>2 DEF LedgerInv
<1>6. NonceInv
  BY <1>3 DEF Init, NonceInv, IsLastNonce, NoncesAt
<1> QED  BY <1>4, <1>5, <1>6

-----------------------------------------------------------------------------
(* The theorems *)

\* The invariant of the ledger: in every phase of a call the UTXO set and the nonces are
\* those of the places that are processed and not yet undone.
THEOREM ReplayInvHolds ==
    ASSUME ~Concurrent
    PROVE  Spec => []ReplayInv
<1>1. Init => ReplayInv
  BY InitReplay
<1>2. IndInv /\ ReplayInv /\ [Next]_vars => ReplayInv'
  BY ReplayStep
<1> QED  BY <1>1, <1>2, IndInvHolds, PTL DEF Spec

\* With one caller at a time, as long as no block is refused, the UTXO set between two
\* calls is the one that a replay of the main chain gives: what reorganizeChain undoes
\* (1277-1375) and applies again leaves nothing behind and loses nothing.
THEOREM LedgerIsReplayHolds ==
    ASSUME ~Concurrent
    PROVE  Spec => []LedgerIsReplay
<1>1. IndInv /\ ReplayInv => LedgerIsReplay
  <2> SUFFICES ASSUME IndInv, ReplayInv, phase = "idle", failed = {}
               PROVE  utxos = Ledger(blocks)
    BY DEF LedgerIsReplay
  <2> DEFINE P == Places(ToSet(blocks))
  <2>1. /\ WorkInv /\ LedgerInv /\ IsUTXOMap(utxos) /\ ToSet(blocks) \subseteq Block
        /\ P \subseteq Places(Block)
    BY ReplayFacts
  <2>2. placed = P
    BY <2>1, PlacedBetween DEF WorkInv
  <2>3. IsBook(utxos, P, P)
    BY <2>1, <2>2 DEF LedgerInv
  <2>4. \A t : OnChain(blocks, t) <=> \E p \in P : TxAt(p) = t
    BY <2>1, OnChainPlaces
  <2>5. \A p \in P : TxAt(p) \in Tx /\ Outputs[TxAt(p)] \subseteq OutPoint
    BY <2>1, PlaceTx, TxFacts
  <2>6. CreatedOn(blocks) = UNION {Outputs[TxAt(p)] : p \in P}
    BY <2>4, <2>5 DEF CreatedOn
  <2>7. SpentOn(blocks) = UNION {InputSet(TxAt(p)) : p \in P}
    BY <2>4, <2>5 DEF SpentOn
  <2>8. DOMAIN utxos = CreatedOn(blocks)
    BY <2>1, <2>3, <2>5, <2>6 DEF IsBook, IsUTXOMap
  <2>9. \A o \in DOMAIN utxos : utxos[o].spent = (o \in SpentOn(blocks))
    BY <2>1, <2>3, <2>7 DEF IsBook, IsUTXOMap, UTXO
  <2>10. \A o \in DOMAIN utxos :
             utxos[o].block = CHOOSE b \in ToSet(blocks) : \E t \in ToSet(Txs[b]) : o \in Outputs[t]
    <3> TAKE o \in DOMAIN utxos
    <3>1. PICK p \in P : o \in Outputs[TxAt(p)]
      BY <2>6, <2>8
    <3>2. p[1] \in ToSet(blocks) /\ p[2] \in DOMAIN Txs[p[1]]
      BY PlaceFacts
    <3>3. \E b \in ToSet(blocks) : \E t \in ToSet(Txs[b]) : o \in Outputs[t]
      BY <3>1, <3>2 DEF TxAt, ToSet
    <3>4. ASSUME NEW b \in ToSet(blocks), NEW t \in ToSet(Txs[b]), o \in Outputs[t]
          PROVE  b = utxos[o].block
      <4>1. Txs[b] \in Seq(Tx)
        BY <2>1, TxAssumption
      <4>2. PICK i \in DOMAIN Txs[b] : Txs[b][i] = t
        BY <4>1, ToSetOfSeq
      <4>3. <<b, i>> \in P /\ TxAt(<<b, i>>) = t
        BY <4>2, PlaceIn
      <4> QED  BY <2>3, <3>4, <4>3 DEF IsBook
    <3> QED  BY <3>3, <3>4
  <2>11. \A o \in DOMAIN utxos :
             utxos[o] = [spent |-> o \in SpentOn(blocks),
                         block |-> CHOOSE b \in ToSet(blocks) : \E t \in ToSet(Txs[b]) : o \in Outputs[t]]
    <3> TAKE o \in DOMAIN utxos
    <3>1. utxos[o] \in UTXO
      BY <2>1 DEF IsUTXOMap
    <3> QED  BY <2>9, <2>10, <3>1 DEF UTXO
  <2>12. utxos = [o \in DOMAIN utxos |-> utxos[o]]
    BY <2>3, <2>1 DEF IsUTXOMap
  <2> QED  BY <2>8, <2>11, <2>12 DEF Ledger
<1> QED  BY <1>1, IndInvHolds, ReplayInvHolds, PTL

\* With one caller at a time, as long as no block is refused, no output is spent by two
\* transactions of the main chain, whatever the miners put into their blocks.
THEOREM NoDoubleSpendHolds ==
    ASSUME ~Concurrent
    PROVE  Spec => [](failed = {} => NoDoubleSpend)
<1>1. IndInv /\ ReplayInv => (failed = {} => NoDoubleSpend)
  <2> SUFFICES ASSUME IndInv, ReplayInv, failed = {}, phase = "idle", NEW t, NEW u,
                      OnChain(blocks, t), OnChain(blocks, u),
                      InputSet(t) \cap InputSet(u) # {}
               PROVE  t = u
    BY DEF NoDoubleSpend
  <2> DEFINE P == Places(ToSet(blocks))
  <2>1. WorkInv /\ LedgerInv /\ ToSet(blocks) \subseteq Block
    BY ReplayFacts
  <2>2. IsSound(P)
    <3>1. placed = P
      BY <2>1, PlacedBetween DEF WorkInv
    <3> QED  BY <2>1, <3>1 DEF LedgerInv
  <2>3. PICK p \in P : TxAt(p) = t
    BY <2>1, OnChainPlaces
  <2>4. PICK q \in P : TxAt(q) = u
    BY <2>1, OnChainPlaces
  <2>5. p = q
    BY <2>2, <2>3, <2>4 DEF IsSound
  <2> QED  BY <2>3, <2>4, <2>5
<1> QED  BY <1>1, IndInvHolds, ReplayInvHolds, PTL

\* With one caller at a time, as long as no block is refused, every account's nonce between
\* two calls is the highest it used on the main chain, if each block's nonces follow those
\* of its own branch.
THEOREM NoncesAreReplayHolds ==
    ASSUME ~Concurrent
    PROVE  Spec => []NoncesAreReplay
<1>1. IndInv /\ ReplayInv => NoncesAreReplay
  <2> SUFFICES ASSUME IndInv, ReplayInv, phase = "idle", failed = {},
                      \A b \in blockIndex : NoncesFollow(b), NEW a \in Address
               PROVE  accountNonces[a] = LastNonce(blocks, a)
    BY DEF NoncesAreReplay
  <2>1. WorkInv /\ NonceInv /\ ToSet(blocks) \subseteq Block /\ accountNonces[a] \in Nat
    BY ReplayFacts
  <2>2. placed = Places(ToSet(blocks))
    BY <2>1, PlacedBetween DEF WorkInv
  <2>3. IsLastNonce(accountNonces[a], Places(ToSet(blocks)), a)
    BY <2>1, <2>2 DEF NonceInv
  <2> QED  BY <2>1, <2>3, LastNonceIs
<1> QED  BY <1>1, IndInvHolds, ReplayInvHolds, PTL
=============================================================================
