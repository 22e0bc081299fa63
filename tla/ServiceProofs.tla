---------------------------- MODULE ServiceProofs ----------------------------
(***************************************************************************)
(* What a node keeps beside its chain, for any transactions, accounts,     *)
(* names, branches, addresses, wallets, requests and connections:          *)
(*  - token balances stay natural numbers, there are none of an unknown    *)
(*    name, the first deployment of a name fixes creator and supply,       *)
(*    nothing but deployments and starts changes the sum of the balances,  *)
(*    and a restart gives back what the blocks of an orderly chain gave;   *)
(*  - a seed that the node holds was approved, whatever requests overlap;  *)
(*    without overlaps what clients were told is kept;                     *)
(*  - the peer table has one entry for an address, and a goroutine reads   *)
(*    from each connection in it.                                          *)
(***************************************************************************)
EXTENDS Tokens, SeedRegistry, Peers, SequenceLemmas

-----------------------------------------------------------------------------
(* Tokens. *)

TokensInv == TokensTypeOK /\ BalancesAreOfTokens

\* The two variables that both properties are about.
LedgerOK ==
    /\ DOMAIN deployedTokens \subseteq TokenName
    /\ \A n \in DOMAIN deployedTokens : deployedTokens[n] \in TokenInfo
    /\ tokenBalances \in [Key -> [TokenName -> Nat]]
    /\ BalancesAreOfTokens

\* A step keeps the ledger in order and what is deployed under its creator.
KeepsNames ==
    \A n \in DOMAIN deployedTokens :
        /\ n \in DOMAIN deployedTokens'
        /\ deployedTokens'[n].creator = deployedTokens[n].creator
        /\ deployedTokens'[n].supply = deployedTokens[n].supply

LedgerStep == LedgerOK' /\ KeepsNames

LEMMA RecordTypes ==
    ASSUME NEW t \in TokenTx
    PROVE  /\ TokenData[t] \in TokenRecord
           /\ TokenData[t].name \in TokenName /\ TokenData[t].amount \in Nat
           /\ Hex(TokenData[t].from) \in Key /\ Hex(TokenData[t].to) \in Key
<1>1. TokenData[t] \in TokenRecord
  BY TokenAssumption
<1> QED BY <1>1 DEF TokenRecord, Key, Hex

\* What a write to one balance leaves of the others.
LEMMA SetBalanceType ==
    ASSUME tokenBalances \in [Key -> [TokenName -> Nat]],
           NEW k \in Key, NEW n \in TokenName, NEW amount \in Nat
    PROVE  /\ SetBalance(k, n, amount) \in [Key -> [TokenName -> Nat]]
           /\ \A j \in Key, m \in TokenName :
                 SetBalance(k, n, amount)[j][m] =
                     IF j = k /\ m = n THEN amount ELSE tokenBalances[j][m]
  BY DEF SetBalance

\* A new name is entered with some balance of its own, or with none.
LEMMA NewTokenStep ==
    ASSUME LedgerOK, NEW n \in TokenName, ~Deployed(n),
           NEW k \in Key, NEW amount \in Nat, NEW height \in Nat,
           deployedTokens' = AddToken(n, k, amount, height),
           tokenBalances' = SetBalance(k, n, amount) \/ tokenBalances' = tokenBalances
    PROVE  LedgerStep
<1>1. /\ DOMAIN deployedTokens' = DOMAIN deployedTokens \cup {n}
      /\ deployedTokens'[n] = [creator |-> k, supply |-> amount, height |-> height]
      /\ \A m \in DOMAIN deployedTokens : deployedTokens'[m] = deployedTokens[m]
  BY DEF AddToken, Deployed
<1>2. \A m \in DOMAIN deployedTokens' : deployedTokens'[m] \in TokenInfo
  BY <1>1 DEF LedgerOK, TokenInfo
<1>3. tokenBalances' \in [Key -> [TokenName -> Nat]]
  BY SetBalanceType DEF LedgerOK
<1>4. BalancesAreOfTokens'
  BY <1>1, SetBalanceType DEF LedgerOK, BalancesAreOfTokens, Deployed
<1>5. KeepsNames
  BY <1>1 DEF KeepsNames
<1> QED BY <1>1, <1>2, <1>3, <1>4, <1>5 DEF LedgerStep, LedgerOK

\* Balances of known names change.
LEMMA BalanceStep ==
    ASSUME LedgerOK, UNCHANGED deployedTokens, NEW n \in TokenName, Deployed(n),
           tokenBalances' \in [Key -> [TokenName -> Nat]],
           \A j \in Key, m \in TokenName \ {n} : tokenBalances'[j][m] = tokenBalances[j][m]
    PROVE  LedgerStep
  BY DEF LedgerStep, LedgerOK, KeepsNames, BalancesAreOfTokens, Deployed

LEMMA DeploymentStep ==
    ASSUME LedgerOK, NEW t \in TokenTx, NEW number \in Nat,
           processTokenDeployment(t, number)
    PROVE  LedgerStep
<1> DEFINE n == TokenData[t].name
           k == Hex(TokenData[t].from)
           amount == TokenData[t].amount
<1>1. n \in TokenName /\ k \in Key /\ amount \in Nat
  BY RecordTypes
<1>2. CASE ~Deployed(n)
  <2>1. /\ deployedTokens' = AddToken(n, k, amount, number)
        /\ tokenBalances' = SetBalance(k, n, amount)
    BY <1>2 DEF processTokenDeployment
  <2> HIDE DEF n, k, amount
  <2> QED BY <1>1, <1>2, <2>1, NewTokenStep
<1>3. CASE Deployed(n)
  <2>1. /\ deployedTokens' = [deployedTokens EXCEPT ![n].height = number]
        /\ tokenBalances' = SetBalance(k, n, amount) \/ tokenBalances' = tokenBalances
    BY <1>3 DEF processTokenDeployment
  <2> HIDE DEF n, k, amount
  <2>2. /\ DOMAIN deployedTokens' = DOMAIN deployedTokens
        /\ \A m \in DOMAIN deployedTokens \ {n} : deployedTokens'[m] = deployedTokens[m]
        /\ deployedTokens'[n] = [deployedTokens[n] EXCEPT !.height = number]
    BY <1>3, <2>1 DEF Deployed
  <2>3. deployedTokens[n] \in TokenInfo
    BY <1>3 DEF LedgerOK, Deployed
  <2>4. /\ deployedTokens'[n] \in TokenInfo
        /\ deployedTokens'[n].creator = deployedTokens[n].creator
        /\ deployedTokens'[n].supply = deployedTokens[n].supply
    BY <2>2, <2>3 DEF TokenInfo
  <2>5. KeepsNames
    BY <2>2, <2>4 DEF KeepsNames
  <2>6. tokenBalances' \in [Key -> [TokenName -> Nat]]
    BY <1>1, <2>1, SetBalanceType DEF LedgerOK
  <2>7. BalancesAreOfTokens'
    <3>1. SUFFICES ASSUME NEW j \in Key, NEW m \in TokenName, m # n, tokenBalances'[j][m] # 0
                   PROVE  Deployed(m)
      BY <1>3, <2>2 DEF BalancesAreOfTokens, Deployed
    <3>2. SetBalance(k, n, amount)[j][m] = tokenBalances[j][m]
      BY <1>1, <3>1, SetBalanceType DEF LedgerOK
    <3>3. tokenBalances[j][m] # 0
      BY <2>1, <3>1, <3>2
    <3> QED BY <3>3 DEF LedgerOK, BalancesAreOfTokens
  <2> QED BY <2>2, <2>4, <2>5, <2>6, <2>7 DEF LedgerStep, LedgerOK
<1> QED BY <1>2, <1>3

\* The debit is covered, and the credit comes after it.
LEMMA TransferStep ==
    ASSUME LedgerOK, NEW t \in TokenTx, processTokenTransfer(t)
    PROVE  LedgerStep
<1> DEFINE d == TokenData[t]
           n == d.name
           from == Hex(d.from)
           to == Hex(d.to)
           debited == Debit(tokenBalances, from, n, d.amount)
<1>1. n \in TokenName /\ from \in Key /\ to \in Key /\ d.amount \in Nat
  BY RecordTypes
<1>2. CASE Deployed(n) /\ Covered(d)
  <2>1. tokenBalances' = Credit(debited, to, n, d.amount) /\ UNCHANGED deployedTokens
    BY <1>2 DEF processTokenTransfer, Transferred
  <2>2. tokenBalances[from][n] >= d.amount
    BY <1>2 DEF Covered
  <2>3. tokenBalances[from][n] - d.amount \in Nat
    BY <1>1, <2>2 DEF LedgerOK
  <2>4. /\ debited \in [Key -> [TokenName -> Nat]]
        /\ \A j \in Key, m \in TokenName \ {n} : debited[j][m] = tokenBalances[j][m]
    BY <1>1, <2>3 DEF LedgerOK, Debit
  <2> HIDE DEF debited, from, to
  <2>5. /\ tokenBalances' \in [Key -> [TokenName -> Nat]]
        /\ \A j \in Key, m \in TokenName \ {n} : tokenBalances'[j][m] = debited[j][m]
    BY <1>1, <2>1, <2>4 DEF Credit
  <2> QED BY <1>1, <1>2, <2>1, <2>4, <2>5, BalanceStep
<1>3. CASE ~(Deployed(n) /\ Covered(d))
  <2>1. UNCHANGED ledger
    BY <1>3 DEF processTokenTransfer, ledger
  <2> QED BY <2>1 DEF ledger, LedgerStep, LedgerOK, KeepsNames, BalancesAreOfTokens, Deployed
<1> QED BY <1>2, <1>3

LEMMA NothingStep ==
    ASSUME LedgerOK, UNCHANGED ledger
    PROVE  LedgerStep
  BY DEF ledger, LedgerStep, LedgerOK, KeepsNames, BalancesAreOfTokens, Deployed

-----------------------------------------------------------------------------
(* The loops: what they have still to process has its type. *)

LoopOK ==
    /\ tokenChain \in Seq(Item) /\ todo \in Seq(Item)
    /\ firstOfBlock \in Nat
    /\ tokenPhase \in Phases
    /\ \A t \in deploying : t \in TokenTx /\ IsDeployment(t)
    /\ tokenTrouble \subseteq {"rpc", "refused", "reorganization"}

LEMMA TypeIsParts == TokensInv <=> LedgerOK /\ LoopOK
  BY DEF TokensInv, TokensTypeOK, LedgerOK, LoopOK

LEMMA HeightIsNat ==
    ASSUME LoopOK
    PROVE  TokenHeight \in Nat
<1>1. CASE tokenChain = <<>>
  BY <1>1 DEF TokenHeight
<1>2. CASE tokenChain # <<>>
  <2>1. tokenChain[Len(tokenChain)] \in Item
    BY <1>2 DEF LoopOK
  <2> QED BY <1>2, <2>1 DEF TokenHeight, Item
<1> QED BY <1>1, <1>2

LEMMA NextItem ==
    ASSUME LoopOK, todo # <<>>
    PROVE  /\ Head(todo) \in Item /\ Tail(todo) \in Seq(Item)
           /\ NextTx \in TokenTx /\ Head(todo).number \in Nat
           /\ Append(tokenChain, Head(todo)) \in Seq(Item)
<1>1. Head(todo) \in Item /\ Tail(todo) \in Seq(Item)
  BY DEF LoopOK
<1> QED BY <1>1 DEF LoopOK, NextTx, Item

LEMMA ProceedStep ==
    ASSUME LoopOK, todo # <<>>, Proceed
    PROVE  LoopOK'
  BY NextItem DEF Proceed, LoopOK, IsDeployment

\* A block and a branch are sequences of transactions with their numbers.
LEMMA BlockItems ==
    ASSUME NEW txs \in TokenBlocks, NEW number \in Nat
    PROVE  Numbered(txs, number) \in Seq(Item)
<1>1. txs \in Seq(TokenTx)
  BY TokenAssumption
<1>2. /\ Len(txs) \in Nat /\ DOMAIN txs = 1..Len(txs)
      /\ \A i \in 1..Len(txs) : [tx |-> txs[i], number |-> number] \in Item
  BY <1>1 DEF Item
<1> QED BY <1>2 DEF Numbered

LEMMA BranchItems ==
    ASSUME NEW branch \in Branches, NEW k \in Nat
    PROVE  [i \in DOMAIN branch |-> [tx |-> branch[i].tx, number |-> k + branch[i].block]]
               \in Seq(Item)
<1> DEFINE BranchItem == [tx : TokenTx, block : Nat \ {0}]
<1>1. branch \in Seq(BranchItem)
  BY TokenAssumption
<1>2. \A r \in BranchItem : r.tx \in TokenTx /\ r.block \in Nat
  OBVIOUS
<1> HIDE DEF BranchItem
<1>3. /\ Len(branch) \in Nat /\ DOMAIN branch = 1..Len(branch)
      /\ \A i \in 1..Len(branch) : branch[i].tx \in TokenTx /\ branch[i].block \in Nat
  BY <1>1, <1>2
<1>4. \A i \in 1..Len(branch) : [tx |-> branch[i].tx, number |-> k + branch[i].block] \in Item
  BY <1>3 DEF Item
<1> QED BY <1>3, <1>4

LEMMA KeptItems ==
    ASSUME LoopOK, NEW n \in Nat, n <= Len(tokenChain)
    PROVE  SubSeq(tokenChain, 1, n) \in Seq(Item)
  BY DEF LoopOK

-----------------------------------------------------------------------------
(* The actions. *)

LEMMA ExtendKeeps ==
    ASSUME LedgerOK, LoopOK, NEW txs \in TokenBlocks, ExtendTokens(txs)
    PROVE  LedgerStep /\ LoopOK'
<1>1. Numbered(txs, TokenHeight + 1) \in Seq(Item)
  BY HeightIsNat, BlockItems
<1>2. LoopOK'
  BY <1>1 DEF ExtendTokens, LoopOK, Phases, IsDeployment
<1> QED BY <1>2, NothingStep DEF ExtendTokens

LEMMA ReorganizeKeeps ==
    ASSUME LedgerOK, LoopOK, NEW n \in 0..Len(tokenChain), NEW branch \in Branches,
           ReorganizeTokens(n, branch)
    PROVE  LedgerStep /\ LoopOK'
<1> DEFINE k == IF n = 0 THEN 0 ELSE tokenChain[n].number
           items == [i \in DOMAIN branch |->
                        [tx |-> branch[i].tx, number |-> k + branch[i].block]]
<1>1. k \in Nat
  <2>1. n # 0 => tokenChain[n] \in Item
    BY DEF LoopOK
  <2> QED BY <2>1 DEF Item
<1>2. items \in Seq(Item)
  <2> HIDE DEF k
  <2> QED BY <1>1, BranchItems
<1>3. SubSeq(tokenChain, 1, n) \in Seq(Item)
  BY KeptItems DEF LoopOK
<1>4. /\ tokenChain' = SubSeq(tokenChain, 1, n) /\ todo' = items
      /\ tokenPhase' = "reorganize"
      /\ tokenTrouble' = tokenTrouble \cup {"reorganization"}
      /\ UNCHANGED <<ledger, firstOfBlock, deploying, savedTokens>>
  BY DEF ReorganizeTokens
<1> HIDE DEF items
<1>5. LoopOK'
  BY <1>2, <1>3, <1>4 DEF LoopOK, Phases, IsDeployment
<1> QED BY <1>4, <1>5, NothingStep

LEMMA RefuseKeeps ==
    ASSUME LedgerOK, LoopOK, RefuseTokenBlock
    PROVE  LedgerStep /\ LoopOK'
<1>1. SubSeq(tokenChain, 1, firstOfBlock) \in Seq(Item)
  BY KeptItems DEF RefuseTokenBlock, LoopOK
<1>2. LoopOK'
  BY <1>1 DEF RefuseTokenBlock, LoopOK, Phases, IsDeployment
<1> QED BY <1>2, NothingStep DEF RefuseTokenBlock

LEMMA DeployKeeps ==
    ASSUME LedgerOK, LoopOK, NEW t \in TokenTx, NEW form \in {"hex", "text"},
           handleDeployToken(t, form)
    PROVE  LedgerStep /\ LoopOK'
<1> DEFINE d == TokenData[t]
           k == <<d.from, form>>
<1>1. LoopOK'
  BY DEF handleDeployToken, DeployToken, LoopOK, IsDeployment
<1>2. LedgerStep
  <2>1. CASE NameIsFree(d.name)
    <3>1. /\ deployedTokens' = AddToken(d.name, k, d.amount, TokenHeight)
          /\ tokenBalances' = SetBalance(k, d.name, d.amount) \/ tokenBalances' = tokenBalances
      BY <2>1 DEF handleDeployToken, DeployToken
    <3>2. ~Deployed(d.name) /\ d.name \in TokenName /\ d.amount \in Nat /\ k \in Key
      BY <2>1, RecordTypes DEF NameIsFree, TokenRecord, Key
    <3> HIDE DEF d, k
    <3> QED BY <3>1, <3>2, HeightIsNat, NewTokenStep
  <2>2. CASE ~NameIsFree(d.name)
    BY <2>2, NothingStep DEF handleDeployToken, DeployToken
  <2> QED BY <2>1, <2>2
<1> QED BY <1>1, <1>2

LEMMA RestoreKeeps ==
    ASSUME LedgerOK, LoopOK, RestoreDeployment
    PROVE  LedgerStep /\ LoopOK'
<1> DEFINE d == TokenData[NextTx]
           k == Hex(d.from)
<1>0. todo # <<>> /\ Proceed
  BY DEF RestoreDeployment, Processing
<1>1. CASE Deployed(d.name)
  <2>1. UNCHANGED ledger
    BY <1>1 DEF RestoreDeployment
  <2> QED BY <1>0, <2>1, NothingStep, ProceedStep
<1>2. CASE ~Deployed(d.name)
  <2>1. /\ deployedTokens' = AddToken(d.name, k, d.amount, Head(todo).number)
        /\ tokenBalances' = SetBalance(k, d.name, d.amount)
    BY <1>2 DEF RestoreDeployment
  <2>2. d.name \in TokenName /\ d.amount \in Nat /\ k \in Key /\ Head(todo).number \in Nat
    BY <1>0, NextItem, RecordTypes
  <2>3. LoopOK'
    BY <1>0, ProceedStep
  <2> HIDE DEF d, k
  <2>4. LedgerStep
    BY <1>2, <2>1, <2>2, NewTokenStep
  <2> QED BY <2>3, <2>4
<1> QED BY <1>1, <1>2

LEMMA ReplayKeeps ==
    ASSUME LedgerOK, LoopOK, ReplayTransfer
    PROVE  LedgerStep /\ LoopOK'
<1>1. /\ todo # <<>> /\ Proceed
      /\ processTokenTransfer(NextTx) \/ UNCHANGED ledger
  BY DEF ReplayTransfer, Processing
<1> QED BY <1>1, NextItem, TransferStep, NothingStep, ProceedStep

LEMMA ProcessKeeps ==
    ASSUME LedgerOK, LoopOK, ProcessDeployment \/ ProcessTransfer \/ SkipTx
    PROVE  LedgerStep /\ LoopOK'
<1>1. /\ todo # <<>> /\ Proceed
      /\ \/ processTokenDeployment(NextTx, Head(todo).number)
         \/ processTokenTransfer(NextTx)
         \/ UNCHANGED ledger
  BY DEF ProcessDeployment, ProcessTransfer, SkipTx, Processing
<1> QED BY <1>1, NextItem, DeploymentStep, TransferStep, NothingStep, ProceedStep

\* A restart forgets all tokens, and with them all balances.
LEMMA RestartStep ==
    ASSUME LedgerOK, LoopOK, RestartTokens
    PROVE  LedgerOK' /\ LoopOK' /\ Restarting
<1>1. LoopOK'
  BY DEF RestartTokens, LoopOK, Phases
<1>2. LedgerOK'
  BY DEF RestartTokens, LedgerOK, NoBalances, BalancesAreOfTokens
<1> QED BY <1>1, <1>2 DEF RestartTokens, Restarting

LEMMA FinishKeeps ==
    ASSUME LedgerOK, LoopOK, FinishBlocks \/ FinishLoop
    PROVE  LedgerStep /\ LoopOK'
<1>1. UNCHANGED ledger
  BY DEF FinishBlocks, FinishLoop
<1>2. LedgerStep
  BY <1>1, NothingStep
<1>3. CASE FinishBlocks
  BY <1>2, <1>3 DEF FinishBlocks, LoopOK, Phases, IsDeployment
<1>4. CASE FinishLoop
  <2>1. tokenPhase' \in Phases
    BY <1>4 DEF FinishLoop, NextPhase, LoadingPhases, Phases
  <2>2. todo' \in Seq(Item) /\ tokenTrouble' \subseteq {"rpc", "refused", "reorganization"}
    BY <1>4 DEF FinishLoop, LoopOK
  <2> QED BY <1>2, <1>4, <2>1, <2>2 DEF FinishLoop, LoopOK, IsDeployment
<1> QED BY <1>3, <1>4

LEMMA CheckKeeps ==
    ASSUME LedgerOK, LoopOK, NEW t \in TokenTx, CheckTokenName(t)
    PROVE  LedgerStep /\ LoopOK'
<1>1. LoopOK'
  BY DEF CheckTokenName, LoopOK, IsDeployment
<1> QED BY <1>1, NothingStep DEF CheckTokenName

LEMMA StepKeepsTokens ==
    ASSUME LedgerOK, LoopOK, [TokensNext]_tokenVars
    PROVE  LedgerOK' /\ LoopOK' /\ (Restarting \/ KeepsNames)
<1>1. CASE UNCHANGED tokenVars
  <2>1. LoopOK'
    BY <1>1 DEF tokenVars, LoopOK, IsDeployment
  <2> QED BY <1>1, <2>1, NothingStep DEF tokenVars, LedgerStep
<1>2. CASE \E txs \in TokenBlocks : ExtendTokens(txs)
  BY <1>2, ExtendKeeps DEF LedgerStep
<1>3. CASE \E n \in 0..Len(tokenChain), branch \in Branches : ReorganizeTokens(n, branch)
  BY <1>3, ReorganizeKeeps DEF LedgerStep
<1>4. CASE ProcessDeployment \/ ProcessTransfer \/ SkipTx
  BY <1>4, ProcessKeeps DEF LedgerStep
<1>5. CASE RefuseTokenBlock
  BY <1>5, RefuseKeeps DEF LedgerStep
<1>6. CASE FinishBlocks \/ FinishLoop
  BY <1>6, FinishKeeps DEF LedgerStep
<1>7. CASE \E t \in TokenTx : CheckTokenName(t)
  BY <1>7, CheckKeeps DEF LedgerStep
<1>8. CASE \E t \in TokenTx, form \in {"hex", "text"} : handleDeployToken(t, form)
  BY <1>8, DeployKeeps DEF LedgerStep
<1>9. CASE RestartTokens
  BY <1>9, RestartStep
<1>10. CASE RestoreDeployment
  BY <1>10, RestoreKeeps DEF LedgerStep
<1>11. CASE ReplayTransfer
  BY <1>11, ReplayKeeps DEF LedgerStep
<1> QED BY <1>1, <1>2, <1>3, <1>4, <1>5, <1>6, <1>7, <1>8, <1>9, <1>10, <1>11 DEF TokensNext

LEMMA InitIsInOrder ==
    ASSUME TokensInit
    PROVE  LedgerOK /\ LoopOK
<1>1. LedgerOK
  BY DEF TokensInit, LedgerOK, NoBalances, BalancesAreOfTokens
<1> QED BY <1>1 DEF TokensInit, LoopOK, Phases

-----------------------------------------------------------------------------
\* The inductive invariant of the tokens: that a transfer is covered needs the type of
\* the balances, and that a balance is of a token the type of what is to be processed.
THEOREM TokensInvHolds == TokensSpec => []TokensInv
<1>1. TokensInit => TokensInv
  BY InitIsInOrder, TypeIsParts
<1>2. TokensInv /\ [TokensNext]_tokenVars => TokensInv'
  <2> SUFFICES ASSUME TokensInv, [TokensNext]_tokenVars
               PROVE  TokensInv'
    OBVIOUS
  <2>1. LedgerOK' /\ LoopOK'
    BY TypeIsParts, StepKeepsTokens
  <2> QED BY <2>1 DEF TokensInv, TokensTypeOK, LedgerOK, LoopOK
<1> QED BY <1>1, <1>2, PTL DEF TokensSpec

\* Every variable keeps its type, and no balance wraps (blockchain.go:980).
THEOREM TokensTypeCorrect == TokensSpec => []TokensTypeOK
<1>1. TokensInv => TokensTypeOK
  BY DEF TokensInv
<1> QED BY <1>1, TokensInvHolds, PTL

\* A name that is not deployed has no balances (processTokenTransfer, DeployToken and
\* the passes of loadChainFromStorage).
THEOREM BalancesAreOfTokensHolds == TokensSpec => []BalancesAreOfTokens
<1>1. TokensInv => BalancesAreOfTokens
  BY DEF TokensInv
<1> QED BY <1>1, TokensInvHolds, PTL

\* The first deployment of a name fixes its creator and its supply until the node is
\* started again (DeployToken, processTokenDeployment).
THEOREM FirstDeployerKeepsNameHolds == TokensSpec => FirstDeployerKeepsName
<1>1. TokensInv /\ [TokensNext]_tokenVars => (Restarting \/ KeepsNames)
  BY TypeIsParts, StepKeepsTokens
<1>2. Restarting \/ KeepsNames =>
          [~Restarting =>
             \A n \in DOMAIN deployedTokens :
                /\ n \in DOMAIN deployedTokens'
                /\ deployedTokens'[n].creator = deployedTokens[n].creator
                /\ deployedTokens'[n].supply = deployedTokens[n].supply]_tokenVars
  BY DEF KeepsNames
<1> QED BY <1>1, <1>2, TokensInvHolds, PTL DEF TokensSpec, FirstDeployerKeepsName

-----------------------------------------------------------------------------
(* The sum of the balances of a token. *)

SumOf(balances, n) == MapThenSumSet(LAMBDA k : balances[k][n], Key)

Balances == [Key -> [TokenName -> Nat]]

LEMMA FiniteKeys ==
    ASSUME IsFiniteSet(Account)
    PROVE  IsFiniteSet(Key)
<1>1. IsFiniteSet({"hex", "text"})
  <2>1. {"hex", "text"} = {"hex"} \cup {"text"}
    OBVIOUS
  <2>2. IsFiniteSet({"hex"})
    BY FS_Singleton
  <2> QED BY <2>1, <2>2, FS_AddElement
<1> QED BY <1>1, FS_Product DEF Key

LEMMA SumOfIsSum ==
    ASSUME IsFiniteSet(Key), NEW balances \in Balances, NEW n \in TokenName
    PROVE  \E f : IsSum(f, Key, [k \in Key |-> balances[k][n]]) /\ SumOf(balances, n) = f[Key]
<1> DEFINE Pick(s) == CHOOSE x \in s : TRUE
           Sum(f) == [s \in SUBSET Key |-> IF s = {} THEN 0
                                           ELSE balances[Pick(s)][n] + f[s \ {Pick(s)}]]
<1>1. PICK of : of = [k \in Key |-> balances[k][n]]
  OBVIOUS
<1>2. of \in [Key -> Int] /\ \A s \in SUBSET Key : s # {} => of[Pick(s)] = balances[Pick(s)][n]
  BY <1>1 DEF Balances
<1>3. \A f : IsSum(f, Key, of) <=> f = Sum(f)
  BY <1>2 DEF IsSum
<1>4. PICK f : IsSum(f, Key, of)
  BY <1>2, SumExists
<1>5. PICK g : g = Sum(g) /\ SumOf(balances, n) = g[Key]
  <2>1. f = Sum(f)
    BY <1>3, <1>4
  <2> QED BY <2>1 DEF SumOf, MapThenSumSet, MapThenFoldSet
<1>6. IsSum(g, Key, of)
  BY <1>3, <1>5
<1> QED BY <1>1, <1>5, <1>6

LEMMA SumMoves ==
    ASSUME IsFiniteSet(Key), NEW old \in Balances, NEW new \in Balances, NEW n \in TokenName,
           NEW a \in Key, \A k \in Key \ {a} : new[k][n] = old[k][n]
    PROVE  /\ SumOf(old, n) \in Int /\ old[a][n] \in Nat /\ new[a][n] \in Nat
           /\ SumOf(new, n) = SumOf(old, n) + (new[a][n] - old[a][n])
<1>1. PICK of, to : of = [k \in Key |-> old[k][n]] /\ to = [k \in Key |-> new[k][n]]
  OBVIOUS
<1>2. of \in [Key -> Int] /\ to \in [Key -> Int] /\ \A k \in Key \ {a} : to[k] = of[k]
  BY <1>1 DEF Balances
<1>3. PICK f : IsSum(f, Key, of) /\ SumOf(old, n) = f[Key]
  BY <1>1, SumOfIsSum
<1>4. PICK g : IsSum(g, Key, to) /\ SumOf(new, n) = g[Key]
  BY <1>1, SumOfIsSum
<1>5. f[Key] \in Int /\ g[Key] = f[Key] + (to[a] - of[a])
  BY <1>2, <1>3, <1>4, SumChanges
<1>6. of[a] = old[a][n] /\ to[a] = new[a][n] /\ old[a][n] \in Nat /\ new[a][n] \in Nat
  BY <1>1 DEF Balances
<1> QED BY <1>3, <1>4, <1>5, <1>6

LEMMA TotalIsSum ==
    ASSUME NEW n \in TokenName
    PROVE  /\ Total(n) = SumOf(tokenBalances, n)
           /\ Total(n)' = SumOf(tokenBalances', n)
<1>1. Total(n) = SumOf(tokenBalances, n)
  BY DEF Total, SumOf, MapThenSumSet, MapThenFoldSet
<1>2. Total(n)' = SumOf(tokenBalances', n)
  BY DEF Total, SumOf, MapThenSumSet, MapThenFoldSet
<1> QED BY <1>1, <1>2

LEMMA SameTotal ==
    ASSUME NEW n \in TokenName, UNCHANGED tokenBalances
    PROVE  Total(n)' = Total(n)
<1>1. PICK old : old = tokenBalances
  OBVIOUS
<1>2. tokenBalances' = old
  BY <1>1
<1>3. SumOf(tokenBalances', n) = SumOf(old, n) /\ SumOf(tokenBalances, n) = SumOf(old, n)
  BY <1>1, <1>2
<1> QED BY <1>3, TotalIsSum

\* A deployment changes the sum of its own token only.
LEMMA OthersKeepSum ==
    ASSUME IsFiniteSet(Key), LedgerOK, NEW k \in Key, NEW n \in TokenName, NEW amount \in Nat,
           tokenBalances' = SetBalance(k, n, amount) \/ tokenBalances' = tokenBalances,
           NEW m \in TokenName, m # n
    PROVE  Total(m)' = Total(m)
<1>1. PICK old, new : old = tokenBalances /\ new = SetBalance(k, n, amount)
  OBVIOUS
<1>2. /\ tokenBalances \in Balances /\ SetBalance(k, n, amount) \in Balances
      /\ \A j \in Key : SetBalance(k, n, amount)[j][m] = tokenBalances[j][m]
  <2>1. tokenBalances \in [Key -> [TokenName -> Nat]]
    BY DEF LedgerOK
  <2>2. /\ SetBalance(k, n, amount) \in [Key -> [TokenName -> Nat]]
        /\ \A j \in Key : SetBalance(k, n, amount)[j][m] = tokenBalances[j][m]
    BY <2>1 DEF SetBalance
  <2> QED BY <2>1, <2>2 DEF Balances
<1>3. SumOf(new, m) = SumOf(old, m)
  <2>1. old \in Balances /\ new \in Balances /\ \A j \in Key : new[j][m] = old[j][m]
    BY <1>1, <1>2
  <2>2. /\ SumOf(old, m) \in Int /\ old[k][m] \in Nat
        /\ SumOf(new, m) = SumOf(old, m) + (new[k][m] - old[k][m])
    BY <2>1, SumMoves
  <2> QED BY <2>1, <2>2
<1>4. tokenBalances' = new \/ tokenBalances' = old
  BY <1>1
<1>5. SumOf(tokenBalances', m) = SumOf(tokenBalances, m)
  BY <1>1, <1>3, <1>4
<1> QED BY <1>5, TotalIsSum

\* A transfer moves an amount from one key to another, or back to the same.
LEMMA TransferKeepsSum ==
    ASSUME IsFiniteSet(Key), LedgerOK, NEW t \in TokenTx, processTokenTransfer(t), NEW m \in TokenName
    PROVE  Total(m)' = Total(m)
<1> DEFINE d == TokenData[t]
           n == d.name
           from == Hex(d.from)
           to == Hex(d.to)
<1>1. n \in TokenName /\ from \in Key /\ to \in Key /\ d.amount \in Nat
  BY RecordTypes
<1>2. CASE Deployed(n) /\ Covered(d)
  <2>1. PICK amount, old, less, new : /\ amount = d.amount /\ old = tokenBalances
                                      /\ less = Debit(old, from, n, amount)
                                      /\ new = Credit(less, to, n, amount)
    OBVIOUS
  <2>2. tokenBalances' = new /\ old[from][n] >= amount
    BY <1>2, <2>1 DEF processTokenTransfer, Transferred, Covered
  <2> HIDE DEF n, from, to
  <2>3. old \in Balances /\ amount \in Nat /\ old[from][n] - amount \in Nat
    BY <1>1, <2>1, <2>2 DEF LedgerOK, Balances
  <2>4. /\ less \in Balances
        /\ \A k \in Key : less[k][m] = IF k = from /\ m = n THEN old[k][m] - amount ELSE old[k][m]
    BY <1>1, <2>1, <2>3 DEF Debit, Balances
  <2>5. /\ new \in Balances
        /\ \A k \in Key : new[k][m] = IF k = to /\ m = n THEN less[k][m] + amount ELSE less[k][m]
    BY <1>1, <2>1, <2>3, <2>4 DEF Credit, Balances
  <2>6. /\ SumOf(old, m) \in Int /\ old[from][m] \in Nat
        /\ SumOf(less, m) = SumOf(old, m) + (less[from][m] - old[from][m])
    BY <1>1, <2>3, <2>4, SumMoves
  <2>7. /\ less[to][m] \in Nat
        /\ SumOf(new, m) = SumOf(less, m) + (new[to][m] - less[to][m])
    BY <1>1, <2>4, <2>5, SumMoves
  <2>8. SumOf(new, m) = SumOf(old, m)
    <3>1. less[from][m] = IF m = n THEN old[from][m] - amount ELSE old[from][m]
      BY <1>1, <2>4
    <3>2. new[to][m] = IF m = n THEN less[to][m] + amount ELSE less[to][m]
      BY <1>1, <2>5
    <3> QED BY <2>3, <2>6, <2>7, <3>1, <3>2
  <2>9. SumOf(tokenBalances', m) = SumOf(tokenBalances, m)
    BY <2>1, <2>2, <2>8
  <2> QED BY <2>9, TotalIsSum
<1>3. CASE ~(Deployed(n) /\ Covered(d))
  BY <1>3, SameTotal DEF processTokenTransfer
<1> QED BY <1>2, <1>3

\* The sum of a token's balances changes only where the token is deployed or the node is
\* started: transfers, also to oneself, refused blocks, reorganizations and the replay of
\* transfers keep it (processTokenTransfer, blockchain.go:960), for any finite set of
\* accounts.
THEOREM TransfersConserveTokensHolds ==
    ASSUME IsFiniteSet(Account)
    PROVE  TokensSpec => TransfersConserveTokens
<1>1. TokensInv /\ [TokensNext]_tokenVars =>
          [~Restarting => \A n \in TokenName : Total(n)' = Total(n) \/ Deploys(n)]_tokenVars
  <2> SUFFICES ASSUME TokensInv, [TokensNext]_tokenVars, ~Restarting, NEW n \in TokenName, ~Deploys(n)
               PROVE  Total(n)' = Total(n)
    OBVIOUS
  <2>1. LedgerOK /\ LoopOK /\ IsFiniteSet(Key)
    BY TypeIsParts, FiniteKeys
  <2>2. CASE UNCHANGED tokenBalances
    BY <2>2, SameTotal
  <2>3. CASE ProcessDeployment
    <3> DEFINE d == TokenData[NextTx]
    <3>1. todo # <<>> /\ IsDeployment(NextTx) /\ Processing({"extend", "deployments"})
          /\ processTokenDeployment(NextTx, Head(todo).number)
      BY <2>3 DEF ProcessDeployment, Processing
    <3>2. NextTx \in TokenTx
      BY <2>1, <3>1, NextItem
    <3>3. d.name \in TokenName /\ d.amount \in Nat /\ Hex(d.from) \in Key
      BY <3>2, RecordTypes
    <3>4. d.name # n
      BY <3>1 DEF Deploys, Processing
    <3>5. tokenBalances' = SetBalance(Hex(d.from), d.name, d.amount) \/ tokenBalances' = tokenBalances
      BY <3>1 DEF processTokenDeployment
    <3> QED BY <2>1, <3>3, <3>4, <3>5, OthersKeepSum
  <2>4. CASE ProcessTransfer
    BY <2>1, <2>4, NextItem, TransferKeepsSum DEF ProcessTransfer, Processing
  <2>5. CASE RestoreDeployment
    <3> DEFINE d == TokenData[NextTx]
    <3>1. todo # <<>> /\ IsDeployment(NextTx) /\ Processing({"restore"})
      BY <2>5 DEF RestoreDeployment, Processing
    <3>2. NextTx \in TokenTx
      BY <2>1, <3>1, NextItem
    <3>3. d.name \in TokenName /\ d.amount \in Nat /\ Hex(d.from) \in Key
      BY <3>2, RecordTypes
    <3>4. d.name # n
      BY <3>1 DEF Deploys, Processing
    <3>5. tokenBalances' = SetBalance(Hex(d.from), d.name, d.amount) \/ tokenBalances' = tokenBalances
      BY <2>5 DEF RestoreDeployment, ledger
    <3> QED BY <2>1, <3>3, <3>4, <3>5, OthersKeepSum
  <2>6. CASE ReplayTransfer
    <3>1. todo # <<>> /\ (processTokenTransfer(NextTx) \/ UNCHANGED ledger)
      BY <2>6 DEF ReplayTransfer, Processing
    <3>2. NextTx \in TokenTx
      BY <2>1, <3>1, NextItem
    <3>3. CASE UNCHANGED ledger
      BY <3>3, SameTotal DEF ledger
    <3> QED BY <2>1, <3>1, <3>2, <3>3, TransferKeepsSum
  <2>7. ASSUME NEW t \in TokenTx, NEW form \in {"hex", "text"}, handleDeployToken(t, form)
        PROVE  Total(n)' = Total(n)
    <3> DEFINE d == TokenData[t]
               k == <<d.from, form>>
    <3>1. d.name \in TokenName /\ d.amount \in Nat /\ k \in Key
      BY RecordTypes, TokenAssumption DEF TokenRecord, Key
    <3>2. t \in deploying \ deploying'
      BY <2>7 DEF handleDeployToken
    <3>3. d.name # n
      BY <3>2 DEF Deploys
    <3>4. tokenBalances' = SetBalance(k, d.name, d.amount) \/ tokenBalances' = tokenBalances
      BY <2>7 DEF handleDeployToken, DeployToken, ledger
    <3> HIDE DEF d, k
    <3> QED BY <2>1, <3>1, <3>3, <3>4, OthersKeepSum
  <2>8. ~RestartTokens
    BY DEF RestartTokens, Restarting
  <2>9. ASSUME \/ \E txs \in TokenBlocks : ExtendTokens(txs)
               \/ \E k \in 0..Len(tokenChain), branch \in Branches : ReorganizeTokens(k, branch)
               \/ SkipTx \/ RefuseTokenBlock \/ FinishBlocks \/ FinishLoop
               \/ \E t \in TokenTx : CheckTokenName(t)
               \/ UNCHANGED tokenVars
        PROVE  UNCHANGED tokenBalances
    BY <2>9 DEF ExtendTokens, ReorganizeTokens, SkipTx, RefuseTokenBlock, FinishBlocks, FinishLoop,
                CheckTokenName, tokenVars, ledger
  <2> QED BY <2>2, <2>3, <2>4, <2>5, <2>6, <2>7, <2>8, <2>9 DEF TokensNext
<1> QED BY <1>1, TokensInvHolds, PTL DEF TokensSpec, TransfersConserveTokens

-----------------------------------------------------------------------------
(* What is held after each transaction of a chain. *)

Held == [Account -> [TokenName -> Nat]]

NothingHeld == [a \in Account |-> [n \in TokenName |-> 0]]

Given(held, d) ==
    [a \in Account |-> [n \in TokenName |->
        IF a = d.from /\ n = d.name /\ held[a][n] = 0 THEN d.amount ELSE held[a][n]]]

Moved(held, d) ==
    [a \in Account |-> [n \in TokenName |->
        IF n # d.name THEN held[a][n]
        ELSE (held[a][n] - (IF a = d.from THEN d.amount ELSE 0)) + (IF a = d.to THEN d.amount ELSE 0)]]

After(held, d) ==
    IF d.kind = "deployment" THEN Given(held, d)
    ELSE IF d.kind = "transfer" /\ held[d.from][d.name] >= d.amount THEN Moved(held, d)
    ELSE held

LEMMA DataTypes ==
    ASSUME NEW t \in TokenTx
    PROVE  LET d == TokenData[t]
           IN  /\ d.kind \in {"deployment", "transfer", "none"}
               /\ d.name \in TokenName /\ d.amount \in Nat
               /\ d.from \in Account /\ d.to \in Account
               /\ d.kind # "none" => d.amount > 0
  BY TokenAssumption DEF TokenRecord

LEMMA GivenType ==
    ASSUME NEW held \in Held, NEW t \in TokenTx
    PROVE  LET d == TokenData[t]
           IN  /\ Given(held, d) \in Held
               /\ \A a \in Account, n \in TokenName : Given(held, d)[a][n] =
                     IF a = d.from /\ n = d.name /\ held[a][n] = 0 THEN d.amount ELSE held[a][n]
<1> DEFINE d == TokenData[t]
<1>1. d.amount \in Nat
  BY DataTypes
<1> HIDE DEF d
<1>2. \A a \in Account, n \in TokenName :
         (IF a = d.from /\ n = d.name /\ held[a][n] = 0 THEN d.amount ELSE held[a][n]) \in Nat
  BY <1>1 DEF Held
<1>3. Given(held, d) \in Held
  BY <1>2 DEF Given, Held
<1> QED BY <1>3 DEF Given, d

LEMMA MovedType ==
    ASSUME NEW held \in Held, NEW t \in TokenTx,
           held[TokenData[t].from][TokenData[t].name] >= TokenData[t].amount
    PROVE  LET d == TokenData[t]
           IN  /\ Moved(held, d) \in Held
               /\ \A a \in Account, n \in TokenName : Moved(held, d)[a][n] =
                     IF n # d.name THEN held[a][n]
                     ELSE (held[a][n] - (IF a = d.from THEN d.amount ELSE 0))
                              + (IF a = d.to THEN d.amount ELSE 0)
<1> DEFINE d == TokenData[t]
           Sum(a, n) == IF n # d.name THEN held[a][n]
                        ELSE (held[a][n] - (IF a = d.from THEN d.amount ELSE 0))
                                 + (IF a = d.to THEN d.amount ELSE 0)
<1>1. d.amount \in Nat /\ held[d.from][d.name] >= d.amount
  BY DataTypes
<1> HIDE DEF d
<1>2. ASSUME NEW a \in Account, NEW n \in TokenName
      PROVE  Sum(a, n) \in Nat
  <2>1. held[a][n] \in Nat
    BY DEF Held
  <2> QED BY <1>1, <2>1
<1>3. Moved(held, d) = [a \in Account |-> [n \in TokenName |-> Sum(a, n)]]
  BY DEF Moved
<1> HIDE DEF Sum
<1>4. /\ Moved(held, d) \in Held
      /\ \A a \in Account, n \in TokenName : Moved(held, d)[a][n] = Sum(a, n)
  BY <1>2, <1>3 DEF Held
<1> QED BY <1>4 DEF d, Sum

LEMMA AfterType ==
    ASSUME NEW held \in Held, NEW t \in TokenTx
    PROVE  After(held, TokenData[t]) \in Held
  BY GivenType, MovedType DEF After

\* Two functions that give every account the same are one.
LEMMA SameHeld ==
    ASSUME NEW held \in Held, NEW other \in Held,
           \A a \in Account, n \in TokenName : held[a][n] = other[a][n]
    PROVE  held = other
<1>1. \A a \in Account : held[a] \in [TokenName -> Nat] /\ other[a] \in [TokenName -> Nat]
  BY DEF Held
<1>2. \A a \in Account : held[a] = other[a]
  BY <1>1
<1> QED BY <1>2 DEF Held

LEMMA HexIsOne ==
    ASSUME NEW a \in Account
    PROVE  /\ Hex(a) \in Key
           /\ \A b \in Account : (Hex(a) = Hex(b) <=> a = b) /\ Hex(a) # <<b, "text">>
  BY DEF Hex, Key

LEMMA AnswersType ==
    ASSUME LedgerOK
    PROVE  /\ Answers \in Held
           /\ \A a \in Account, n \in TokenName : Answers[a][n] = tokenBalances[Hex(a)][n]
<1>1. \A a \in Account, n \in TokenName : tokenBalances[Hex(a)][n] \in Nat
  BY HexIsOne DEF LedgerOK
<1> QED BY <1>1 DEF Answers, GetTokenBalance, Held

LEMMA NextAnswersType ==
    ASSUME LedgerOK'
    PROVE  /\ Answers' \in Held
           /\ \A a \in Account, n \in TokenName : Answers'[a][n] = tokenBalances'[Hex(a)][n]
<1>1. \A a \in Account, n \in TokenName : tokenBalances'[Hex(a)][n] \in Nat
  BY HexIsOne DEF LedgerOK
<1> QED BY <1>1 DEF Answers, GetTokenBalance, Held

\* A name that is not deployed is held by nobody.
LEMMA NotHeld ==
    ASSUME LedgerOK, NEW n \in TokenName, ~Deployed(n), NEW a \in Account
    PROVE  Answers[a][n] = 0
  BY AnswersType, HexIsOne DEF LedgerOK, BalancesAreOfTokens

LEMMA SameAnswers ==
    ASSUME LedgerOK, LedgerOK', NEW k,
           \A j \in Key, n \in TokenName : j # k => tokenBalances'[j][n] = tokenBalances[j][n],
           \A a \in Account : Hex(a) # k
    PROVE  Answers' = Answers
  BY HexIsOne DEF Answers, GetTokenBalance

LEMMA DeploymentGives ==
    ASSUME LedgerOK, LedgerOK', NEW t \in TokenTx, NEW number \in Nat,
           processTokenDeployment(t, number)
    PROVE  Answers' = Given(Answers, TokenData[t])
<1> DEFINE d == TokenData[t]
           n == d.name
           k == Hex(d.from)
<1>1. d.name \in TokenName /\ k \in Key /\ d.amount \in Nat /\ d.from \in Account
  BY RecordTypes, DataTypes
<1>2. tokenBalances' = IF tokenBalances[k][n] = 0 THEN SetBalance(k, n, d.amount) ELSE tokenBalances
  <2>1. CASE Deployed(n)
    BY <2>1 DEF processTokenDeployment
  <2>2. CASE ~Deployed(n)
    <3>1. tokenBalances[k][n] = 0
      BY <1>1, <2>2 DEF LedgerOK, BalancesAreOfTokens
    <3> QED BY <2>2, <3>1 DEF processTokenDeployment
  <2> QED BY <2>1, <2>2
<1>3. /\ Answers \in Held
      /\ \A a \in Account, m \in TokenName : Answers[a][m] = tokenBalances[Hex(a)][m]
  BY AnswersType
<1>4. /\ Answers' \in Held
      /\ \A a \in Account, m \in TokenName : Answers'[a][m] = tokenBalances'[Hex(a)][m]
  BY NextAnswersType
<1>5. /\ Given(Answers, d) \in Held
      /\ \A a \in Account, m \in TokenName : Given(Answers, d)[a][m] =
            IF a = d.from /\ m = n /\ Answers[a][m] = 0 THEN d.amount ELSE Answers[a][m]
  BY <1>3, GivenType
<1>6. \A j \in Key, m \in TokenName : SetBalance(k, n, d.amount)[j][m] =
         IF j = k /\ m = n THEN d.amount ELSE tokenBalances[j][m]
  <2>1. tokenBalances \in [Key -> [TokenName -> Nat]]
    BY DEF LedgerOK
  <2> HIDE DEF n, k, d
  <2>2. n \in TokenName /\ k \in Key /\ d.amount \in Nat
    BY <1>1 DEF n
  <2> QED BY <2>1, <2>2 DEF SetBalance
<1>7. \A a \in Account : Hex(a) \in Key /\ (Hex(a) = k <=> a = d.from)
  BY <1>1, HexIsOne
<1> HIDE DEF d, n, k
<1>8. \A a \in Account, m \in TokenName : Answers'[a][m] = Given(Answers, d)[a][m]
  BY <1>1, <1>2, <1>3, <1>4, <1>5, <1>6, <1>7
<1> QED BY <1>4, <1>5, <1>8, SameHeld DEF d

LEMMA TransferMoves ==
    ASSUME LedgerOK, LedgerOK', NEW t \in TokenTx, IsTransfer(t), processTokenTransfer(t)
    PROVE  Answers' = After(Answers, TokenData[t])
<1> DEFINE d == TokenData[t]
           n == d.name
           from == Hex(d.from)
           to == Hex(d.to)
<1>1. /\ n \in TokenName /\ from \in Key /\ to \in Key /\ d.amount \in Nat /\ d.amount > 0
      /\ d.from \in Account /\ d.to \in Account /\ d.kind = "transfer"
  BY RecordTypes, DataTypes DEF IsTransfer
<1>2. /\ Answers \in Held
      /\ \A a \in Account, m \in TokenName : Answers[a][m] = tokenBalances[Hex(a)][m]
  BY AnswersType
<1>3. /\ Answers' \in Held
      /\ \A a \in Account, m \in TokenName : Answers'[a][m] = tokenBalances'[Hex(a)][m]
  BY NextAnswersType
<1>4. Covered(d) <=> Answers[d.from][n] >= d.amount
  BY <1>1, <1>2 DEF Covered
<1>5. Covered(d) => Deployed(n)
  BY <1>1 DEF Covered, LedgerOK, BalancesAreOfTokens
<1>6. CASE ~Covered(d)
  <2>1. tokenBalances' = tokenBalances
    BY <1>6 DEF processTokenTransfer
  <2>2. Answers' = Answers
    BY <2>1 DEF Answers, GetTokenBalance
  <2> QED BY <1>1, <1>4, <1>6, <2>2 DEF After
<1>7. CASE Covered(d)
  <2>1. PICK amount, old, less, new : /\ amount = d.amount /\ old = tokenBalances
                                      /\ less = Debit(old, from, n, amount)
                                      /\ new = Credit(less, to, n, amount)
    OBVIOUS
  <2>2. tokenBalances' = new /\ old[from][n] >= amount
    BY <1>5, <1>7, <2>1 DEF processTokenTransfer, Transferred, Covered
  <2>3. \A a \in Account : /\ Hex(a) \in Key
                           /\ Hex(a) = from <=> a = d.from
                           /\ Hex(a) = to <=> a = d.to
    BY <1>1, HexIsOne
  <2>4. /\ Moved(Answers, d) \in Held
        /\ \A a \in Account, m \in TokenName : Moved(Answers, d)[a][m] =
              IF m # n THEN Answers[a][m]
              ELSE (Answers[a][m] - (IF a = d.from THEN d.amount ELSE 0))
                       + (IF a = d.to THEN d.amount ELSE 0)
    BY <1>2, <1>4, <1>7, MovedType
  <2>5. After(Answers, d) = Moved(Answers, d)
    BY <1>1, <1>4, <1>7 DEF After
  <2> HIDE DEF n, from, to, d
  <2>6. old \in Balances /\ amount \in Nat /\ old[from][n] - amount \in Nat
    BY <1>1, <2>1, <2>2 DEF LedgerOK, Balances
  <2>7. /\ less \in Balances
        /\ \A k \in Key, m \in TokenName :
              less[k][m] = IF k = from /\ m = n THEN old[k][m] - amount ELSE old[k][m]
    BY <1>1, <2>1, <2>6 DEF Debit, Balances
  <2>8. \A k \in Key, m \in TokenName :
              new[k][m] = IF k = to /\ m = n THEN less[k][m] + amount ELSE less[k][m]
    BY <1>1, <2>1, <2>6, <2>7 DEF Credit, Balances
  <2>9. ASSUME NEW a \in Account, NEW m \in TokenName
        PROVE  Answers'[a][m] = Moved(Answers, d)[a][m]
    <3>1. /\ Answers'[a][m] = new[Hex(a)][m] /\ Answers[a][m] = old[Hex(a)][m]
          /\ Hex(a) \in Key
      BY <1>2, <1>3, <2>1, <2>2, <2>3
    <3>2. old[Hex(a)][m] \in Nat
      BY <2>6, <3>1 DEF Balances
    <3>3. less[Hex(a)][m] = IF a = d.from /\ m = n THEN old[Hex(a)][m] - amount ELSE old[Hex(a)][m]
      BY <2>3, <2>7, <3>1
    <3>4. new[Hex(a)][m] = IF a = d.to /\ m = n THEN less[Hex(a)][m] + amount ELSE less[Hex(a)][m]
      BY <2>3, <2>8, <3>1
    <3>5. amount = d.amount
      BY <2>1
    <3> QED BY <2>4, <2>6, <3>1, <3>2, <3>3, <3>4, <3>5
  <2> QED BY <1>3, <2>4, <2>5, <2>9, SameHeld DEF d
<1> QED BY <1>6, <1>7

\* What a transaction changes for one name.
LEMMA AfterOther ==
    ASSUME NEW held \in Held, NEW t \in TokenTx, NEW n \in TokenName,
           TokenData[t].kind = "none" \/ TokenData[t].name # n
    PROVE  \A a \in Account : After(held, TokenData[t])[a][n] = held[a][n]
<1> DEFINE d == TokenData[t]
<1>1. CASE d.kind = "deployment"
  BY <1>1, GivenType DEF After
<1>2. CASE d.kind = "transfer" /\ held[d.from][d.name] >= d.amount
  BY <1>2, MovedType DEF After
<1>3. CASE ~(d.kind = "deployment") /\ ~(d.kind = "transfer" /\ held[d.from][d.name] >= d.amount)
  BY <1>3 DEF After
<1> QED BY <1>1, <1>2, <1>3

LEMMA AfterDeploymentOf ==
    ASSUME NEW held \in Held, NEW t \in TokenTx, NEW n \in TokenName,
           TokenData[t].kind = "deployment", TokenData[t].name = n,
           \A a \in Account : held[a][n] = 0
    PROVE  \A a \in Account : After(held, TokenData[t])[a][n] =
               IF a = TokenData[t].from THEN TokenData[t].amount ELSE 0
  BY GivenType DEF After

\* Nobody who has none can send it.
LEMMA AfterNone ==
    ASSUME NEW held \in Held, NEW t \in TokenTx, NEW n \in TokenName,
           ~(TokenData[t].kind = "deployment" /\ TokenData[t].name = n),
           \A a \in Account : held[a][n] = 0
    PROVE  \A a \in Account : After(held, TokenData[t])[a][n] = 0
<1> DEFINE d == TokenData[t]
<1>1. CASE d.kind = "none" \/ d.name # n
  BY <1>1, AfterOther
<1>2. CASE d.kind = "transfer" /\ d.name = n
  <2>1. d.amount \in Nat /\ d.amount > 0 /\ d.from \in Account
    BY <1>2, DataTypes
  <2>2. held[d.from][d.name] = 0
    BY <1>2, <2>1
  <2>3. ~(held[d.from][d.name] >= d.amount)
    BY <2>1, <2>2
  <2> QED BY <1>2, <2>3 DEF After
<1>3. d.kind \in {"deployment", "transfer", "none"}
  BY DataTypes
<1> QED BY <1>1, <1>2, <1>3

\* What becomes of a name depends on what is held of it.
LEMMA AfterAgrees ==
    ASSUME NEW held \in Held, NEW other \in Held, NEW t \in TokenTx, NEW n \in TokenName,
           \A a \in Account : held[a][n] = other[a][n]
    PROVE  \A a \in Account : After(held, TokenData[t])[a][n] = After(other, TokenData[t])[a][n]
<1> DEFINE d == TokenData[t]
<1>1. CASE d.name # n
  BY <1>1, AfterOther
<1>2. CASE d.name = n
  <2>1. d.from \in Account
    BY DataTypes
  <2>2. held[d.from][d.name] = other[d.from][d.name]
    BY <1>2, <2>1
  <2>3. CASE d.kind = "deployment"
    BY <2>3, GivenType DEF After
  <2>4. CASE d.kind # "deployment" /\ d.kind = "transfer" /\ held[d.from][d.name] >= d.amount
    <3>1. After(held, d) = Moved(held, d) /\ After(other, d) = Moved(other, d)
      BY <2>2, <2>4 DEF After
    <3>2. \A a \in Account : Moved(held, d)[a][n] = Moved(other, d)[a][n]
      BY <2>2, <2>4, MovedType
    <3> QED BY <3>1, <3>2
  <2>5. CASE d.kind # "deployment" /\ ~(d.kind = "transfer" /\ held[d.from][d.name] >= d.amount)
    BY <2>2, <2>5 DEF After
  <2> QED BY <2>3, <2>4, <2>5
<1> QED BY <1>1, <1>2

-----------------------------------------------------------------------------
(* Chains. *)

DataAt(chain, i) == TokenData[chain[i].tx]

DeploysAt(chain, i, n) == DataAt(chain, i).kind = "deployment" /\ DataAt(chain, i).name = n

\* f gives what is held after each prefix of the chain.
Follows(f, chain) ==
    /\ f \in [Nat -> Held] /\ f[0] = NothingHeld
    /\ \A i \in 1..Len(chain) : f[i] = After(f[i - 1], DataAt(chain, i))

\* Orderly, of any chain.
InOrder(chain) ==
    \A i, j \in DOMAIN chain :
        /\ i < j /\ DataAt(chain, j).kind = "deployment" /\ DataAt(chain, i).name = DataAt(chain, j).name =>
               /\ DataAt(chain, i).kind # "deployment"
               /\ DataAt(chain, i).kind = "transfer" => chain[i].number < chain[j].number
        /\ i < j /\ DataAt(chain, j).kind = "transfer" => chain[i].tx # chain[j].tx

Sorted(chain) ==
    \A i, j \in DOMAIN chain : i < j => chain[i].number <= chain[j].number

LEMMA OrderlyIsInOrder == Orderly <=> InOrder(tokenChain)
  BY DEF Orderly, InOrder, DataAt, IsDeployment, IsTransfer

LEMMA ItemAt ==
    ASSUME NEW chain \in Seq(Item), NEW i \in 1..Len(chain)
    PROVE  chain[i].tx \in TokenTx /\ chain[i].number \in Nat /\ i \in DOMAIN chain
<1>1. chain[i] \in Item /\ i \in DOMAIN chain
  OBVIOUS
<1> QED BY <1>1 DEF Item

LEMMA NothingIsHeld == NothingHeld \in Held
  BY DEF NothingHeld, Held

LEMMA FollowsNothing ==
    ASSUME NEW chain, Len(chain) = 0
    PROVE  \E f : Follows(f, chain)
<1> DEFINE f == [i \in Nat |-> NothingHeld]
<1>1. f \in [Nat -> Held] /\ f[0] = NothingHeld
  BY NothingIsHeld
<1>2. 1..Len(chain) = {}
  OBVIOUS
<1>3. Follows(f, chain)
  BY <1>1, <1>2 DEF Follows
<1> QED BY <1>3

LEMMA FollowsAppend ==
    ASSUME NEW chain \in Seq(Item), NEW x \in Item, NEW f, Follows(f, chain)
    PROVE  \E g : /\ Follows(g, Append(chain, x))
                  /\ g[Len(chain) + 1] = After(f[Len(chain)], TokenData[x.tx])
<1> DEFINE len == Len(chain)
           more == Append(chain, x)
           g == [f EXCEPT ![len + 1] = After(f[len], TokenData[x.tx])]
<1>1. /\ len \in Nat /\ Len(more) = len + 1 /\ more[len + 1] = x
      /\ \A i \in 1..len : more[i] = chain[i]
  OBVIOUS
<1>2. f \in [Nat -> Held] /\ f[0] = NothingHeld /\ x.tx \in TokenTx
  BY DEF Follows, Item
<1> HIDE DEF len, more
<1>3. After(f[len], TokenData[x.tx]) \in Held
  BY <1>1, <1>2, AfterType
<1>4. len + 1 \in Nat /\ \A i \in 0..len : i \in Nat /\ i # len + 1
  BY <1>1
<1>5. /\ g \in [Nat -> Held] /\ g[len + 1] = After(f[len], TokenData[x.tx])
      /\ \A i \in 0..len : g[i] = f[i]
  BY <1>2, <1>3, <1>4
<1> HIDE DEF g
<1>6. ASSUME NEW i \in 1..Len(more)
      PROVE  g[i] = After(g[i - 1], DataAt(more, i))
  <2>1. CASE i = len + 1
    <3>1. i - 1 = len /\ len \in 0..len
      BY <1>1, <2>1
    <3> QED BY <1>1, <1>5, <2>1, <3>1 DEF DataAt
  <2>2. CASE i # len + 1
    <3>1. i \in 1..len /\ i \in 0..len /\ i - 1 \in 0..len
      BY <1>1, <2>2
    <3>2. f[i] = After(f[i - 1], DataAt(chain, i))
      BY <3>1 DEF Follows, len
    <3>3. DataAt(more, i) = DataAt(chain, i)
      BY <1>1, <3>1 DEF DataAt
    <3> QED BY <1>5, <3>1, <3>2, <3>3
  <2> QED BY <2>1, <2>2
<1>7. g[0] = NothingHeld
  BY <1>1, <1>2, <1>5
<1>8. Follows(g, more)
  BY <1>5, <1>6, <1>7 DEF Follows
<1> QED BY <1>5, <1>8 DEF len, more

LEMMA FollowsPrefix ==
    ASSUME NEW chain \in Seq(Item), NEW m \in 0..Len(chain), NEW f, Follows(f, chain)
    PROVE  Follows(f, SubSeq(chain, 1, m))
<1>1. /\ m \in Nat /\ Len(SubSeq(chain, 1, m)) = m
      /\ \A i \in 1..m : i \in 1..Len(chain) /\ SubSeq(chain, 1, m)[i] = chain[i]
  OBVIOUS
<1> QED BY <1>1 DEF Follows, DataAt

\* A name is held by nobody before it is deployed.
LEMMA NoneBefore ==
    ASSUME NEW chain \in Seq(Item), NEW f, Follows(f, chain), NEW n \in TokenName,
           NEW m \in 0..Len(chain), \A j \in 1..m : ~DeploysAt(chain, j, n)
    PROVE  \A a \in Account : f[m][a][n] = 0
<1> DEFINE T == {k \in 0..m : \A a \in Account : f[k][a][n] = 0}
<1>1. m \in Nat /\ Len(chain) \in Nat
  OBVIOUS
<1>2. 0 \in T
  BY <1>1 DEF Follows, NothingHeld
<1>3. ASSUME NEW k \in 0..m, k \in T, k < m
      PROVE  k + 1 \in T
  <2>1. k + 1 \in 1..m /\ k + 1 \in 1..Len(chain) /\ (k + 1) - 1 = k /\ k \in Nat /\ k + 1 \in 0..m
    BY <1>1, <1>3
  <2>2. f[k + 1] = After(f[k], DataAt(chain, k + 1)) /\ f[k] \in Held
    BY <2>1 DEF Follows
  <2>3. chain[k + 1].tx \in TokenTx
    BY <2>1, ItemAt
  <2>4. ~DeploysAt(chain, k + 1, n)
    BY <2>1
  <2>5. \A a \in Account : f[k][a][n] = 0
    BY <1>3
  <2>6. \A a \in Account : f[k + 1][a][n] = 0
    <3> DEFINE t == chain[k + 1].tx
               held == f[k]
    <3>1. /\ t \in TokenTx /\ held \in Held /\ \A a \in Account : held[a][n] = 0
          /\ ~(TokenData[t].kind = "deployment" /\ TokenData[t].name = n)
      BY <2>2, <2>3, <2>4, <2>5 DEF DeploysAt, DataAt
    <3>2. f[k + 1] = After(held, TokenData[t])
      BY <2>2 DEF DataAt
    <3> HIDE DEF t, held
    <3> QED BY <3>1, <3>2, AfterNone
  <2> QED BY <2>1, <2>6
<1> HIDE DEF T
<1>4. \A k \in 0..m : k \in T
  BY <1>1, <1>2, <1>3, UpTo, Zenon
<1>5. m \in 0..m
  BY <1>1
<1> QED BY <1>4, <1>5 DEF T

-----------------------------------------------------------------------------
(* The loader's passes over a chain in order. *)

\* The names deployed in the first m transactions are those that infos has.
DeployedFrom(chain, m, infos) ==
    /\ \A n \in TokenName : n \in DOMAIN infos <=> \E j \in 1..m : DeploysAt(chain, j, n)
    /\ \A j \in 1..m, n \in TokenName :
          DeploysAt(chain, j, n) => infos[n].height = chain[j].number

\* Their creators hold what was deployed, and nobody anything else.
SupplyFrom(chain, m, held, n) ==
    /\ \A j \in 1..m : DeploysAt(chain, j, n) =>
          \A a \in Account :
              held[a][n] = IF a = DataAt(chain, j).from THEN DataAt(chain, j).amount ELSE 0
    /\ (\A j \in 1..m : ~DeploysAt(chain, j, n)) => \A a \in Account : held[a][n] = 0

\* After m transactions of the last pass, a name is held as the first m transactions gave
\* it, if it is deployed in them.
HeldBy(f, chain, m, held, n) ==
    IF \E j \in 1..m : DeploysAt(chain, j, n)
    THEN \A a \in Account : held[a][n] = f[m][a][n]
    ELSE SupplyFrom(chain, Len(chain), held, n)

LEMMA NameAt ==
    ASSUME NEW chain \in Seq(Item), NEW i \in 1..Len(chain)
    PROVE  LET d == DataAt(chain, i)
           IN  /\ d.kind \in {"deployment", "transfer", "none"}
               /\ d.name \in TokenName /\ d.amount \in Nat /\ d.from \in Account
  BY ItemAt, DataTypes DEF DataAt

\* No name is deployed twice.
LEMMA DeployedOnce ==
    ASSUME NEW chain \in Seq(Item), InOrder(chain), NEW n,
           NEW i \in 1..Len(chain), NEW j \in 1..Len(chain),
           DeploysAt(chain, i, n), DeploysAt(chain, j, n)
    PROVE  i = j
<1>1. i \in DOMAIN chain /\ j \in DOMAIN chain /\ i \in Int /\ j \in Int
  OBVIOUS
<1>2. ~(i < j) /\ ~(j < i)
  BY <1>1 DEF InOrder, DeploysAt
<1> QED BY <1>1, <1>2

\* The first pass deals with a deployment.
LEMMA DeploymentLoaded ==
    ASSUME NEW chain \in Seq(Item), InOrder(chain), NEW m \in 0..(Len(chain) - 1), NEW infos,
           NEW more, NEW held \in Held, NEW n0, DeploysAt(chain, m + 1, n0),
           DeployedFrom(chain, m, infos), \A n \in TokenName : SupplyFrom(chain, m, held, n),
           DOMAIN more = DOMAIN infos \cup {n0},
           \A n \in DOMAIN infos \ {n0} : more[n] = infos[n],
           more[n0].height = chain[m + 1].number
    PROVE  /\ n0 \notin DOMAIN infos
           /\ DeployedFrom(chain, m + 1, more)
           /\ \A n \in TokenName : SupplyFrom(chain, m + 1, After(held, DataAt(chain, m + 1)), n)
<1> DEFINE d == DataAt(chain, m + 1)
           t == chain[m + 1].tx
<1>1. /\ m \in Nat /\ m + 1 \in 1..Len(chain) /\ m + 1 \in 1..(m + 1)
      /\ \A j \in 1..(m + 1) : j = m + 1 \/ j \in 1..m
      /\ \A j \in 1..m : j \in 1..(m + 1) /\ j \in 1..Len(chain) /\ j # m + 1
  OBVIOUS
<1>2. n0 \in TokenName /\ d.kind = "deployment" /\ d.name = n0 /\ t \in TokenTx /\ d = TokenData[t]
  BY <1>1, NameAt, ItemAt DEF DeploysAt, DataAt
<1>3. \A n : DeploysAt(chain, m + 1, n) <=> n = n0
  BY <1>2 DEF DeploysAt
<1>4. \A j \in 1..m : ~DeploysAt(chain, j, n0)
  BY <1>1, DeployedOnce
<1>5. n0 \notin DOMAIN infos
  BY <1>2, <1>4 DEF DeployedFrom
<1>6. DeployedFrom(chain, m + 1, more)
  <2>1. ASSUME NEW n \in TokenName
        PROVE  n \in DOMAIN more <=> \E j \in 1..(m + 1) : DeploysAt(chain, j, n)
    BY <1>1, <1>3 DEF DeployedFrom
  <2>2. ASSUME NEW j \in 1..(m + 1), NEW n \in TokenName, DeploysAt(chain, j, n)
        PROVE  more[n].height = chain[j].number
    <3>1. CASE j = m + 1
      BY <1>3, <2>2, <3>1
    <3>2. CASE j \in 1..m
      <4>1. n # n0
        BY <1>4, <2>2, <3>2
      <4>2. n \in DOMAIN infos /\ infos[n].height = chain[j].number
        BY <2>2, <3>2 DEF DeployedFrom
      <4> QED BY <4>1, <4>2
    <3> QED BY <1>1, <3>1, <3>2
  <2> QED BY <2>1, <2>2 DEF DeployedFrom
<1> HIDE DEF d, t
<1>7. \A a \in Account : After(held, d)[a][n0] = IF a = d.from THEN d.amount ELSE 0
  <2>1. \A a \in Account : held[a][n0] = 0
    BY <1>2, <1>4 DEF SupplyFrom
  <2> QED BY <1>2, <2>1, AfterDeploymentOf
<1>8. ASSUME NEW n \in TokenName
      PROVE  SupplyFrom(chain, m + 1, After(held, d), n)
  <2>1. CASE n = n0
    <3>1. ASSUME NEW j \in 1..(m + 1), DeploysAt(chain, j, n)
          PROVE  DataAt(chain, j) = d
      BY <1>1, <1>4, <2>1, <3>1 DEF d
    <3>2. \E j \in 1..(m + 1) : DeploysAt(chain, j, n)
      BY <1>1, <2>1
    <3> QED BY <1>7, <2>1, <3>1, <3>2 DEF SupplyFrom
  <2>2. CASE n # n0
    <3>1. \A a \in Account : After(held, d)[a][n] = held[a][n]
      BY <1>2, <2>2, AfterOther
    <3>2. ~DeploysAt(chain, m + 1, n)
      BY <1>3, <2>2
    <3>3. SupplyFrom(chain, m, held, n)
      OBVIOUS
    <3>4. ASSUME NEW j \in 1..(m + 1), DeploysAt(chain, j, n)
          PROVE  j \in 1..m
      BY <1>1, <3>2, <3>4
    <3> QED BY <1>1, <3>1, <3>3, <3>4 DEF SupplyFrom
  <2> QED BY <2>1, <2>2
<1> QED BY <1>5, <1>6, <1>8 DEF d

\* The first pass deals with anything else.
LEMMA OtherLoaded ==
    ASSUME NEW chain, NEW m \in Nat, NEW infos, NEW held,
           DataAt(chain, m + 1).kind # "deployment",
           DeployedFrom(chain, m, infos), \A n \in TokenName : SupplyFrom(chain, m, held, n)
    PROVE  /\ DeployedFrom(chain, m + 1, infos)
           /\ \A n \in TokenName : SupplyFrom(chain, m + 1, held, n)
<1>1. /\ \A j \in 1..(m + 1) : j = m + 1 \/ j \in 1..m
      /\ \A j \in 1..m : j \in 1..(m + 1)
      /\ \A n : ~DeploysAt(chain, m + 1, n)
  BY DEF DeploysAt
<1>2. \A n \in TokenName :
         (\E j \in 1..(m + 1) : DeploysAt(chain, j, n)) <=> \E j \in 1..m : DeploysAt(chain, j, n)
  BY <1>1
<1>3. DeployedFrom(chain, m + 1, infos)
  BY <1>1, <1>2 DEF DeployedFrom
<1>4. ASSUME NEW n \in TokenName
      PROVE  SupplyFrom(chain, m + 1, held, n)
  <2>1. SupplyFrom(chain, m, held, n)
    OBVIOUS
  <2> QED BY <1>1, <2>1 DEF SupplyFrom
<1> QED BY <1>3, <1>4

\* The last pass takes a transfer exactly when the name is deployed before it.
LEMMA TransferIsReplayed ==
    ASSUME NEW chain \in Seq(Item), InOrder(chain), Sorted(chain), NEW m \in 0..(Len(chain) - 1),
           NEW infos, DeployedFrom(chain, Len(chain), infos),
           DataAt(chain, m + 1).kind = "transfer"
    PROVE  LET n == DataAt(chain, m + 1).name
           IN  n \in DOMAIN infos /\ chain[m + 1].number >= infos[n].height
                   <=> \E j \in 1..m : DeploysAt(chain, j, n)
<1> DEFINE n == DataAt(chain, m + 1).name
<1>1. /\ m \in Nat /\ Len(chain) \in Nat /\ m + 1 \in 1..Len(chain) /\ m + 1 \in DOMAIN chain
      /\ \A j \in 1..m : j \in 1..Len(chain) /\ j \in DOMAIN chain /\ j < m + 1
      /\ \A j \in 1..Len(chain) : j \in DOMAIN chain /\ (j \in 1..m \/ j = m + 1 \/ m + 1 < j)
  OBVIOUS
<1>2. n \in TokenName /\ chain[m + 1].number \in Nat
  BY <1>1, NameAt, ItemAt
<1>3. ASSUME NEW j \in 1..m, DeploysAt(chain, j, n)
      PROVE  n \in DOMAIN infos /\ chain[m + 1].number >= infos[n].height
  <2>1. n \in DOMAIN infos /\ infos[n].height = chain[j].number
    BY <1>1, <1>2, <1>3 DEF DeployedFrom
  <2>2. chain[j].number <= chain[m + 1].number /\ chain[j].number \in Nat
    BY <1>1, ItemAt DEF Sorted
  <2> QED BY <1>2, <2>1, <2>2
<1>4. ASSUME n \in DOMAIN infos, chain[m + 1].number >= infos[n].height
      PROVE  \E j \in 1..m : DeploysAt(chain, j, n)
  <2>1. PICK j \in 1..Len(chain) : DeploysAt(chain, j, n)
    BY <1>2, <1>4 DEF DeployedFrom
  <2>2. infos[n].height = chain[j].number /\ chain[j].number \in Nat
    BY <1>2, <2>1, ItemAt DEF DeployedFrom
  <2>3. j # m + 1
    BY <2>1 DEF DeploysAt
  <2>4. ~(m + 1 < j)
    <3>1. SUFFICES ASSUME m + 1 < j
                   PROVE  chain[m + 1].number < chain[j].number
      BY <1>2, <1>4, <2>2
    <3>2. j \in DOMAIN chain /\ DataAt(chain, j).kind = "deployment" /\ DataAt(chain, j).name = n
      BY <1>1, <2>1 DEF DeploysAt
    <3> QED BY <1>1, <3>1, <3>2 DEF InOrder
  <2> QED BY <1>1, <2>1, <2>3, <2>4
<1> QED BY <1>3, <1>4

LEMMA TransferLoaded ==
    ASSUME NEW chain \in Seq(Item), InOrder(chain), Sorted(chain), NEW m \in 0..(Len(chain) - 1),
           NEW infos, DeployedFrom(chain, Len(chain), infos), NEW f, Follows(f, chain),
           NEW held \in Held, \A n \in TokenName : HeldBy(f, chain, m, held, n), NEW next,
           LET d == DataAt(chain, m + 1)
           IN  next = IF /\ d.kind = "transfer" /\ d.name \in DOMAIN infos
                         /\ chain[m + 1].number >= infos[d.name].height
                      THEN After(held, d) ELSE held
    PROVE  \A n \in TokenName : HeldBy(f, chain, m + 1, next, n)
<1> DEFINE d == DataAt(chain, m + 1)
           t == chain[m + 1].tx
           given == f[m]
<1>1. /\ m \in Nat /\ Len(chain) \in Nat /\ m + 1 \in 1..Len(chain) /\ m + 1 \in 1..(m + 1)
      /\ \A j \in 1..(m + 1) : j = m + 1 \/ j \in 1..m
      /\ \A j \in 1..m : j \in 1..(m + 1) /\ j \in 1..Len(chain) /\ j # m + 1
      /\ (m + 1) - 1 = m /\ m \in 0..Len(chain)
  OBVIOUS
<1>2. /\ t \in TokenTx /\ d = TokenData[t] /\ d.name \in TokenName
      /\ d.kind \in {"deployment", "transfer", "none"}
  BY <1>1, NameAt, ItemAt DEF DataAt
<1>3. f[m + 1] = After(given, d) /\ given \in Held
  BY <1>1 DEF Follows
<1> SUFFICES ASSUME NEW n \in TokenName
             PROVE  HeldBy(f, chain, m + 1, next, n)
  OBVIOUS
<1>4. HeldBy(f, chain, m, held, n)
  OBVIOUS
<1>5. CASE d.kind = "none" \/ d.name # n
  <2>1. \A a \in Account : /\ f[m + 1][a][n] = f[m][a][n]
                           /\ next[a][n] = held[a][n]
    <3> HIDE DEF d, t
    <3>1. \A a \in Account : After(given, d)[a][n] = given[a][n] /\ After(held, d)[a][n] = held[a][n]
      BY <1>2, <1>3, <1>5, AfterOther
    <3>2. next = After(held, d) \/ next = held
      BY DEF d
    <3> HIDE DEF given
    <3> QED BY <1>3, <3>1, <3>2 DEF given
  <2>2. ~DeploysAt(chain, m + 1, n)
    BY <1>5 DEF DeploysAt
  <2>3. (\E j \in 1..(m + 1) : DeploysAt(chain, j, n)) <=> \E j \in 1..m : DeploysAt(chain, j, n)
    BY <1>1, <2>2
  <2>4. SupplyFrom(chain, Len(chain), held, n) => SupplyFrom(chain, Len(chain), next, n)
    BY <2>1 DEF SupplyFrom
  <2> QED BY <1>4, <2>1, <2>3, <2>4 DEF HeldBy
<1>6. CASE d.kind = "deployment" /\ d.name = n
  <2>1. DeploysAt(chain, m + 1, n) /\ next = held
    BY <1>6 DEF DeploysAt
  <2>2. \A j \in 1..m : ~DeploysAt(chain, j, n)
    BY <1>1, <2>1, DeployedOnce
  <2>3. \A a \in Account : f[m][a][n] = 0
    BY <1>1, <2>2, NoneBefore
  <2>4. \A a \in Account : f[m + 1][a][n] = IF a = d.from THEN d.amount ELSE 0
    <3> HIDE DEF d, t
    <3>1. \A a \in Account : given[a][n] = 0
      BY <2>3
    <3> HIDE DEF given
    <3> QED BY <1>2, <1>3, <1>6, <3>1, AfterDeploymentOf
  <2>5. SupplyFrom(chain, Len(chain), held, n)
    BY <1>4, <2>2 DEF HeldBy
  <2>6. \A a \in Account : held[a][n] = IF a = d.from THEN d.amount ELSE 0
    BY <1>1, <2>1, <2>5 DEF SupplyFrom
  <2>7. \A a \in Account : next[a][n] = f[m + 1][a][n]
    BY <2>1, <2>4, <2>6
  <2> QED BY <1>1, <2>1, <2>7 DEF HeldBy
<1>7. CASE d.kind = "transfer" /\ d.name = n
  <2>1. next = IF \E j \in 1..m : DeploysAt(chain, j, n) THEN After(held, d) ELSE held
    BY <1>7, TransferIsReplayed
  <2>2. ~DeploysAt(chain, m + 1, n)
    BY <1>7 DEF DeploysAt
  <2>3. (\E j \in 1..(m + 1) : DeploysAt(chain, j, n)) <=> \E j \in 1..m : DeploysAt(chain, j, n)
    BY <1>1, <2>2
  <2>4. CASE \E j \in 1..m : DeploysAt(chain, j, n)
    <3>1. \A a \in Account : held[a][n] = given[a][n]
      BY <1>4, <2>4 DEF HeldBy
    <3> HIDE DEF d, t, given
    <3>2. \A a \in Account : After(held, d)[a][n] = After(given, d)[a][n]
      BY <1>2, <1>3, <3>1, AfterAgrees
    <3> QED BY <1>3, <2>1, <2>3, <2>4, <3>2 DEF HeldBy
  <2>5. CASE ~\E j \in 1..m : DeploysAt(chain, j, n)
    BY <1>4, <2>1, <2>3, <2>5 DEF HeldBy
  <2> QED BY <2>4, <2>5
<1> QED BY <1>2, <1>5, <1>6, <1>7

\* When all passes are over, what is held is what the blocks gave.
LEMMA LoadedAll ==
    ASSUME NEW chain \in Seq(Item), NEW f, Follows(f, chain), NEW held \in Held,
           \A n \in TokenName : HeldBy(f, chain, Len(chain), held, n)
    PROVE  held = f[Len(chain)]
<1>1. Len(chain) \in Nat /\ Len(chain) \in 0..Len(chain)
  OBVIOUS
<1>2. f[Len(chain)] \in Held
  BY <1>1 DEF Follows
<1>3. ASSUME NEW n \in TokenName
      PROVE  \A a \in Account : held[a][n] = f[Len(chain)][a][n]
  <2>1. HeldBy(f, chain, Len(chain), held, n)
    OBVIOUS
  <2>2. CASE \E j \in 1..Len(chain) : DeploysAt(chain, j, n)
    BY <2>1, <2>2 DEF HeldBy
  <2>3. CASE \A j \in 1..Len(chain) : ~DeploysAt(chain, j, n)
    <3>1. \A a \in Account : f[Len(chain)][a][n] = 0
      BY <1>1, <2>3, NoneBefore
    <3> QED BY <2>1, <2>3, <3>1 DEF HeldBy, SupplyFrom
  <2> QED BY <2>2, <2>3
<1> QED BY <1>2, <1>3, SameHeld

-----------------------------------------------------------------------------
(* The invariant: the answers are what the blocks gave, or will be when the   *)
(* loader is done.                                                            *)

\* list is the chain without its first m transactions.
Rest(chain, m, list) ==
    /\ Len(list) + m = Len(chain)
    /\ \A i \in 1..Len(list) : list[i] = chain[m + i]

Below(chain, list) ==
    \A i \in DOMAIN chain, j \in DOMAIN list : chain[i].number <= list[j].number

NumbersInv ==
    /\ Sorted(tokenChain)
    /\ tokenPhase \in {"extend", "reorganize"} => Sorted(todo) /\ Below(tokenChain, todo)

\* Where the loader is after m transactions of a pass.
Loaded(f, m) ==
    LET len == Len(tokenChain)
        known == IF tokenPhase = "deployments" THEN m ELSE len
    IN  /\ DeployedFrom(tokenChain, known, deployedTokens)
        /\ \A n \in TokenName :
              IF tokenPhase = "transfers" THEN HeldBy(f, tokenChain, m, Answers, n)
              ELSE SupplyFrom(tokenChain, known, Answers, n)

LoaderInv(f) ==
    tokenPhase \in LoadingPhases =>
        \E m \in 0..Len(tokenChain) : Rest(tokenChain, m, todo) /\ (Orderly => Loaded(f, m))

\* f gives what each prefix of the chain gave.
HeldInv(f) ==
    /\ Follows(f, tokenChain)
    /\ tokenPhase \in {"idle", "extend"} /\ tokenTrouble = {} /\ Orderly
           => Answers = f[Len(tokenChain)]
    /\ savedTokens # <<>> => Orderly /\ savedTokens = f[Len(tokenChain)]

PhaseInv ==
    /\ tokenPhase = "idle" => todo = <<>>
    /\ tokenPhase \notin LoadingPhases => savedTokens = <<>>
    /\ tokenPhase = "reorganize" => tokenTrouble # {}

RestartInv == NumbersInv /\ PhaseInv /\ \E f : HeldInv(f) /\ LoaderInv(f)

LEMMA SameBalances ==
    ASSUME tokenBalances' = tokenBalances
    PROVE  Answers' = Answers
  BY DEF Answers, GetTokenBalance

\* What is left after one more transaction.
LEMMA RestTail ==
    ASSUME NEW chain \in Seq(Item), NEW m \in 0..Len(chain), NEW list \in Seq(Item),
           Rest(chain, m, list), list # <<>>
    PROVE  /\ m \in 0..(Len(chain) - 1) /\ m + 1 \in 0..Len(chain)
           /\ Head(list) = chain[m + 1] /\ Rest(chain, m + 1, Tail(list))
<1>1. /\ Len(list) \in Nat \ {0} /\ Head(list) = list[1] /\ Len(Tail(list)) = Len(list) - 1
      /\ \A i \in 1..Len(Tail(list)) : Tail(list)[i] = list[i + 1] /\ i + 1 \in 1..Len(list)
      /\ Len(chain) \in Nat /\ m \in Nat
  OBVIOUS
<1>2. Len(list) + m = Len(chain)
  BY DEF Rest
<1>3. m \in 0..(Len(chain) - 1) /\ m + 1 \in 0..Len(chain)
  BY <1>1, <1>2
<1>4. 1 \in 1..Len(list)
  BY <1>1
<1>5. Head(list) = chain[m + 1]
  BY <1>1, <1>4 DEF Rest
<1>6. Len(Tail(list)) + (m + 1) = Len(chain)
  BY <1>1, <1>2
<1>7. ASSUME NEW i \in 1..Len(Tail(list))
      PROVE  Tail(list)[i] = chain[(m + 1) + i]
  <2>1. m + (i + 1) = (m + 1) + i
    BY <1>1
  <2> QED BY <1>1, <1>7, <2>1 DEF Rest
<1> QED BY <1>3, <1>5, <1>6, <1>7 DEF Rest

LEMMA RestAll ==
    ASSUME NEW chain \in Seq(Item)
    PROVE  Rest(chain, 0, chain) /\ 0 \in 0..Len(chain)
<1>1. Len(chain) \in Nat /\ \A i \in 1..Len(chain) : 0 + i = i
  OBVIOUS
<1> QED BY <1>1 DEF Rest

LEMMA RestNone ==
    ASSUME NEW chain \in Seq(Item), NEW m \in 0..Len(chain), Rest(chain, m, <<>>)
    PROVE  m = Len(chain)
  BY DEF Rest

\* Block numbers keep their order when a transaction goes from todo to the chain.
LEMMA NumbersProceed ==
    ASSUME NEW chain \in Seq(Item), NEW list \in Seq(Item), list # <<>>,
           Sorted(chain), Sorted(list), Below(chain, list)
    PROVE  /\ Sorted(Append(chain, Head(list))) /\ Sorted(Tail(list))
           /\ Below(Append(chain, Head(list)), Tail(list))
<1> DEFINE len == Len(chain)
           x == Head(list)
           more == Append(chain, x)
           rest == Tail(list)
<1>1. /\ len \in Nat /\ DOMAIN chain = 1..len /\ DOMAIN more = 1..(len + 1) /\ more[len + 1] = x
      /\ \A i \in 1..len : more[i] = chain[i]
      /\ x = list[1] /\ 1 \in DOMAIN list
      /\ \A j \in DOMAIN rest : rest[j] = list[j + 1] /\ j + 1 \in DOMAIN list /\ 1 < j + 1 /\ j \in Nat
  OBVIOUS
<1> HIDE DEF len, x, more, rest
<1>2. \A i \in 1..(len + 1) : i = len + 1 \/ (i \in 1..len /\ i < len + 1)
  BY <1>1
<1>3. ASSUME NEW i \in DOMAIN more, NEW j \in DOMAIN more, i < j
      PROVE  more[i].number <= more[j].number
  <2>1. i \in 1..len
    BY <1>1, <1>2, <1>3
  <2>2. CASE j = len + 1
    BY <1>1, <2>1, <2>2 DEF Below
  <2>3. CASE j \in 1..len
    BY <1>1, <1>3, <2>1, <2>3 DEF Sorted
  <2> QED BY <1>1, <1>2, <2>2, <2>3
<1>4. ASSUME NEW i \in DOMAIN rest, NEW j \in DOMAIN rest, i < j
      PROVE  rest[i].number <= rest[j].number
  <2>1. i + 1 < j + 1
    BY <1>1, <1>4
  <2> QED BY <1>1, <2>1 DEF Sorted
<1>5. ASSUME NEW i \in DOMAIN more, NEW j \in DOMAIN rest
      PROVE  more[i].number <= rest[j].number
  <2>1. CASE i = len + 1
    BY <1>1, <2>1 DEF Sorted
  <2>2. CASE i \in 1..len
    BY <1>1, <2>2 DEF Below
  <2> QED BY <1>1, <1>2, <2>1, <2>2
<1>6. Sorted(more) /\ Sorted(rest) /\ Below(more, rest)
  BY <1>3, <1>4, <1>5 DEF Sorted, Below
<1> QED BY <1>6 DEF more, rest, x

LEMMA NumbersPrefix ==
    ASSUME NEW chain \in Seq(Item), NEW m \in 0..Len(chain), Sorted(chain)
    PROVE  Sorted(SubSeq(chain, 1, m))
<1>1. /\ DOMAIN SubSeq(chain, 1, m) = 1..m
      /\ \A i \in 1..m : i \in DOMAIN chain /\ SubSeq(chain, 1, m)[i] = chain[i]
  OBVIOUS
<1> QED BY <1>1 DEF Sorted

\* A chain that goes on in order was in order.
LEMMA OrderBefore ==
    ASSUME NEW chain \in Seq(Item), NEW x \in Item, InOrder(Append(chain, x))
    PROVE  InOrder(chain)
<1>1. \A i \in DOMAIN chain : i \in DOMAIN Append(chain, x) /\ Append(chain, x)[i] = chain[i]
  OBVIOUS
<1> QED BY <1>1 DEF InOrder, DataAt

\* A block that extends the chain has the next number.
LEMMA ExtendHeld ==
    ASSUME LoopOK, RestartInv, NEW txs \in TokenBlocks, ExtendTokens(txs)
    PROVE  RestartInv'
<1>1. /\ tokenPhase = "idle" /\ tokenPhase' = "extend" /\ tokenChain' = tokenChain
      /\ tokenBalances' = tokenBalances /\ tokenTrouble' = tokenTrouble
      /\ savedTokens' = savedTokens /\ todo' = Numbered(txs, TokenHeight + 1)
  BY DEF ExtendTokens, ledger
<1>2. Answers' = Answers
  BY <1>1, SameBalances
<1>3. \A j \in DOMAIN todo' : todo'[j].number = TokenHeight + 1
  BY <1>1 DEF Numbered
<1>4. TokenHeight \in Nat /\ \A i \in DOMAIN tokenChain : tokenChain[i].number <= TokenHeight
  <2>1. ASSUME NEW i \in DOMAIN tokenChain
        PROVE  tokenChain[i].number <= TokenHeight
    <3> DEFINE len == Len(tokenChain)
    <3>1. /\ i \in 1..len /\ len \in 1..len /\ tokenChain # <<>> /\ len \in DOMAIN tokenChain
          /\ i \in Nat /\ len \in Nat
      BY DEF LoopOK
    <3>2. TokenHeight = tokenChain[len].number
      BY <3>1 DEF TokenHeight
    <3>3. tokenChain[i].number \in Nat
      BY <3>1, ItemAt DEF LoopOK
    <3> HIDE DEF len
    <3>4. CASE i = len
      BY <3>2, <3>3, <3>4
    <3>5. CASE i < len
      BY <3>1, <3>2, <3>5 DEF RestartInv, NumbersInv, Sorted
    <3> QED BY <3>1, <3>4, <3>5
  <2> QED BY <2>1, HeightIsNat
<1>5. \A i \in DOMAIN tokenChain : tokenChain[i].number \in Nat
  BY ItemAt DEF LoopOK
<1>6. NumbersInv'
  <2>1. Sorted(todo')
    BY <1>3, <1>4 DEF Sorted
  <2>2. Below(tokenChain, todo')
    BY <1>3, <1>4, <1>5 DEF Below
  <2> QED BY <1>1, <2>1, <2>2 DEF RestartInv, NumbersInv
<1>7. PhaseInv'
  BY <1>1 DEF RestartInv, PhaseInv, LoadingPhases
<1>8. PICK f : HeldInv(f)
  BY DEF RestartInv
<1>9. HeldInv(f)' /\ LoaderInv(f)'
  BY <1>1, <1>2, <1>8 DEF HeldInv, LoaderInv, LoadingPhases, Orderly
<1> QED BY <1>6, <1>7, <1>9 DEF RestartInv

\* A branch goes on from the block where the chain is cut.
LEMMA ReorganizeHeld ==
    ASSUME LoopOK, RestartInv, NEW n \in 0..Len(tokenChain), NEW branch \in Branches,
           ReorganizeTokens(n, branch)
    PROVE  RestartInv'
<1> DEFINE k == IF n = 0 THEN 0 ELSE tokenChain[n].number
<1>1. /\ tokenPhase = "idle" /\ tokenPhase' = "reorganize" /\ tokenChain' = SubSeq(tokenChain, 1, n)
      /\ tokenTrouble' = tokenTrouble \cup {"reorganization"} /\ savedTokens' = savedTokens
      /\ todo' = [i \in DOMAIN branch |-> [tx |-> branch[i].tx, number |-> k + branch[i].block]]
  BY DEF ReorganizeTokens
<1>2. /\ \A j \in DOMAIN todo' : /\ todo'[j].number = k + branch[j].block
                                 /\ j \in DOMAIN branch /\ branch[j].block \in Nat
      /\ \A i, j \in DOMAIN branch : i < j => branch[i].block <= branch[j].block
  <2> DEFINE BranchItem == [tx : TokenTx, block : Nat \ {0}]
  <2>1. /\ branch \in Seq(BranchItem)
        /\ \A i, j \in DOMAIN branch : i < j => branch[i].block <= branch[j].block
    BY TokenAssumption
  <2>2. \A r \in BranchItem : r.block \in Nat
    OBVIOUS
  <2> HIDE DEF BranchItem
  <2>3. \A j \in DOMAIN branch : branch[j].block \in Nat
    BY <2>1, <2>2
  <2> QED BY <1>1, <2>1, <2>3
<1>3. k \in Nat /\ \A i \in 1..n : tokenChain[i].number \in Nat /\ tokenChain[i].number <= k
  <2>1. Len(tokenChain) \in Nat /\ \A i \in 1..n : /\ i \in 1..Len(tokenChain) /\ i \in DOMAIN tokenChain
                                                   /\ i \in Nat /\ n # 0 /\ n \in 1..Len(tokenChain)
                                                   /\ n \in DOMAIN tokenChain /\ (i = n \/ i < n)
    BY DEF LoopOK
  <2>2. \A i \in 1..Len(tokenChain) : tokenChain[i].number \in Nat
    BY ItemAt DEF LoopOK
  <2>3. k \in Nat
    <3>1. n = 0 \/ n \in 1..Len(tokenChain)
      BY <2>1
    <3> QED BY <2>2, <3>1
  <2>4. ASSUME NEW i \in 1..n
        PROVE  tokenChain[i].number <= k
    <3>1. k = tokenChain[n].number
      BY <2>1
    <3> HIDE DEF k
    <3> QED BY <2>1, <2>2, <2>3, <3>1 DEF RestartInv, NumbersInv, Sorted
  <2> QED BY <2>1, <2>2, <2>3, <2>4
<1> HIDE DEF k
<1>4. NumbersInv'
  <2>1. Sorted(tokenChain')
    BY <1>1, NumbersPrefix DEF LoopOK, RestartInv, NumbersInv
  <2>2. Sorted(todo')
    BY <1>2, <1>3 DEF Sorted
  <2>3. DOMAIN tokenChain' = 1..n /\ \A i \in 1..n : tokenChain'[i] = tokenChain[i]
    BY <1>1 DEF LoopOK
  <2>4. Below(tokenChain', todo')
    BY <1>2, <1>3, <2>3 DEF Below
  <2> QED BY <2>1, <2>2, <2>4 DEF NumbersInv
<1>5. PhaseInv'
  BY <1>1 DEF RestartInv, PhaseInv, LoadingPhases
<1>6. PICK f : HeldInv(f)
  BY DEF RestartInv
<1>7. Follows(f, tokenChain')
  BY <1>1, <1>6, FollowsPrefix DEF LoopOK, HeldInv
<1>8. savedTokens' = <<>>
  BY <1>1 DEF RestartInv, PhaseInv, LoadingPhases
<1>9. HeldInv(f)' /\ LoaderInv(f)'
  BY <1>1, <1>7, <1>8 DEF HeldInv, LoaderInv, LoadingPhases
<1> QED BY <1>4, <1>5, <1>9 DEF RestartInv

\* A transaction of a block goes to the chain.
LEMMA AddedHeld ==
    ASSUME LedgerOK, LedgerOK', LoopOK, RestartInv, tokenPhase \in {"extend", "reorganize"},
           ProcessDeployment \/ ProcessTransfer \/ SkipTx
    PROVE  RestartInv'
<1>1. /\ todo # <<>> /\ todo' = Tail(todo) /\ tokenChain' = Append(tokenChain, Head(todo))
      /\ tokenPhase' = tokenPhase /\ tokenTrouble' = tokenTrouble /\ savedTokens' = savedTokens
  BY DEF ProcessDeployment, ProcessTransfer, SkipTx, Processing, Proceed
<1>2. NextTx \in TokenTx /\ Head(todo) \in Item /\ Head(todo).number \in Nat /\ tokenChain \in Seq(Item)
      /\ todo \in Seq(Item)
  BY <1>1, NextItem DEF LoopOK
<1>3. tokenPhase = "extend" => Answers' = After(Answers, TokenData[NextTx])
  <2> SUFFICES ASSUME tokenPhase = "extend"
               PROVE  Answers' = After(Answers, TokenData[NextTx])
    OBVIOUS
  <2>1. CASE ProcessDeployment
    <3>1. processTokenDeployment(NextTx, Head(todo).number) /\ TokenData[NextTx].kind = "deployment"
      BY <2>1 DEF ProcessDeployment, IsDeployment
    <3>2. Answers' = Given(Answers, TokenData[NextTx])
      BY <1>2, <3>1, DeploymentGives
    <3> QED BY <3>1, <3>2 DEF After
  <2>2. CASE ProcessTransfer
    BY <1>2, <2>2, TransferMoves DEF ProcessTransfer
  <2>3. CASE SkipTx
    <3>1. TokenData[NextTx].kind = "none" /\ tokenBalances' = tokenBalances
      BY <2>3 DEF SkipTx, ledger
    <3> QED BY <3>1, SameBalances DEF After
  <2> QED BY <2>1, <2>2, <2>3
<1>4. NumbersInv'
  BY <1>1, <1>2, NumbersProceed DEF RestartInv, NumbersInv
<1>5. PhaseInv'
  BY <1>1 DEF RestartInv, PhaseInv
<1>6. PICK f : HeldInv(f)
  BY DEF RestartInv
<1>7. PICK g : /\ Follows(g, tokenChain')
               /\ g[Len(tokenChain) + 1] = After(f[Len(tokenChain)], TokenData[NextTx])
  BY <1>1, <1>2, <1>6, FollowsAppend DEF HeldInv, NextTx
<1>8. Len(tokenChain') = Len(tokenChain) + 1
  BY <1>1, <1>2
<1>9. Orderly' => Orderly
  <2>1. Orderly' <=> InOrder(tokenChain')
    BY DEF Orderly, InOrder, DataAt, IsDeployment, IsTransfer
  <2> QED BY <1>1, <1>2, <2>1, OrderlyIsInOrder, OrderBefore
<1>10. savedTokens' = <<>> /\ ~(tokenPhase' \in LoadingPhases)
  BY <1>1 DEF RestartInv, PhaseInv, LoadingPhases
<1>11. tokenPhase' \in {"idle", "extend"} /\ tokenTrouble' = {} /\ Orderly'
           => Answers' = g[Len(tokenChain')]
  BY <1>1, <1>3, <1>6, <1>7, <1>8, <1>9 DEF HeldInv
<1>12. HeldInv(g)'
  BY <1>7, <1>10, <1>11 DEF HeldInv
<1>13. LoaderInv(g)'
  BY <1>10 DEF LoaderInv
<1> QED BY <1>4, <1>5, <1>12, <1>13 DEF RestartInv

\* Steps between which the chain and the balances do not change, or after which a restart
\* has nothing to keep.
LEMMA IdleHeld ==
    ASSUME RestartInv, UNCHANGED <<tokenChain, savedTokens, todo>>, tokenPhase' = "idle",
           tokenPhase = "idle" \/ (tokenPhase \in {"extend", "reorganize"} /\ todo = <<>>),
           (Answers' = Answers /\ tokenTrouble' = tokenTrouble) \/ tokenTrouble' # {}
    PROVE  RestartInv'
<1>1. NumbersInv' /\ PhaseInv'
  BY DEF RestartInv, NumbersInv, PhaseInv, LoadingPhases
<1>2. PICK f : HeldInv(f)
  BY DEF RestartInv
<1>3. LoaderInv(f)'
  BY DEF LoaderInv, LoadingPhases
<1>4. savedTokens' = <<>>
  BY DEF RestartInv, PhaseInv, LoadingPhases
<1>5. Orderly' <=> Orderly
  BY DEF Orderly
<1>6. HeldInv(f)'
  BY <1>2, <1>4, <1>5 DEF HeldInv, RestartInv, PhaseInv
<1> QED BY <1>1, <1>3, <1>6 DEF RestartInv

LEMMA RefuseHeld ==
    ASSUME LoopOK, RestartInv, RefuseTokenBlock
    PROVE  RestartInv'
<1>1. /\ tokenPhase = "extend" /\ tokenPhase' = "idle" /\ firstOfBlock \in 0..Len(tokenChain)
      /\ tokenChain' = SubSeq(tokenChain, 1, firstOfBlock)
      /\ tokenTrouble' # {} /\ savedTokens' = savedTokens /\ todo' = <<>> /\ tokenChain \in Seq(Item)
  BY DEF RefuseTokenBlock, LoopOK
<1>2. NumbersInv'
  BY <1>1, NumbersPrefix DEF RestartInv, NumbersInv
<1>3. PhaseInv'
  BY <1>1 DEF RestartInv, PhaseInv, LoadingPhases
<1>4. PICK f : HeldInv(f)
  BY DEF RestartInv
<1>5. Follows(f, tokenChain')
  BY <1>1, <1>4, FollowsPrefix DEF HeldInv
<1>6. HeldInv(f)' /\ LoaderInv(f)'
  BY <1>1, <1>3, <1>5 DEF HeldInv, LoaderInv, PhaseInv, LoadingPhases
<1> QED BY <1>2, <1>3, <1>6 DEF RestartInv

\* A deployment over RPC is written to no balance that is read, but for one in hex.
LEMMA DeployHeld ==
    ASSUME LedgerOK, LedgerOK', RestartInv, NEW t \in TokenTx, NEW form \in {"hex", "text"},
           handleDeployToken(t, form)
    PROVE  RestartInv'
<1> DEFINE d == TokenData[t]
           k == <<d.from, form>>
<1>1. /\ tokenPhase = "idle" /\ tokenPhase' = "idle" /\ tokenChain' = tokenChain
      /\ savedTokens' = savedTokens /\ todo' = todo /\ DeployToken(d, form)
  BY DEF handleDeployToken
<1>2. CASE tokenBalances' = tokenBalances /\ tokenTrouble' = tokenTrouble
  BY <1>1, <1>2, SameBalances, IdleHeld
<1>3. CASE form = "hex" /\ tokenTrouble' = tokenTrouble \cup {"rpc"}
  BY <1>1, <1>3, IdleHeld
<1>4. CASE /\ form = "text" /\ tokenTrouble' = tokenTrouble
           /\ tokenBalances' = SetBalance(k, d.name, d.amount)
  <2>1. d.name \in TokenName /\ d.amount \in Nat /\ k \in Key /\ \A a \in Account : Hex(a) # k
    BY <1>4, DataTypes, HexIsOne DEF Key, Hex
  <2> HIDE DEF d, k
  <2>2. tokenBalances \in [Key -> [TokenName -> Nat]]
    BY DEF LedgerOK
  <2>3. \A j \in Key, n \in TokenName : j # k => tokenBalances'[j][n] = tokenBalances[j][n]
    BY <1>4, <2>1, <2>2 DEF SetBalance
  <2>4. Answers' = Answers
    BY <2>1, <2>3, SameAnswers
  <2> QED BY <1>1, <1>4, <2>4, IdleHeld
<1> QED BY <1>1, <1>2, <1>3, <1>4 DEF DeployToken, ledger

LEMMA RestartHeld ==
    ASSUME LoopOK, RestartInv, RestartTokens
    PROVE  RestartInv'
<1>1. /\ tokenPhase = "idle" /\ tokenPhase' = "deployments" /\ tokenChain' = tokenChain
      /\ todo' = tokenChain /\ tokenChain \in Seq(Item)
      /\ DOMAIN deployedTokens' = {} /\ tokenBalances' = NoBalances
      /\ savedTokens' = IF tokenTrouble = {} /\ Orderly THEN Answers ELSE <<>>
  BY DEF RestartTokens, LoopOK
<1>2. NumbersInv' /\ PhaseInv'
  BY <1>1 DEF RestartInv, NumbersInv, PhaseInv, LoadingPhases
<1>3. PICK f : HeldInv(f)
  BY DEF RestartInv
<1>4. Orderly' <=> Orderly
  BY <1>1 DEF Orderly
<1>5. HeldInv(f)'
  BY <1>1, <1>3, <1>4 DEF HeldInv
<1>6. \A a \in Account, n \in TokenName : Answers'[a][n] = 0
  BY <1>1, HexIsOne DEF Answers, GetTokenBalance, NoBalances
<1>7. Loaded(f, 0)'
  <2>1. DeployedFrom(tokenChain', 0, deployedTokens')
    BY <1>1 DEF DeployedFrom
  <2>2. \A n \in TokenName : SupplyFrom(tokenChain', 0, Answers', n)
    BY <1>6 DEF SupplyFrom
  <2> QED BY <1>1, <2>1, <2>2 DEF Loaded
<1>8. 0 \in 0..Len(tokenChain') /\ Rest(tokenChain', 0, todo')
  BY <1>1, RestAll
<1>9. LoaderInv(f)'
  BY <1>7, <1>8 DEF LoaderInv
<1> QED BY <1>2, <1>5, <1>9 DEF RestartInv

\* A pass of the loader deals with a transaction.
LEMMA LoadHeld ==
    ASSUME LedgerOK, LedgerOK', LoopOK, RestartInv, tokenPhase \in LoadingPhases,
           ProcessDeployment \/ SkipTx \/ RestoreDeployment \/ ReplayTransfer
    PROVE  RestartInv'
<1>1. /\ todo # <<>> /\ todo' = Tail(todo) /\ tokenChain' = tokenChain
      /\ tokenPhase' = tokenPhase /\ tokenTrouble' = tokenTrouble /\ savedTokens' = savedTokens
      /\ todo \in Seq(Item) /\ tokenChain \in Seq(Item)
  BY DEF ProcessDeployment, SkipTx, RestoreDeployment, ReplayTransfer, Processing, Proceed,
         LoadingPhases, LoopOK
<1>2. PICK f : HeldInv(f) /\ LoaderInv(f)
  BY DEF RestartInv
<1>3. PICK m \in 0..Len(tokenChain) : Rest(tokenChain, m, todo) /\ (Orderly => Loaded(f, m))
  BY <1>2 DEF LoaderInv
<1>4. /\ m \in 0..(Len(tokenChain) - 1) /\ m + 1 \in 0..Len(tokenChain) /\ m + 1 \in 1..Len(tokenChain)
      /\ Head(todo) = tokenChain[m + 1] /\ Rest(tokenChain, m + 1, Tail(todo)) /\ m \in Nat
  BY <1>1, <1>3, RestTail
<1>5. NumbersInv' /\ PhaseInv'
  BY <1>1 DEF RestartInv, NumbersInv, PhaseInv, LoadingPhases
<1>6. Orderly' <=> Orderly
  BY <1>1 DEF Orderly
<1>7. HeldInv(f)'
  BY <1>1, <1>2, <1>6 DEF HeldInv, LoadingPhases
<1>8. ASSUME Orderly
      PROVE  Loaded(f, m + 1)'
  <2> DEFINE chain == tokenChain
             d == DataAt(chain, m + 1)
             len == Len(tokenChain)
  <2>1. /\ InOrder(chain) /\ Sorted(chain) /\ Follows(f, chain) /\ Loaded(f, m)
    BY <1>2, <1>3, <1>8, OrderlyIsInOrder DEF RestartInv, NumbersInv, HeldInv
  <2>2. /\ NextTx \in TokenTx /\ d = TokenData[NextTx] /\ Head(todo).number = chain[m + 1].number
        /\ Head(todo).number \in Nat /\ d.name \in TokenName
    BY <1>1, <1>4, NextItem, NameAt DEF DataAt, NextTx
  <2>3. Answers \in Held /\ Answers' \in Held
    BY AnswersType, NextAnswersType
  <2>4. /\ LoadingPhases = {"deployments", "restore", "transfers"}
        /\ tokenPhase = "deployments" \/ tokenPhase = "restore" \/ tokenPhase = "transfers"
    BY DEF LoadingPhases
  <2>5. CASE tokenPhase = "deployments"
    <3>1. /\ DeployedFrom(chain, m, deployedTokens)
          /\ \A n \in TokenName : SupplyFrom(chain, m, Answers, n)
      BY <2>1, <2>5 DEF Loaded
    <3>2. CASE ProcessDeployment
      <4>1. processTokenDeployment(NextTx, Head(todo).number) /\ d.kind = "deployment"
        BY <2>2, <3>2 DEF ProcessDeployment, IsDeployment
      <4>2. DeploysAt(chain, m + 1, d.name)
        BY <4>1 DEF DeploysAt
      <4>3. ~Deployed(d.name)
        <5>1. \A j \in 1..m : ~DeploysAt(chain, j, d.name)
          <6>1. \A j \in 1..m : j \in 1..len /\ j # m + 1
            BY <1>4
          <6> QED BY <1>1, <1>4, <2>1, <4>2, <6>1, DeployedOnce
        <5> QED BY <2>2, <3>1, <5>1 DEF DeployedFrom, Deployed
      <4>4. deployedTokens' = AddToken(d.name, Hex(d.from), d.amount, Head(todo).number)
        BY <2>2, <4>1, <4>3 DEF processTokenDeployment
      <4>5. /\ DOMAIN deployedTokens' = DOMAIN deployedTokens \cup {d.name}
            /\ \A n \in DOMAIN deployedTokens \ {d.name} : deployedTokens'[n] = deployedTokens[n]
            /\ deployedTokens'[d.name].height = chain[m + 1].number
        BY <2>2, <4>4 DEF AddToken
      <4>6. Answers' = After(Answers, d)
        BY <2>2, <4>1, DeploymentGives DEF After
      <4>7. /\ DeployedFrom(chain, m + 1, deployedTokens')
            /\ \A n \in TokenName : SupplyFrom(chain, m + 1, After(Answers, d), n)
        <5>1. PICK n0, infos, more, held : /\ n0 = d.name /\ infos = deployedTokens
                                           /\ more = deployedTokens' /\ held = Answers
          OBVIOUS
        <5>2. /\ chain \in Seq(Item) /\ InOrder(chain) /\ m \in 0..(Len(chain) - 1) /\ held \in Held
              /\ DeploysAt(chain, m + 1, n0) /\ DeployedFrom(chain, m, infos)
              /\ \A n \in TokenName : SupplyFrom(chain, m, held, n)
              /\ DOMAIN more = DOMAIN infos \cup {n0}
              /\ \A n \in DOMAIN infos \ {n0} : more[n] = infos[n]
              /\ more[n0].height = chain[m + 1].number
          BY <1>1, <1>4, <2>1, <2>3, <3>1, <4>2, <4>5, <5>1
        <5> HIDE DEF chain
        <5>3. /\ DeployedFrom(chain, m + 1, more)
              /\ \A n \in TokenName : SupplyFrom(chain, m + 1, After(held, DataAt(chain, m + 1)), n)
          BY <5>2, DeploymentLoaded
        <5> QED BY <5>1, <5>3
      <4> QED BY <1>1, <2>5, <4>6, <4>7 DEF Loaded
    <3>3. CASE SkipTx
      <4>1. UNCHANGED ledger /\ d.kind # "deployment"
        BY <2>2, <2>5, <3>3 DEF SkipTx, IsDeployment, IsTransfer
      <4>2. deployedTokens' = deployedTokens /\ Answers' = Answers
        BY <4>1, SameBalances DEF ledger
      <4>3. /\ DeployedFrom(chain, m + 1, deployedTokens)
            /\ \A n \in TokenName : SupplyFrom(chain, m + 1, Answers, n)
        BY <1>4, <3>1, <4>1, OtherLoaded
      <4> QED BY <1>1, <2>5, <4>2, <4>3 DEF Loaded
    <3> QED BY <2>5, <3>2, <3>3 DEF RestoreDeployment, ReplayTransfer, Processing
  <2>6. CASE tokenPhase = "restore"
    <3>1. /\ DeployedFrom(chain, len, deployedTokens)
          /\ \A n \in TokenName : SupplyFrom(chain, len, Answers, n)
      BY <2>1, <2>6 DEF Loaded
    <3>2. UNCHANGED ledger
      <4>1. CASE RestoreDeployment
        <5>1. DeploysAt(chain, m + 1, d.name)
          BY <2>2, <4>1 DEF RestoreDeployment, IsDeployment, DeploysAt
        <5>2. Deployed(d.name)
          BY <1>4, <2>2, <3>1, <5>1 DEF DeployedFrom, Deployed
        <5> QED BY <2>2, <4>1, <5>2 DEF RestoreDeployment
      <4>2. CASE SkipTx
        BY <4>2 DEF SkipTx
      <4> QED BY <2>6, <4>1, <4>2 DEF ProcessDeployment, ReplayTransfer, Processing
    <3>3. deployedTokens' = deployedTokens /\ Answers' = Answers
      BY <3>2, SameBalances DEF ledger
    <3> QED BY <1>1, <2>6, <3>1, <3>3 DEF Loaded
  <2>7. CASE tokenPhase = "transfers"
    <3>1. /\ DeployedFrom(chain, len, deployedTokens)
          /\ \A n \in TokenName : HeldBy(f, chain, m, Answers, n)
      BY <2>1, <2>7 DEF Loaded
    <3>2. /\ deployedTokens' = deployedTokens
          /\ Answers' = IF /\ d.kind = "transfer" /\ d.name \in DOMAIN deployedTokens
                           /\ chain[m + 1].number >= deployedTokens[d.name].height
                        THEN After(Answers, d) ELSE Answers
      <4>1. CASE ReplayTransfer
        <5>1. IsTransfer(NextTx) /\ d.kind = "transfer"
          BY <2>2, <4>1 DEF ReplayTransfer, IsTransfer
        <5>n. NextTx \notin processedTxHashes
          <6>1. Len(tokenChain) - Len(todo) = m
            BY <1>1, <1>3 DEF Rest
          <6>2. ASSUME NEW j \in 1..m
                PROVE  tokenChain[j].tx # NextTx
            <7>1. j \in DOMAIN tokenChain /\ m + 1 \in DOMAIN tokenChain /\ j < m + 1
              BY <1>1, <1>4
            <7> QED BY <1>4, <2>1, <5>1, <7>1 DEF InOrder, NextTx
          <6> QED BY <6>1, <6>2 DEF processedTxHashes
        <5>t. Tried(Head(todo)) <=> Deployed(d.name) /\ AfterDeployment(d.name, Head(todo).number)
          BY <2>2, <5>1 DEF Tried, NextTx
        <5>2. CASE Deployed(d.name) /\ AfterDeployment(d.name, Head(todo).number)
          <6>1. processTokenTransfer(NextTx)
            BY <2>2, <4>1, <5>2, <5>n, <5>t DEF ReplayTransfer
          <6>2. deployedTokens' = deployedTokens /\ Answers' = After(Answers, d)
            BY <2>2, <5>1, <6>1, TransferMoves DEF processTokenTransfer
          <6> QED BY <2>2, <5>1, <5>2, <6>2 DEF Deployed, AfterDeployment
        <5>3. CASE ~(Deployed(d.name) /\ AfterDeployment(d.name, Head(todo).number))
          <6>1. deployedTokens' = deployedTokens /\ Answers' = Answers
            BY <2>2, <4>1, <5>3, <5>t, SameBalances DEF ReplayTransfer, ledger
          <6> QED BY <2>2, <5>3, <6>1 DEF Deployed, AfterDeployment
        <5> QED BY <5>2, <5>3
      <4>2. CASE SkipTx
        <5>1. UNCHANGED ledger /\ d.kind # "transfer"
          BY <2>2, <2>7, <4>2 DEF SkipTx, IsDeployment, IsTransfer
        <5> QED BY <5>1, SameBalances DEF ledger
      <4> QED BY <2>7, <4>1, <4>2 DEF ProcessDeployment, RestoreDeployment, Processing
    <3>3. \A n \in TokenName : HeldBy(f, chain, m + 1, Answers', n)
      BY <1>1, <1>4, <2>1, <2>3, <3>1, <3>2, TransferLoaded
    <3> QED BY <1>1, <2>7, <3>1, <3>2, <3>3 DEF Loaded
  <2> QED BY <2>4, <2>5, <2>6, <2>7
<1>9. LoaderInv(f)'
  BY <1>1, <1>4, <1>6, <1>8 DEF LoaderInv
<1> QED BY <1>5, <1>7, <1>9 DEF RestartInv

\* After the last pass what is held is what the blocks gave.
LEMMA LoaderIsDone ==
    ASSUME LedgerOK, LoopOK, Orderly, tokenPhase = "transfers", todo = <<>>,
           NEW f, HeldInv(f), LoaderInv(f)
    PROVE  Answers = f[Len(tokenChain)]
<1>1. tokenChain \in Seq(Item) /\ Answers \in Held /\ Follows(f, tokenChain)
  BY AnswersType DEF LoopOK, HeldInv
<1>2. PICK m \in 0..Len(tokenChain) : Rest(tokenChain, m, <<>>) /\ Loaded(f, m)
  BY DEF LoaderInv, LoadingPhases
<1>3. m = Len(tokenChain)
  BY <1>1, <1>2, RestNone
<1>4. \A n \in TokenName : HeldBy(f, tokenChain, Len(tokenChain), Answers, n)
  BY <1>2, <1>3 DEF Loaded
<1> QED BY <1>1, <1>4, LoadedAll

LEMMA FinishHeld ==
    ASSUME LedgerOK, LoopOK, RestartInv, FinishLoop
    PROVE  RestartInv'
<1>1. /\ tokenPhase \in LoadingPhases /\ todo = <<>> /\ tokenChain' = tokenChain
      /\ tokenBalances' = tokenBalances /\ deployedTokens' = deployedTokens
      /\ tokenPhase' = NextPhase[tokenPhase] /\ tokenChain \in Seq(Item)
  BY DEF FinishLoop, LoopOK, ledger
<1>2. Answers' = Answers
  BY <1>1, SameBalances
<1>3. Orderly' <=> Orderly
  BY <1>1 DEF Orderly
<1>4. PICK f : HeldInv(f) /\ LoaderInv(f)
  BY DEF RestartInv
<1>5. CASE tokenPhase = "transfers"
  <2>1. tokenPhase' = "idle" /\ tokenTrouble' = {} /\ savedTokens' = <<>> /\ todo' = <<>>
    BY <1>1, <1>5 DEF FinishLoop, NextPhase
  <2>2. Orderly => Answers = f[Len(tokenChain)]
    BY <1>1, <1>4, <1>5, LoaderIsDone
  <2>3. NumbersInv' /\ PhaseInv'
    BY <1>1, <2>1 DEF RestartInv, NumbersInv, PhaseInv, LoadingPhases
  <2>4. HeldInv(f)' /\ LoaderInv(f)'
    BY <1>1, <1>2, <1>3, <1>4, <2>1, <2>2 DEF HeldInv, LoaderInv, LoadingPhases
  <2> QED BY <2>3, <2>4 DEF RestartInv
<1>6. CASE tokenPhase \in {"deployments", "restore"}
  <2>1. /\ savedTokens' = savedTokens /\ tokenTrouble' = tokenTrouble /\ todo' = tokenChain
        /\ tokenPhase = "deployments" => tokenPhase' = "restore"
        /\ tokenPhase = "restore" => tokenPhase' = "transfers"
    BY <1>1, <1>6 DEF FinishLoop, NextPhase
  <2>2. tokenPhase' \in {"restore", "transfers"}
    BY <1>6, <2>1
  <2>3. NumbersInv' /\ PhaseInv'
    BY <1>1, <2>1, <2>2 DEF RestartInv, NumbersInv, PhaseInv, LoadingPhases
  <2>4. HeldInv(f)'
    BY <1>1, <1>3, <1>4, <2>1, <2>2 DEF HeldInv
  <2>5. PICK m \in 0..Len(tokenChain) : Rest(tokenChain, m, <<>>) /\ (Orderly => Loaded(f, m))
    BY <1>1, <1>4 DEF LoaderInv
  <2>6. m = Len(tokenChain)
    BY <1>1, <2>5, RestNone
  <2>7. Orderly => /\ DeployedFrom(tokenChain, Len(tokenChain), deployedTokens)
                   /\ \A n \in TokenName : SupplyFrom(tokenChain, Len(tokenChain), Answers, n)
    BY <1>6, <2>5, <2>6 DEF Loaded
  <2>8. \A n \in TokenName : SupplyFrom(tokenChain, Len(tokenChain), Answers, n)
                                 => HeldBy(f, tokenChain, 0, Answers, n)
    BY DEF HeldBy
  <2>9. Orderly => Loaded(f, 0)'
    BY <1>1, <1>2, <2>2, <2>7, <2>8 DEF Loaded
  <2>10. 0 \in 0..Len(tokenChain') /\ Rest(tokenChain', 0, todo')
    BY <1>1, <2>1, RestAll
  <2>11. LoaderInv(f)'
    BY <1>3, <2>9, <2>10 DEF LoaderInv
  <2> QED BY <2>3, <2>4, <2>11 DEF RestartInv
<1> QED BY <1>1, <1>5, <1>6 DEF LoadingPhases

LEMMA StepKeepsHeld ==
    ASSUME LedgerOK, LedgerOK', LoopOK, RestartInv, [TokensNext]_tokenVars
    PROVE  RestartInv'
<1>1. CASE UNCHANGED tokenVars
  <2>1. PICK f : HeldInv(f) /\ LoaderInv(f)
    BY DEF RestartInv
  <2>2. Answers' = Answers /\ (Orderly' <=> Orderly)
    BY <1>1, SameBalances DEF tokenVars, ledger, Orderly
  <2>3. HeldInv(f)' /\ NumbersInv' /\ PhaseInv'
    BY <1>1, <2>1, <2>2 DEF tokenVars, HeldInv, RestartInv, NumbersInv, PhaseInv
  <2>4. LoaderInv(f)'
    BY <1>1, <2>1, <2>2 DEF tokenVars, ledger, LoaderInv, Loaded
  <2> QED BY <2>3, <2>4 DEF RestartInv
<1>2. CASE \E txs \in TokenBlocks : ExtendTokens(txs)
  BY <1>2, ExtendHeld
<1>3. CASE \E n \in 0..Len(tokenChain), branch \in Branches : ReorganizeTokens(n, branch)
  BY <1>3, ReorganizeHeld
<1>4. CASE ProcessDeployment \/ ProcessTransfer \/ SkipTx
  <2>1. tokenPhase \in Phases /\ todo # <<>>
    BY <1>4 DEF LoopOK, ProcessDeployment, ProcessTransfer, SkipTx, Processing
  <2>2. tokenPhase # "idle"
    BY <2>1 DEF RestartInv, PhaseInv
  <2> QED BY <1>4, <2>1, <2>2, AddedHeld, LoadHeld DEF Phases, LoadingPhases, ProcessTransfer, Processing
<1>5. CASE RefuseTokenBlock
  BY <1>5, RefuseHeld
<1>6. CASE FinishBlocks
  BY <1>6, SameBalances, IdleHeld DEF FinishBlocks, ledger
<1>7. CASE FinishLoop
  BY <1>7, FinishHeld
<1>8. CASE \E t \in TokenTx : CheckTokenName(t)
  BY <1>8, SameBalances, IdleHeld DEF CheckTokenName, ledger
<1>9. CASE \E t \in TokenTx, form \in {"hex", "text"} : handleDeployToken(t, form)
  BY <1>9, DeployHeld
<1>10. CASE RestartTokens
  BY <1>10, RestartHeld
<1>11. CASE RestoreDeployment \/ ReplayTransfer
  BY <1>11, LoadHeld DEF RestoreDeployment, ReplayTransfer, Processing, LoadingPhases
<1> QED BY <1>1, <1>2, <1>3, <1>4, <1>5, <1>6, <1>7, <1>8, <1>9, <1>10, <1>11 DEF TokensNext

\* The invariant behind RestartKeepsBalances: while nothing was refused or taken back, every
\* answer is what the blocks of the chain gave, and in each pass of loadChainFromStorage
\* (blockchain.go:2542) every name is as far as the pass has come.
THEOREM RestartInvHolds == TokensSpec => []RestartInv
<1>1. TokensInit => RestartInv
  <2> SUFFICES ASSUME TokensInit
               PROVE  RestartInv
    OBVIOUS
  <2>1. /\ tokenChain = <<>> /\ tokenPhase = "idle" /\ savedTokens = <<>> /\ Len(tokenChain) = 0
        /\ tokenBalances = NoBalances /\ todo = <<>>
    BY DEF TokensInit
  <2>2. NumbersInv /\ PhaseInv
    BY <2>1 DEF NumbersInv, PhaseInv, Sorted
  <2>3. PICK f : Follows(f, tokenChain)
    BY <2>1, FollowsNothing
  <2>4. Answers = NothingHeld
    BY <2>1, HexIsOne DEF Answers, GetTokenBalance, NoBalances, NothingHeld
  <2>5. HeldInv(f) /\ LoaderInv(f)
    BY <2>1, <2>3, <2>4 DEF HeldInv, LoaderInv, LoadingPhases, Follows
  <2> QED BY <2>2, <2>5 DEF RestartInv
<1>2. TokensInv /\ TokensInv' /\ RestartInv /\ [TokensNext]_tokenVars => RestartInv'
  <2> SUFFICES ASSUME TokensInv, TokensInv', RestartInv, [TokensNext]_tokenVars
               PROVE  RestartInv'
    OBVIOUS
  <2>1. LedgerOK /\ LoopOK
    BY TypeIsParts
  <2>2. LedgerOK'
    BY DEF TokensInv, TokensTypeOK, LedgerOK
  <2> QED BY <2>1, <2>2, StepKeepsHeld
<1> QED BY <1>1, <1>2, TokensInvHolds, PTL DEF TokensSpec

\* A restart gives back every answer of getTokenBalance, although the loader takes all
\* deployments before all transfers (loadChainFromStorage, blockchain.go:2682), when the
\* chain is orderly and nothing was refused or taken back.
THEOREM RestartKeepsBalancesHolds == TokensSpec => RestartKeepsBalances
<1>1. TokensInv /\ RestartInv /\ [TokensNext]_tokenVars =>
          [tokenPhase = "transfers" /\ tokenPhase' = "idle" /\ savedTokens # <<>>
           => Answers' = savedTokens]_tokenVars
  <2> SUFFICES ASSUME TokensInv, RestartInv, TokensNext,
                      tokenPhase = "transfers", tokenPhase' = "idle", savedTokens # <<>>
               PROVE  Answers' = savedTokens
    OBVIOUS
  <2>1. LedgerOK /\ LoopOK
    BY TypeIsParts
  <2>2. FinishLoop
    BY DEF TokensNext, ExtendTokens, ReorganizeTokens, ProcessDeployment, ProcessTransfer, SkipTx,
           Proceed, RefuseTokenBlock, FinishBlocks, CheckTokenName, handleDeployToken,
           RestartTokens, RestoreDeployment, ReplayTransfer
  <2>3. Answers' = Answers /\ todo = <<>>
    BY <2>2, SameBalances DEF FinishLoop, ledger
  <2>4. PICK f : HeldInv(f) /\ LoaderInv(f)
    BY DEF RestartInv
  <2>5. Orderly /\ savedTokens = f[Len(tokenChain)]
    BY <2>4 DEF HeldInv
  <2>6. Answers = f[Len(tokenChain)]
    BY <2>1, <2>3, <2>4, <2>5, LoaderIsDone
  <2> QED BY <2>3, <2>5, <2>6
<1> QED BY <1>1, TokensInvHolds, RestartInvHolds, PTL DEF TokensSpec, RestartKeepsBalances

-----------------------------------------------------------------------------
(* The registry. *)

Sound(list, pairs) == \A ip \in Active(list) : <<ip, list[ip].wallet>> \in pairs

GoodCall(call, pairs) ==
    /\ call \in SeedCallType
    /\ call.step # "read" => call.list \in Lists /\ Sound(call.list, pairs)

CallsOK ==
    /\ DOMAIN seedCalls \subseteq SeedCaller
    /\ \A c \in DOMAIN seedCalls : GoodCall(seedCalls[c], approved)

FileOK ==
    /\ fileState \in {"list", "missing", "torn", "spoiled"}
    /\ registry \in Lists /\ Sound(registry, approved)

InfoOK ==
    \A h \in DOMAIN seedNodeInfo :
        /\ seedNodeInfo[h].ip \in SeedIP /\ seedNodeInfo[h].wallet \in Wallet
        /\ h = HostOf[seedNodeInfo[h].ip]
        /\ <<seedNodeInfo[h].ip, seedNodeInfo[h].wallet>> \in approved

RestOK ==
    /\ callsLeft \in Nat
    /\ DOMAIN expected \subseteq SeedIP
    /\ approved \subseteq SeedIP \X Wallet
    /\ seedTrouble \subseteq {"overlap", "torn"}

SeedParts == CallsOK /\ FileOK /\ InfoOK /\ RestOK

LEMMA PartsAreInv == SeedParts <=> SeedTypeOK /\ SeedInv
<1>1. \A call \in SeedCallType : call.step # "read" => call.list \in Lists
  BY DEF SeedCallType, Writing
<1>2. CallsOK <=> /\ DOMAIN seedCalls \subseteq SeedCaller
                  /\ \A c \in DOMAIN seedCalls :
                        /\ seedCalls[c] \in SeedCallType
                        /\ seedCalls[c].step # "read" => ActiveWereApproved(seedCalls[c].list)
  BY <1>1 DEF CallsOK, GoodCall, Sound, ActiveWereApproved
<1>3. FileOK <=> /\ fileState \in {"list", "missing", "torn", "spoiled"}
                 /\ registry \in Lists /\ ActiveWereApproved(registry)
  BY DEF FileOK, Sound, ActiveWereApproved
<1> QED BY <1>2, <1>3 DEF SeedParts, InfoOK, RestOK, SeedTypeOK, SeedInv, HeldSeedsWereApproved

LEMMA EmptyListType ==
    /\ EmptyList \in Lists /\ DOMAIN EmptyList = {}
    /\ \A pairs : Sound(EmptyList, pairs)
<1>1. EmptyList \in [{} -> Entry] /\ {} \in SUBSET SeedIP
  BY DEF EmptyList
<1> QED BY <1>1 DEF Lists, EmptyList, Sound, Active

LEMMA ListFacts ==
    ASSUME NEW list \in Lists
    PROVE  /\ DOMAIN list \subseteq SeedIP
           /\ \A ip \in DOMAIN list : list[ip] \in Entry
  BY DEF Lists

LEMMA SetEntryType ==
    ASSUME NEW list \in Lists, NEW ip \in SeedIP, NEW entry \in Entry
    PROVE  /\ SetEntry(list, ip, entry) \in Lists
           /\ DOMAIN SetEntry(list, ip, entry) = DOMAIN list \cup {ip}
           /\ SetEntry(list, ip, entry)[ip] = entry
           /\ \A i \in DOMAIN list \ {ip} : SetEntry(list, ip, entry)[i] = list[i]
<1> DEFINE new == SetEntry(list, ip, entry)
<1>1. new \in [DOMAIN list \cup {ip} -> Entry]
  BY ListFacts DEF SetEntry
<1>2. DOMAIN list \cup {ip} \in SUBSET SeedIP
  BY ListFacts
<1>3. new \in Lists
  BY <1>1, <1>2 DEF Lists
<1> QED BY <1>3 DEF SetEntry

LEMMA SoundGrows ==
    ASSUME NEW list, NEW pairs, NEW more, pairs \subseteq more, Sound(list, pairs)
    PROVE  Sound(list, more)
  BY DEF Sound

\* A changed entry is sound when it is not active or its pair is approved.
LEMMA SetEntrySound ==
    ASSUME NEW list \in Lists, NEW ip \in SeedIP, NEW status \in Status, NEW wallet \in Wallet,
           NEW pairs, Sound(list, pairs), status = "active" => <<ip, wallet>> \in pairs
    PROVE  LET new == SetEntry(list, ip, [status |-> status, wallet |-> wallet])
           IN  new \in Lists /\ Sound(new, pairs)
<1> DEFINE entry == [status |-> status, wallet |-> wallet]
           new == SetEntry(list, ip, entry)
<1>1. entry \in Entry /\ entry.status = status /\ entry.wallet = wallet
  BY DEF Entry
<1> HIDE DEF entry
<1>2. /\ new \in Lists /\ DOMAIN new = DOMAIN list \cup {ip} /\ new[ip] = entry
      /\ \A i \in DOMAIN list \ {ip} : new[i] = list[i]
  BY <1>1, SetEntryType
<1> HIDE DEF new
<1>3. Sound(new, pairs)
  BY <1>1, <1>2 DEF Sound, Active
<1> QED BY <1>2, <1>3 DEF new, entry

-----------------------------------------------------------------------------
(* What a step does with the requests under way. *)

LEMMA CallsGrow ==
    ASSUME CallsOK, approved \subseteq approved'
    PROVE  \A c \in DOMAIN seedCalls : GoodCall(seedCalls[c], approved')
  BY SoundGrows DEF CallsOK, GoodCall

LEMMA BeginKeepsCalls ==
    ASSUME SeedParts, NEW c \in SeedCaller, NEW call, CanBegin(c), BeginCall(c, call),
           approved \subseteq approved', GoodCall(call, approved'),
           approved' \subseteq SeedIP \X Wallet
    PROVE  SeedParts'
<1>1. /\ DOMAIN seedCalls' = DOMAIN seedCalls \cup {c}
      /\ seedCalls'[c] = call
      /\ \A d \in DOMAIN seedCalls \ {c} : seedCalls'[d] = seedCalls[d]
  BY DEF BeginCall
<1>2. CallsOK'
  BY <1>1, CallsGrow DEF SeedParts, CallsOK
<1>3. FileOK'
  BY SoundGrows DEF SeedParts, FileOK, BeginCall, file
<1>4. InfoOK'
  BY DEF SeedParts, InfoOK, BeginCall
<1>5. RestOK'
  BY DEF SeedParts, RestOK, BeginCall, CanBegin
<1> QED BY <1>2, <1>3, <1>4, <1>5 DEF SeedParts

LEMMA GoOnKeepsCalls ==
    ASSUME CallsOK, UNCHANGED approved, NEW c \in DOMAIN seedCalls, NEW call,
           GoOn(c, call), GoodCall(call, approved)
    PROVE  CallsOK'
<1>1. /\ DOMAIN seedCalls' = DOMAIN seedCalls
      /\ seedCalls'[c] = call
      /\ \A d \in DOMAIN seedCalls \ {c} : seedCalls'[d] = seedCalls[d]
  BY DEF GoOn
<1> QED BY <1>1 DEF CallsOK

LEMMA ReturnKeepsCalls ==
    ASSUME CallsOK, UNCHANGED approved, NEW c, Return(c)
    PROVE  CallsOK'
  BY DEF Return, CallsOK

\* The record types of the requests that the actions put.
LEMMA WritingCall ==
    ASSUME NEW kind \in {"register", "update"}, NEW list \in Lists, NEW ip \in SeedIP,
           NEW wallet \in Wallet, NEW pairs, Sound(list, pairs)
    PROVE  GoodCall(Call(kind, list, ip, wallet), pairs)
<1> DEFINE call == [kind |-> kind, step |-> "truncate", list |-> list, ip |-> ip, wallet |-> wallet]
<1>1. call \in [kind : {"register", "update"}, step : Writing, list : Lists, ip : SeedIP,
                wallet : Wallet]
  BY DEF Writing
<1>2. call.list = list
  OBVIOUS
<1> HIDE DEF call
<1>3. GoodCall(call, pairs)
  BY <1>1, <1>2 DEF GoodCall, SeedCallType
<1> QED BY <1>3 DEF call, Call

LEMMA RegisterKeeps ==
    ASSUME SeedParts, NEW c \in SeedCaller, NEW ip \in SeedIP, NEW wallet \in Wallet,
           BeginRegister(c, ip, wallet)
    PROVE  SeedParts'
<1> DEFINE new == SetEntry(registry, ip, [status |-> "pending", wallet |-> wallet])
<1>1. new \in Lists /\ Sound(new, approved)
  BY SetEntrySound DEF SeedParts, FileOK, Status
<1>2. /\ CanBegin(c) /\ BeginCall(c, Call("register", new, ip, wallet)) /\ UNCHANGED approved
  BY DEF BeginRegister, Parsed, RegisteredStatus
<1> HIDE DEF new
<1>3. GoodCall(Call("register", new, ip, wallet), approved')
  BY <1>1, <1>2, WritingCall
<1> QED BY <1>2, <1>3, BeginKeepsCalls DEF SeedParts, RestOK

LEMMA UpdateKeeps ==
    ASSUME SeedParts, NEW c \in SeedCaller, NEW ip \in SeedIP, NEW status \in Status,
           NEW wallets \in {{}} \cup {{w} : w \in Wallet}, BeginUpdate(c, ip, status, wallets)
    PROVE  SeedParts'
<1>1. PICK wallet \in IF wallets = {} THEN {registry[ip].wallet} ELSE wallets :
          /\ BeginCall(c, Call("update",
                               SetEntry(registry, ip, [status |-> status, wallet |-> wallet]),
                               ip, wallet))
          /\ approved' = IF status = "active" THEN approved \cup {<<ip, wallet>>} ELSE approved
  BY DEF BeginUpdate
<1>2. wallet \in Wallet
  BY <1>1, ListFacts DEF BeginUpdate, SeedParts, FileOK, Entry
<1>3. CanBegin(c)
  BY DEF BeginUpdate
<1>4. /\ approved \subseteq approved' /\ approved' \subseteq SeedIP \X Wallet
      /\ status = "active" => <<ip, wallet>> \in approved'
  BY <1>1, <1>2 DEF SeedParts, RestOK
<1> DEFINE new == SetEntry(registry, ip, [status |-> status, wallet |-> wallet])
<1>5. new \in Lists /\ Sound(new, approved')
  BY <1>2, <1>4, SoundGrows, SetEntrySound DEF SeedParts, FileOK
<1>6. BeginCall(c, Call("update", new, ip, wallet))
  BY <1>1
<1> HIDE DEF new
<1>7. GoodCall(Call("update", new, ip, wallet), approved')
  BY <1>2, <1>5, WritingCall
<1> QED BY <1>3, <1>4, <1>6, <1>7, BeginKeepsCalls

LEMMA WriteBackKeeps ==
    ASSUME SeedParts, NEW c \in SeedCaller, BeginWriteBack(c)
    PROVE  SeedParts'
<1> DEFINE call == [kind |-> "write", step |-> "truncate", list |-> registry]
<1>1. call \in [kind : {"write"}, step : Writing, list : Lists]
  BY DEF SeedParts, FileOK, Writing
<1>2. call.list = registry
  OBVIOUS
<1>3. CanBegin(c) /\ BeginCall(c, call) /\ UNCHANGED approved
  BY DEF BeginWriteBack, Parsed
<1> HIDE DEF call
<1>4. GoodCall(call, approved')
  BY <1>1, <1>2, <1>3 DEF GoodCall, SeedCallType, SeedParts, FileOK
<1> QED BY <1>3, <1>4, BeginKeepsCalls DEF SeedParts, RestOK

LEMMA ReadingCall ==
    ASSUME NEW kind \in {"update", "reload"}, NEW pairs
    PROVE  GoodCall([kind |-> kind, step |-> "read"], pairs)
<1> DEFINE call == [kind |-> kind, step |-> "read"]
<1>1. call \in [kind : {"update", "reload"}, step : {"read"}] /\ call.step = "read"
  OBVIOUS
<1> HIDE DEF call
<1>2. GoodCall(call, pairs)
  BY <1>1 DEF GoodCall, SeedCallType
<1> QED BY <1>2 DEF call

LEMMA ReloadKeeps ==
    ASSUME SeedParts, NEW c \in SeedCaller, BeginReload(c)
    PROVE  SeedParts'
  BY ReadingCall, BeginKeepsCalls DEF BeginReload, SeedParts, RestOK

\* A request in the middle of its work.
LEMMA CallFacts ==
    ASSUME CallsOK, NEW c \in SeedCaller, NEW step, SeedAt(c, step)
    PROVE  /\ c \in DOMAIN seedCalls /\ seedCalls[c] \in SeedCallType /\ seedCalls[c].step = step
           /\ step # "read" => seedCalls[c].list \in Lists /\ Sound(seedCalls[c].list, approved)
           /\ step \in {"read", "set"} => seedCalls[c].kind \in {"update", "reload"}
           /\ step \in Writing => seedCalls[c].kind \in {"write", "register", "update"}
           /\ step \in Writing /\ seedCalls[c].kind # "write" => seedCalls[c].ip \in SeedIP
  BY DEF CallsOK, GoodCall, SeedAt, Busy, SeedCallType, Writing

LEMMA TruncatedCall ==
    ASSUME NEW call \in SeedCallType, NEW pairs, call.step = "truncate", GoodCall(call, pairs)
    PROVE  GoodCall([call EXCEPT !.step = "write"], pairs)
<1> DEFINE new == [call EXCEPT !.step = "write"]
<1>1. CASE call \in [kind : {"write"}, step : Writing, list : Lists]
  <2>1. new \in [kind : {"write"}, step : Writing, list : Lists] /\ new.list = call.list
    BY <1>1 DEF Writing
  <2> HIDE DEF new
  <2>2. GoodCall(new, pairs)
    BY <2>1 DEF GoodCall, SeedCallType
  <2> QED BY <2>2 DEF new
<1>2. CASE call \in [kind : {"register", "update"}, step : Writing, list : Lists, ip : SeedIP,
                     wallet : Wallet]
  <2>1. /\ new \in [kind : {"register", "update"}, step : Writing, list : Lists, ip : SeedIP,
                    wallet : Wallet]
        /\ new.list = call.list
    BY <1>2 DEF Writing
  <2> HIDE DEF new
  <2>2. GoodCall(new, pairs)
    BY <2>1 DEF GoodCall, SeedCallType
  <2> QED BY <2>2 DEF new
<1> QED BY <1>1, <1>2 DEF SeedCallType

LEMMA TruncateKeeps ==
    ASSUME SeedParts, NEW c \in SeedCaller, Truncate(c)
    PROVE  SeedParts'
<1>1. GoodCall([seedCalls[c] EXCEPT !.step = "write"], approved)
  BY CallFacts, TruncatedCall DEF Truncate, SeedParts, CallsOK
<1>2. CallsOK'
  BY <1>1, CallFacts, GoOnKeepsCalls DEF Truncate, SeedParts
<1>3. FileOK'
  BY EmptyListType DEF Truncate, FileOK
<1> QED BY <1>2, <1>3 DEF Truncate, SeedParts, InfoOK, RestOK

LEMMA WriteKeeps ==
    ASSUME SeedParts, NEW c \in SeedCaller, WriteList(c)
    PROVE  SeedParts'
<1>1. /\ c \in DOMAIN seedCalls
      /\ seedCalls[c].list \in Lists /\ Sound(seedCalls[c].list, approved)
      /\ seedCalls[c].kind # "write" => seedCalls[c].ip \in SeedIP
  BY CallFacts DEF WriteList, SeedParts, Writing
<1>2. FileOK'
  <2>1. /\ fileState' \in {"list", "spoiled"} /\ approved' = approved
        /\ registry' = IF fileState' = "list" THEN seedCalls[c].list ELSE EmptyList
    BY DEF WriteList, Written
  <2> QED BY <1>1, <2>1, EmptyListType DEF FileOK, Sound
<1>3. CallsOK'
  <2>1. CASE Reloads(seedCalls[c])
    BY <1>1, <2>1, ReadingCall, GoOnKeepsCalls DEF WriteList, SeedParts
  <2>2. CASE ~Reloads(seedCalls[c])
    BY <2>2, ReturnKeepsCalls DEF WriteList, SeedParts
  <2> QED BY <2>1, <2>2
<1>4. RestOK'
  <2>1. DOMAIN expected' \subseteq SeedIP
    BY <1>1 DEF WriteList, Confirm, SeedParts, RestOK
  <2> QED BY <2>1 DEF WriteList, SeedParts, RestOK
<1>5. InfoOK'
  BY DEF WriteList, SeedParts, InfoOK
<1> QED BY <1>2, <1>3, <1>4, <1>5 DEF SeedParts

LEMMA WriteFailsKeeps ==
    ASSUME SeedParts, NEW c \in SeedCaller, WriteListFails(c)
    PROVE  SeedParts'
<1>1. CallsOK'
  BY ReturnKeepsCalls DEF WriteListFails, SeedParts
<1>2. FileOK'
  BY EmptyListType DEF WriteListFails, file, SeedParts, FileOK, Sound
<1> QED BY <1>1, <1>2 DEF WriteListFails, SeedParts, InfoOK, RestOK

LEMMA ReadKeeps ==
    ASSUME SeedParts, NEW c \in SeedCaller, ReadForLoad(c)
    PROVE  SeedParts'
<1> DEFINE call == [kind |-> seedCalls[c].kind, step |-> "set", list |-> registry]
<1>1. c \in DOMAIN seedCalls /\ seedCalls[c].kind \in {"update", "reload"}
  BY CallFacts DEF ReadForLoad, SeedParts
<1>2. /\ call \in [kind : {"update", "reload"}, step : {"set"}, list : Lists]
      /\ call.list = registry
  BY <1>1 DEF SeedParts, FileOK
<1>3. (GoOn(c, call) \/ Return(c)) /\ UNCHANGED <<file, seedNodeInfo, callsLeft, expected,
                                                  approved, seedTrouble>>
  BY DEF ReadForLoad
<1> HIDE DEF call
<1>4. GoodCall(call, approved)
  BY <1>2 DEF GoodCall, SeedCallType, SeedParts, FileOK
<1>5. CallsOK'
  BY <1>1, <1>3, <1>4, GoOnKeepsCalls, ReturnKeepsCalls DEF SeedParts
<1> QED BY <1>3, <1>5 DEF file, SeedParts, FileOK, Sound, InfoOK, RestOK

\* Whatever is loaded from a sound list is approved.
LEMMA InfosAreApproved ==
    ASSUME NEW list \in Lists, Sound(list, approved), NEW info \in Infos(list)
    PROVE  \A h \in DOMAIN info :
              /\ info[h].ip \in SeedIP /\ info[h].wallet \in Wallet
              /\ h = HostOf[info[h].ip]
              /\ <<info[h].ip, info[h].wallet>> \in approved
<1> DEFINE hosts == {HostOf[ip] : ip \in Active(list)}
<1>1. PICK pick \in {f \in [hosts -> Active(list)] : \A h \in hosts : HostOf[f[h]] = h} :
          info = [h \in hosts |-> [ip |-> pick[h], wallet |-> list[pick[h]].wallet]]
  BY DEF Infos
<1>2. \A h \in hosts : pick[h] \in Active(list) /\ HostOf[pick[h]] = h
  BY <1>1
<1>3. \A ip \in Active(list) : ip \in SeedIP /\ list[ip].wallet \in Wallet
  BY ListFacts DEF Active, Entry
<1> HIDE DEF hosts
<1> QED BY <1>1, <1>2, <1>3 DEF Sound

LEMMA SetKeeps ==
    ASSUME SeedParts, NEW c \in SeedCaller, SetInfo(c)
    PROVE  SeedParts'
<1>1. seedCalls[c].list \in Lists /\ Sound(seedCalls[c].list, approved)
  BY CallFacts DEF SetInfo, SeedParts
<1>2. InfoOK'
  BY <1>1, InfosAreApproved DEF SetInfo, InfoOK
<1>3. CallsOK'
  BY ReturnKeepsCalls DEF SetInfo, SeedParts
<1> QED BY <1>2, <1>3 DEF SetInfo, file, SeedParts, FileOK, Sound, RestOK

LEMMA RestartKeeps ==
    ASSUME SeedParts, RestartSeeds
    PROVE  SeedParts'
<1>1. InfoOK'
  <2>1. CASE Readable
    BY <2>1, InfosAreApproved DEF RestartSeeds, InfoOK, SeedParts, FileOK
  <2>2. CASE ~Readable
    BY <2>2, EmptyListType DEF RestartSeeds, InfoOK
  <2> QED BY <2>1, <2>2
<1>2. CallsOK'
  BY EmptyListType DEF RestartSeeds, CallsOK
<1>3. RestOK'
  BY DEF RestartSeeds, SeedParts, RestOK
<1>4. FileOK'
  BY DEF RestartSeeds, file, SeedParts, FileOK, Sound
<1> QED BY <1>1, <1>2, <1>3, <1>4 DEF SeedParts

-----------------------------------------------------------------------------
LEMMA PartsStep ==
    ASSUME SeedParts, [SeedNext]_seedVars
    PROVE  SeedParts'
<1>1. CASE UNCHANGED seedVars
  BY <1>1 DEF seedVars, file, SeedParts, CallsOK, GoodCall, FileOK, Sound, InfoOK, RestOK
<1>2. CASE \E c \in SeedCaller, ip \in SeedIP, wallet \in Wallet : BeginRegister(c, ip, wallet)
  BY <1>2, RegisterKeeps
<1>3. CASE \E c \in SeedCaller, ip \in SeedIP, status \in Status,
             wallets \in {{}} \cup {{w} : w \in Wallet} : BeginUpdate(c, ip, status, wallets)
  BY <1>3, UpdateKeeps
<1>4. CASE \E c \in SeedCaller : BeginWriteBack(c) \/ BeginReload(c)
  BY <1>4, WriteBackKeeps, ReloadKeeps
<1>5. CASE \E c \in SeedCaller : Truncate(c) \/ WriteList(c) \/ WriteListFails(c)
  BY <1>5, TruncateKeeps, WriteKeeps, WriteFailsKeeps
<1>6. CASE \E c \in SeedCaller : ReadForLoad(c) \/ SetInfo(c)
  BY <1>6, ReadKeeps, SetKeeps
<1>7. CASE RestartSeeds
  BY <1>7, RestartKeeps
<1> QED BY <1>1, <1>2, <1>3, <1>4, <1>5, <1>6, <1>7 DEF SeedNext

\* The inductive invariant of the registry: the file, the lists that requests work on and
\* what the node holds only have active entries that were approved.
THEOREM SeedInvHolds == SeedSpec => [](SeedTypeOK /\ SeedInv)
<1>1. SeedInit => SeedParts
  BY EmptyListType, SeedAssumption
     DEF SeedInit, SeedParts, CallsOK, FileOK, InfoOK, RestOK
<1>2. SeedParts /\ [SeedNext]_seedVars => SeedParts'
  BY PartsStep
<1> QED BY <1>1, <1>2, PartsAreInv, PTL DEF SeedSpec

\* A seed that the node holds was approved with its wallet, whatever requests, failed
\* writes and restarts came in between (rpc/server_v2.go:2480).
THEOREM HeldSeedsWereApprovedHolds == SeedSpec => []HeldSeedsWereApproved
<1>1. SeedTypeOK /\ SeedInv => HeldSeedsWereApproved
  BY DEF SeedInv
<1> QED BY <1>1, SeedInvHolds, PTL

-----------------------------------------------------------------------------
(* Requests that do not overlap, without torn writes.                      *)

Confirmed(list, wallets) ==
    \A ip \in DOMAIN wallets : ip \in DOMAIN list /\ list[ip].wallet = wallets[ip]

NoneRejected(info, list) ==
    \A h \in DOMAIN info :
        info[h].ip \in DOMAIN list => list[info[h].ip].status # "rejected"

\* What a request will write has the wallets that were confirmed and the one that it will
\* confirm itself.
WillConfirm(call, wallets) ==
    /\ \A ip \in DOMAIN wallets :
          \/ call.kind # "write" /\ ip = call.ip
          \/ ip \in DOMAIN call.list /\ call.list[ip].wallet = wallets[ip]
    /\ call.kind # "write" => call.ip \in DOMAIN call.list /\ call.list[call.ip].wallet = call.wallet

\* The state while one request is under way.  An update may have a seed rejected that is
\* in memory until it has reloaded.
AloneIn(call, state, list, info, wallets) ==
    /\ call.step \in Writing => WillConfirm(call, wallets)
    /\ call.step \in Writing /\ call.kind # "update" => NoneRejected(info, call.list)
    /\ state # "spoiled" /\ (call.step = "write" <=> state = "torn")
    /\ call.step # "write" => Confirmed(list, wallets)
    /\ call.step # "write" /\ call.kind # "update" => NoneRejected(info, list)
    /\ call.step = "read" /\ call.kind = "update" => state = "list"
    /\ call.step = "set" => call.list = list

AloneOK(call) == AloneIn(call, fileState, registry, seedNodeInfo, expected)

AloneAfter(call) == AloneIn(call, fileState', registry', seedNodeInfo', expected')

IdleOK ==
    /\ fileState \notin {"torn", "spoiled"}
    /\ Confirmed(registry, expected) /\ NoneRejected(seedNodeInfo, registry)

Undisturbed ==
    seedTrouble = {} =>
        /\ \A c, d \in DOMAIN seedCalls : c = d
        /\ \A c \in DOMAIN seedCalls : AloneOK(seedCalls[c])
        /\ DOMAIN seedCalls = {} => IdleOK

\* A request begins alone or there is an overlap.
LEMMA BeginAlone ==
    ASSUME Undisturbed, NEW c, NEW call, BeginCall(c, call), IdleOK => AloneAfter(call)
    PROVE  Undisturbed'
<1> SUFFICES ASSUME seedTrouble' = {}
             PROVE  /\ \A d, e \in DOMAIN seedCalls' : d = e
                    /\ \A d \in DOMAIN seedCalls' : AloneAfter(seedCalls'[d])
                    /\ DOMAIN seedCalls' # {}
  BY DEF Undisturbed, AloneOK, AloneAfter
<1>1. seedCalls = EmptyList /\ seedTrouble = {}
  BY DEF BeginCall
<1>2. DOMAIN seedCalls = {}
  BY <1>1, EmptyListType
<1>3. DOMAIN seedCalls' = {c} /\ seedCalls'[c] = call
  BY <1>2 DEF BeginCall
<1>4. AloneAfter(call)
  BY <1>1, <1>2 DEF Undisturbed
<1> QED BY <1>3, <1>4

\* The request under way goes on or returns.
LEMMA GoOnAlone ==
    ASSUME Undisturbed, NEW c \in DOMAIN seedCalls, NEW call, GoOn(c, call),
           seedTrouble' = {} => seedTrouble = {},
           seedTrouble = {} /\ AloneOK(seedCalls[c]) => AloneAfter(call)
    PROVE  Undisturbed'
<1> SUFFICES ASSUME seedTrouble' = {}
             PROVE  /\ \A d, e \in DOMAIN seedCalls' : d = e
                    /\ \A d \in DOMAIN seedCalls' : AloneAfter(seedCalls'[d])
                    /\ DOMAIN seedCalls' # {}
  BY DEF Undisturbed, AloneOK, AloneAfter
<1>1. /\ DOMAIN seedCalls = {c} /\ AloneOK(seedCalls[c])
  BY DEF Undisturbed
<1>2. DOMAIN seedCalls' = {c} /\ seedCalls'[c] = call
  BY <1>1 DEF GoOn
<1>3. AloneAfter(call)
  BY <1>1
<1> QED BY <1>2, <1>3

LEMMA ReturnAlone ==
    ASSUME Undisturbed, NEW c \in DOMAIN seedCalls, Return(c),
           seedTrouble' = {} => seedTrouble = {},
           seedTrouble' = {} /\ AloneOK(seedCalls[c]) => IdleOK'
    PROVE  Undisturbed'
<1> SUFFICES ASSUME seedTrouble' = {}
             PROVE  DOMAIN seedCalls' = {} /\ IdleOK'
  BY DEF Undisturbed
<1>1. DOMAIN seedCalls = {c} /\ AloneOK(seedCalls[c])
  BY DEF Undisturbed
<1> QED BY <1>1 DEF Return

\* A list whose entry of one address is set anew.
LEMMA SetEntryAlone ==
    ASSUME IdleOK, NEW kind \in {"register", "update"}, registry \in Lists, NEW ip \in SeedIP,
           NEW status \in Status, NEW wallet \in Wallet,
           UNCHANGED <<file, seedNodeInfo, expected>>,
           kind = "register" => status # "rejected"
    PROVE  AloneAfter(Call(kind, SetEntry(registry, ip, [status |-> status, wallet |-> wallet]),
                           ip, wallet))
<1> DEFINE entry == [status |-> status, wallet |-> wallet]
           new == SetEntry(registry, ip, entry)
           call == Call(kind, new, ip, wallet)
<1>1. entry \in Entry /\ entry.status = status /\ entry.wallet = wallet
  BY DEF Entry
<1> HIDE DEF entry
<1>2. /\ DOMAIN new = DOMAIN registry \cup {ip} /\ new[ip] = entry
      /\ \A i \in DOMAIN registry \ {ip} : new[i] = registry[i]
  BY <1>1, SetEntryType
<1> HIDE DEF new
<1>3. /\ call.kind = kind /\ call.step = "truncate" /\ call.list = new
      /\ call.ip = ip /\ call.wallet = wallet
  BY DEF Call
<1> HIDE DEF call
<1>4. WillConfirm(call, expected)
  BY <1>1, <1>2, <1>3 DEF WillConfirm, IdleOK, Confirmed
<1>5. kind # "update" => NoneRejected(seedNodeInfo, new)
  BY <1>1, <1>2 DEF IdleOK, NoneRejected
<1>6. AloneAfter(call)
  BY <1>3, <1>4, <1>5 DEF AloneOK, AloneAfter, AloneIn, IdleOK, file, Writing, WillConfirm, NoneRejected, Confirmed
<1> QED BY <1>6 DEF call, new, entry

LEMMA RegisterAlone ==
    ASSUME SeedParts, Undisturbed, NEW c \in SeedCaller, NEW ip \in SeedIP,
           NEW wallet \in Wallet, BeginRegister(c, ip, wallet)
    PROVE  Undisturbed'
<1> DEFINE call == Call("register",
                        SetEntry(registry, ip, [status |-> "pending", wallet |-> wallet]),
                        ip, wallet)
<1>1. BeginCall(c, call)
  BY DEF BeginRegister, Parsed, RegisteredStatus
<1>2. IdleOK => AloneAfter(call)
  BY <1>1, SetEntryAlone DEF BeginCall, SeedParts, FileOK, Status
<1> HIDE DEF call
<1> QED BY <1>1, <1>2, BeginAlone

LEMMA UpdateAlone ==
    ASSUME SeedParts, Undisturbed, NEW c \in SeedCaller, NEW ip \in SeedIP,
           NEW status \in Status, NEW wallets \in {{}} \cup {{w} : w \in Wallet},
           BeginUpdate(c, ip, status, wallets)
    PROVE  Undisturbed'
<1>1. PICK wallet \in IF wallets = {} THEN {registry[ip].wallet} ELSE wallets :
          BeginCall(c, Call("update",
                            SetEntry(registry, ip, [status |-> status, wallet |-> wallet]),
                            ip, wallet))
  BY DEF BeginUpdate
<1>2. wallet \in Wallet
  BY <1>1, ListFacts DEF BeginUpdate, SeedParts, FileOK, Entry
<1> DEFINE call == Call("update",
                        SetEntry(registry, ip, [status |-> status, wallet |-> wallet]),
                        ip, wallet)
<1>3. BeginCall(c, call)
  BY <1>1
<1>4. IdleOK => AloneAfter(call)
  BY <1>2, <1>3, SetEntryAlone DEF BeginCall, SeedParts, FileOK
<1> HIDE DEF call
<1> QED BY <1>3, <1>4, BeginAlone

LEMMA WriteBackAlone ==
    ASSUME Undisturbed, NEW c \in SeedCaller, BeginWriteBack(c)
    PROVE  Undisturbed'
<1> DEFINE call == [kind |-> "write", step |-> "truncate", list |-> registry]
<1>1. BeginCall(c, call)
  BY DEF BeginWriteBack, Parsed
<1>2. call.kind = "write" /\ call.step = "truncate" /\ call.list = registry
  OBVIOUS
<1> HIDE DEF call
<1>3. IdleOK => AloneAfter(call)
  BY <1>1, <1>2 DEF BeginCall, file, IdleOK, AloneOK, AloneAfter, AloneIn, WillConfirm, Confirmed, NoneRejected, Writing
<1> QED BY <1>1, <1>3, BeginAlone

LEMMA ReloadAlone ==
    ASSUME Undisturbed, NEW c \in SeedCaller, BeginReload(c)
    PROVE  Undisturbed'
<1> DEFINE call == [kind |-> "reload", step |-> "read"]
<1>1. BeginCall(c, call) /\ call.kind = "reload" /\ call.step = "read"
  BY DEF BeginReload
<1> HIDE DEF call
<1>2. IdleOK => AloneAfter(call)
  BY <1>1 DEF BeginCall, file, IdleOK, AloneOK, AloneAfter, AloneIn, Confirmed, NoneRejected, Writing
<1> QED BY <1>1, <1>2, BeginAlone

LEMMA TruncatedFields ==
    ASSUME NEW call \in SeedCallType, call.step = "truncate"
    PROVE  LET new == [call EXCEPT !.step = "write"]
           IN  /\ new.step = "write" /\ new.kind = call.kind /\ new.list = call.list
               /\ call.kind # "write" => new.ip = call.ip /\ new.wallet = call.wallet
<1>1. CASE call \in [kind : {"write"}, step : Writing, list : Lists]
  BY <1>1
<1>2. CASE call \in [kind : {"register", "update"}, step : Writing, list : Lists, ip : SeedIP,
                     wallet : Wallet]
  BY <1>2
<1> QED BY <1>1, <1>2 DEF SeedCallType

LEMMA TruncateAlone ==
    ASSUME SeedParts, Undisturbed, NEW c \in SeedCaller, Truncate(c)
    PROVE  Undisturbed'
<1> DEFINE old == seedCalls[c]
           call == [old EXCEPT !.step = "write"]
<1>1. c \in DOMAIN seedCalls /\ old \in SeedCallType /\ old.step = "truncate"
  BY CallFacts DEF Truncate, SeedParts
<1>2. /\ call.step = "write" /\ call.kind = old.kind /\ call.list = old.list
      /\ old.kind # "write" => call.ip = old.ip /\ call.wallet = old.wallet
  BY <1>1, TruncatedFields
<1>3. GoOn(c, call) /\ fileState' = "torn" /\ UNCHANGED <<seedNodeInfo, expected, seedTrouble>>
  BY DEF Truncate
<1> HIDE DEF call
<1>4. ASSUME AloneOK(old)
      PROVE  AloneAfter(call)
  <2> HIDE DEF old
  <2>1. WillConfirm(call, expected) /\ (call.kind # "update" => NoneRejected(seedNodeInfo, call.list))
    BY <1>1, <1>2, <1>4 DEF AloneOK, AloneAfter, AloneIn, WillConfirm, Writing
  <2> QED BY <1>2, <1>3, <2>1 DEF AloneOK, AloneAfter, AloneIn, WillConfirm, NoneRejected
<1> QED BY <1>1, <1>3, <1>4, GoOnAlone

LEMMA WriteAlone ==
    ASSUME SeedParts, Undisturbed, NEW c \in SeedCaller, WriteList(c)
    PROVE  Undisturbed'
<1> DEFINE call == seedCalls[c]
           next == [kind |-> "update", step |-> "read"]
<1>1. /\ c \in DOMAIN seedCalls /\ call.step = "write"
      /\ call.kind \in {"write", "register", "update"}
  BY CallFacts DEF WriteList, SeedParts, Writing
<1>2. /\ AloneOK(call) => fileState' = "list" /\ registry' = call.list
      /\ Confirm(call) /\ UNCHANGED <<seedNodeInfo, seedTrouble>>
      /\ IF Reloads(call) THEN GoOn(c, next) ELSE Return(c)
  <2>1. AloneOK(call) => fileState = "torn"
    BY <1>1 DEF AloneOK, AloneIn
  <2> QED BY <2>1 DEF WriteList, Written
<1>3. next.kind = "update" /\ next.step = "read"
  OBVIOUS
<1> HIDE DEF next
<1>4. ASSUME AloneOK(call)
      PROVE  Confirmed(registry, expected)'
  <2>1. registry' = call.list /\ Confirm(call)
    BY <1>2, <1>4
  <2> HIDE DEF call
  <2>2. WillConfirm(call, expected)
    BY <1>1, <1>4 DEF AloneOK, AloneAfter, AloneIn, Writing
  <2>3. CASE call.kind = "write"
    BY <2>1, <2>2, <2>3 DEF WillConfirm, Confirm, Confirmed
  <2>4. CASE call.kind # "write"
    <3>1. /\ DOMAIN expected' = DOMAIN expected \cup {call.ip}
          /\ expected'[call.ip] = call.wallet
          /\ \A ip \in DOMAIN expected \ {call.ip} : expected'[ip] = expected[ip]
      BY <2>1, <2>4 DEF Confirm
    <3> QED BY <2>1, <2>2, <2>4, <3>1 DEF WillConfirm, Confirmed
  <2> QED BY <2>3, <2>4
<1>5. CASE Reloads(call)
  <2>1. AloneOK(call) => AloneAfter(next)
    BY <1>2, <1>3, <1>4 DEF AloneOK, AloneAfter, AloneIn, Writing
  <2> QED BY <1>1, <1>2, <1>5, <2>1, GoOnAlone
<1>6. CASE ~Reloads(call)
  <2>1. AloneOK(call) => NoneRejected(seedNodeInfo, registry)'
    BY <1>1, <1>2, <1>6 DEF AloneOK, AloneAfter, AloneIn, Writing, Reloads, NoneRejected
  <2>2. AloneOK(call) => IdleOK'
    BY <1>2, <1>4, <2>1 DEF IdleOK
  <2> QED BY <1>1, <1>2, <1>6, <2>2, ReturnAlone
<1> QED BY <1>5, <1>6

LEMMA WriteFailsAlone ==
    ASSUME NEW c \in SeedCaller, WriteListFails(c)
    PROVE  Undisturbed'
  BY DEF WriteListFails, Undisturbed

LEMMA ReadAlone ==
    ASSUME SeedParts, Undisturbed, NEW c \in SeedCaller, ReadForLoad(c)
    PROVE  Undisturbed'
<1> DEFINE old == seedCalls[c]
           call == [kind |-> old.kind, step |-> "set", list |-> registry]
<1>1. c \in DOMAIN seedCalls /\ old.step = "read" /\ old.kind \in {"update", "reload"}
  BY CallFacts DEF ReadForLoad, SeedParts
<1>2. /\ UNCHANGED <<file, seedNodeInfo, expected, seedTrouble>>
      /\ IF Readable THEN GoOn(c, call) ELSE Return(c)
  BY DEF ReadForLoad
<1>3. call.kind = old.kind /\ call.step = "set" /\ call.list = registry
  OBVIOUS
<1> HIDE DEF call
<1>4. CASE Readable
  <2>1. AloneOK(old) => AloneAfter(call)
    BY <1>1, <1>2, <1>3, <1>4 DEF AloneOK, AloneAfter, AloneIn, file, Writing, Confirmed, NoneRejected, Readable
  <2> QED BY <1>1, <1>2, <1>4, <2>1, GoOnAlone
<1>5. CASE ~Readable
  <2>1. AloneOK(old) => IdleOK'
    BY <1>1, <1>2, <1>5 DEF AloneOK, AloneAfter, AloneIn, IdleOK, file, Confirmed, NoneRejected, Readable
  <2> QED BY <1>1, <1>2, <1>5, <2>1, ReturnAlone
<1> QED BY <1>4, <1>5

\* Only active entries are loaded.
LEMMA InfosAreActive ==
    ASSUME NEW list \in Lists, NEW info \in Infos(list)
    PROVE  NoneRejected(info, list)
<1> DEFINE hosts == {HostOf[ip] : ip \in Active(list)}
<1>1. PICK pick \in {f \in [hosts -> Active(list)] : \A h \in hosts : HostOf[f[h]] = h} :
          info = [h \in hosts |-> [ip |-> pick[h], wallet |-> list[pick[h]].wallet]]
  BY DEF Infos
<1>2. \A h \in hosts : pick[h] \in Active(list)
  BY <1>1
<1>3. \A h \in DOMAIN info : h \in hosts /\ info[h].ip = pick[h]
  BY <1>1
<1> HIDE DEF hosts
<1> QED BY <1>2, <1>3 DEF NoneRejected, Active

LEMMA SetAlone ==
    ASSUME SeedParts, Undisturbed, NEW c \in SeedCaller, SetInfo(c)
    PROVE  Undisturbed'
<1>1. c \in DOMAIN seedCalls /\ seedCalls[c].list \in Lists /\ seedCalls[c].step = "set"
  BY CallFacts DEF SetInfo, SeedParts
<1>2. NoneRejected(seedNodeInfo', seedCalls[c].list)
  BY <1>1, InfosAreActive DEF SetInfo
<1>3. AloneOK(seedCalls[c]) => IdleOK'
  BY <1>1, <1>2 DEF SetInfo, AloneOK, AloneAfter, AloneIn, IdleOK, file, Confirmed, NoneRejected
<1> QED BY <1>1, <1>3, ReturnAlone DEF SetInfo

LEMMA RestartAlone ==
    ASSUME SeedParts, Undisturbed, RestartSeeds
    PROVE  Undisturbed'
<1>1. DOMAIN seedCalls' = {}
  BY EmptyListType DEF RestartSeeds
<1> SUFFICES ASSUME seedTrouble' = {}
             PROVE  IdleOK'
  BY <1>1 DEF Undisturbed
<1>2. seedTrouble = {} /\ fileState \notin {"torn", "spoiled"}
  BY DEF RestartSeeds
<1>3. Confirmed(registry, expected)
  BY <1>2 DEF Undisturbed, IdleOK, AloneOK, AloneAfter, AloneIn
<1>4. NoneRejected(seedNodeInfo', registry)
  <2>1. CASE Readable
    BY <2>1, InfosAreActive DEF RestartSeeds, SeedParts, FileOK
  <2>2. CASE ~Readable
    BY <2>2, EmptyListType DEF RestartSeeds, NoneRejected
  <2> QED BY <2>1, <2>2
<1> QED BY <1>2, <1>3, <1>4 DEF RestartSeeds, file, IdleOK, Confirmed, NoneRejected

\* While no requests overlap and no write is torn: one request is under way at most, what
\* it has read is what is in the file, and the file and memory have what was confirmed.
THEOREM UndisturbedHolds == SeedSpec => [](SeedParts /\ Undisturbed)
<1>1. SeedInit => SeedParts /\ Undisturbed
  <2> SUFFICES ASSUME SeedInit
               PROVE  SeedParts /\ Undisturbed
    OBVIOUS
  <2>1. SeedParts
    BY EmptyListType, SeedAssumption
       DEF SeedInit, SeedParts, CallsOK, FileOK, InfoOK, RestOK
  <2>2. Undisturbed
    BY EmptyListType DEF SeedInit, Undisturbed, IdleOK, Confirmed, NoneRejected
  <2> QED BY <2>1, <2>2
<1>2. SeedParts /\ Undisturbed /\ [SeedNext]_seedVars => (SeedParts /\ Undisturbed)'
  <2> SUFFICES ASSUME SeedParts, Undisturbed, [SeedNext]_seedVars
               PROVE  Undisturbed'
    BY PartsStep
  <2>1. CASE UNCHANGED seedVars
    BY <2>1 DEF seedVars, file, Undisturbed, IdleOK, AloneOK, AloneAfter, AloneIn, WillConfirm, Confirmed, NoneRejected
  <2>2. CASE \E c \in SeedCaller, ip \in SeedIP, wallet \in Wallet : BeginRegister(c, ip, wallet)
    BY <2>2, RegisterAlone
  <2>3. CASE \E c \in SeedCaller, ip \in SeedIP, status \in Status,
               wallets \in {{}} \cup {{w} : w \in Wallet} : BeginUpdate(c, ip, status, wallets)
    BY <2>3, UpdateAlone
  <2>4. CASE \E c \in SeedCaller : BeginWriteBack(c) \/ BeginReload(c)
    BY <2>4, WriteBackAlone, ReloadAlone
  <2>5. CASE \E c \in SeedCaller : Truncate(c) \/ WriteList(c) \/ WriteListFails(c)
    BY <2>5, TruncateAlone, WriteAlone, WriteFailsAlone
  <2>6. CASE \E c \in SeedCaller : ReadForLoad(c) \/ SetInfo(c)
    BY <2>6, ReadAlone, SetAlone
  <2>7. CASE RestartSeeds
    BY <2>7, RestartAlone
  <2> QED BY <2>1, <2>2, <2>3, <2>4, <2>5, <2>6, <2>7 DEF SeedNext
<1> QED BY <1>1, <1>2, PTL DEF SeedSpec

\* What was confirmed to a client is on the list, when requests did not overlap and no
\* write was torn (handleRegisterSeedNode, handleUpdateSeedNodeStatus).
THEOREM RegistrationsAreKeptHolds == SeedSpec => []RegistrationsAreKept
<1>1. SeedParts /\ Undisturbed => RegistrationsAreKept
  BY EmptyListType
     DEF Undisturbed, IdleOK, Confirmed, RegistrationsAreKept, GetSeedNodeRegistrations, Parsed
<1> QED BY <1>1, UndisturbedHolds, PTL

\* A rejected seed has been forgotten once no request is under way, when requests did not
\* overlap and no write was torn (rpc/server_v2.go:2806).
THEOREM RejectedIsForgottenHolds == SeedSpec => []RejectedIsForgotten
<1>1. SeedParts /\ Undisturbed => RejectedIsForgotten
  BY EmptyListType DEF Undisturbed, IdleOK, NoneRejected, RejectedIsForgotten
<1> QED BY <1>1, UndisturbedHolds, PTL

-----------------------------------------------------------------------------
(* Peers. *)

\* A step of a connection that changes its stage only.
LEMMA MoveKeepsInv ==
    ASSUME PeersInv, NEW c \in Conn, NEW s \in Stages, Goto(c, s),
           UNCHANGED <<peers, peerMutex, mu>>, stopped' \in BOOLEAN,
           discovering' \in SUBSET Seeds,
           open' \in SUBSET Conn, open \subseteq open',
           stage[c] # "locked", s # "locked", c \notin peers,
           s \in {"accepted", "adding"} => c \in open'
    PROVE  PeersInv'
<1>1. stage' \in [Conn -> Stages] /\ stage'[c] = s /\ \A d \in Conn \ {c} : stage'[d] = stage[d]
  BY DEF Goto, PeersInv, TypeOK
<1>2. TypeOK'
  BY <1>1 DEF PeersInv, TypeOK, At
<1>3. OneEntryPerIP' /\ ListedIsHandled' /\ AddingIsOpen'
  BY <1>1 DEF PeersInv, TypeOK, OneEntryPerIP, ListedIsHandled, AddingIsOpen
<1> QED BY <1>2, <1>3 DEF PeersInv

\* The table shrinks, and what leaves it may be closed.
LEMMA ShrinkKeepsInv ==
    ASSUME PeersInv, UNCHANGED <<stage, peerMutex, stopped, discovering>>,
           mu' \in {"free", "stop"}, NEW S \in SUBSET peers,
           peers' = peers \ S, open' = open \ S
    PROVE  PeersInv'
<1>1. TypeOK'
  BY DEF PeersInv, TypeOK, At
<1>2. OneEntryPerIP' /\ ListedIsHandled' /\ AddingIsOpen'
  BY DEF PeersInv, TypeOK, OneEntryPerIP, ListedIsHandled, AddingIsOpen
<1> QED BY <1>1, <1>2 DEF PeersInv

\* The connection that adds itself is alone with the table, and an entry of its
\* IP makes room for it.
LEMMA AddPeerKeepsInv ==
    ASSUME PeersInv, NEW c \in Conn, addPeer(c)
    PROVE  PeersInv'
<1>1. /\ stage' \in [Conn -> Stages] /\ stage'[c] = "reading" /\ stage[c] = "locked"
      /\ \A d \in Conn \ {c} : stage'[d] = stage[d]
      /\ peerMutex = c /\ peerMutex' = "free"
  BY DEF addPeer, Goto, At, PeersInv, TypeOK, Stages
<1>2. c \in open /\ open' = open
  BY <1>1 DEF addPeer, PeersInv, AddingIsOpen
<1>3. \/ peers' = peers
      \/ /\ IP[c] \notin OwnIPs
         /\ c \in peers' /\ peers' \subseteq peers \cup {c}
         /\ \A d \in peers' \ {c} : IP[d] # IP[c]
  <2>1. CASE IP[c] \in OwnIPs
    BY <2>1 DEF addPeer
  <2>2. CASE IP[c] \notin OwnIPs /\ SameIP(c) = {}
    BY <2>2 DEF addPeer, SameIP, Insert
  <2>3. CASE IP[c] \notin OwnIPs /\ SameIP(c) # {}
    <3>1. PICK d \in SameIP(c) : peers' = Insert(peers \ {d}, c)
      BY <2>3 DEF addPeer
    <3>2. \A e \in peers \ {d} : IP[e] # IP[c]
      BY <3>1 DEF SameIP, PeersInv, OneEntryPerIP
    <3> QED BY <2>3, <3>1, <3>2 DEF Insert
  <2> QED BY <2>1, <2>2, <2>3
<1>4. TypeOK'
  <2>1. peers' \subseteq Conn
    BY <1>3 DEF PeersInv, TypeOK
  <2>2. \A d \in Conn : At(d, "locked")' <=> peerMutex' = d
    BY <1>1, ConnAssumption DEF PeersInv, TypeOK, At
  <2> QED BY <1>1, <1>2, <2>1, <2>2 DEF addPeer, PeersInv, TypeOK
<1>5. OneEntryPerIP'
  BY <1>3 DEF PeersInv, OneEntryPerIP
<1>6. ListedIsHandled'
  BY <1>1, <1>2, <1>3 DEF PeersInv, ListedIsHandled, TypeOK
<1>7. AddingIsOpen'
  BY <1>1, <1>2 DEF PeersInv, AddingIsOpen
<1> QED BY <1>4, <1>5, <1>6, <1>7 DEF PeersInv

\* Whatever entry removePeer removes, c itself is not listed afterwards.
LEMMA RemovePeerKeepsInv ==
    ASSUME PeersInv, NEW c \in Conn, removePeer(c)
    PROVE  PeersInv'
<1>1. /\ stage' \in [Conn -> Stages] /\ stage'[c] \in {"closing", "done"}
      /\ stage[c] = "leaving"
      /\ \A d \in Conn \ {c} : stage'[d] = stage[d]
  BY DEF removePeer, Goto, At, PeersInv, TypeOK, Stages
<1>2. peers' \subseteq peers \ {c} /\ open' = open
  BY DEF removePeer, WithoutID
<1>3. TypeOK'
  <2>1. \A d \in Conn : At(d, "locked")' <=> peerMutex' = d
    BY <1>1 DEF removePeer, lockVars, PeersInv, TypeOK, At
  <2> QED BY <1>1, <1>2, <2>1 DEF removePeer, lockVars, PeersInv, TypeOK
<1>4. OneEntryPerIP' /\ ListedIsHandled' /\ AddingIsOpen'
  BY <1>1, <1>2 DEF PeersInv, TypeOK, OneEntryPerIP, ListedIsHandled, AddingIsOpen
<1> QED BY <1>3, <1>4 DEF PeersInv

\* StopReading leaves the entry to removePeer.
LEMMA StopReadingKeepsInv ==
    ASSUME PeersInv, NEW c \in Conn, StopReading(c)
    PROVE  PeersInv'
<1>1. /\ stage' \in [Conn -> Stages] /\ stage'[c] = "leaving" /\ stage[c] = "reading"
      /\ \A d \in Conn \ {c} : stage'[d] = stage[d]
  BY DEF StopReading, Goto, At, PeersInv, TypeOK, Stages
<1>2. UNCHANGED <<open, peers, peerMutex, mu, stopped, discovering>>
  BY DEF StopReading, lockVars
<1>3. TypeOK'
  BY <1>1, <1>2 DEF PeersInv, TypeOK, At
<1>4. OneEntryPerIP' /\ ListedIsHandled' /\ AddingIsOpen'
  BY <1>1, <1>2 DEF PeersInv, TypeOK, OneEntryPerIP, ListedIsHandled, AddingIsOpen
<1> QED BY <1>3, <1>4 DEF PeersInv

LEMMA LockPeersKeepsInv ==
    ASSUME PeersInv, NEW c \in Conn, LockPeers(c)
    PROVE  PeersInv'
<1>1. /\ stage' \in [Conn -> Stages] /\ stage'[c] = "locked" /\ stage[c] = "adding"
      /\ \A d \in Conn \ {c} : stage'[d] = stage[d]
      /\ peerMutex = "free" /\ peerMutex' = c
  BY DEF LockPeers, CanLockPeers, Goto, At, PeersInv, TypeOK, Stages
<1>2. UNCHANGED <<open, peers, mu, stopped, discovering>>
  BY DEF LockPeers
<1>3. TypeOK'
  <2>1. \A d \in Conn : At(d, "locked")' <=> peerMutex' = d
    BY <1>1, ConnAssumption DEF PeersInv, TypeOK, At
  <2> QED BY <1>1, <1>2, <2>1 DEF PeersInv, TypeOK
<1>4. OneEntryPerIP' /\ ListedIsHandled' /\ AddingIsOpen'
  BY <1>1, <1>2 DEF PeersInv, TypeOK, OneEntryPerIP, ListedIsHandled, AddingIsOpen
<1> QED BY <1>3, <1>4 DEF PeersInv

LEMMA ConnStepKeepsInv ==
    ASSUME PeersInv, NEW c \in Conn, Accept(c) \/ ConnStep(c)
    PROVE  PeersInv'
<1>1. CASE Accept(c)
  BY <1>1, MoveKeepsInv DEF Accept, At, lockVars, Stages, PeersInv, TypeOK, ListedIsHandled
<1>2. CASE CheckWhitelist(c)
  <2>1. PICK s \in {"adding", "closing"} : Goto(c, s)
    BY <1>2 DEF CheckWhitelist
  <2>2. c \in open
    BY <1>2 DEF CheckWhitelist, At, PeersInv, AddingIsOpen
  <2> QED BY <1>2, <2>1, <2>2, MoveKeepsInv
          DEF CheckWhitelist, At, lockVars, Stages, PeersInv, TypeOK, ListedIsHandled
<1>3. CASE Dialled(c)
  BY <1>3, MoveKeepsInv DEF Dialled, At, lockVars, Stages, PeersInv, TypeOK, ListedIsHandled
<1>4. CASE DialFails(c)
  BY <1>4, MoveKeepsInv DEF DialFails, At, lockVars, Stages, PeersInv, TypeOK, ListedIsHandled
<1>5. CASE CloseConn(c)
  <2>1. /\ stage' \in [Conn -> Stages] /\ stage'[c] = "done" /\ stage[c] = "closing"
        /\ \A d \in Conn \ {c} : stage'[d] = stage[d]
    BY <1>5 DEF CloseConn, Goto, At, PeersInv, TypeOK, Stages
  <2>2. TypeOK'
    BY <1>5, <2>1 DEF CloseConn, lockVars, PeersInv, TypeOK, At
  <2>3. OneEntryPerIP' /\ ListedIsHandled' /\ AddingIsOpen'
    BY <1>5, <2>1
       DEF CloseConn, PeersInv, TypeOK, OneEntryPerIP, ListedIsHandled, AddingIsOpen
  <2> QED BY <2>2, <2>3 DEF PeersInv
<1> QED BY <1>1, <1>2, <1>3, <1>4, <1>5, LockPeersKeepsInv, AddPeerKeepsInv,
           StopReadingKeepsInv, RemovePeerKeepsInv DEF ConnStep

THEOREM PeersInvHolds == Spec => []PeersInv
<1>1. Init => PeersInv
  BY ConnAssumption DEF Init, PeersInv, TypeOK, Stages, At, OneEntryPerIP, ListedIsHandled, AddingIsOpen
<1>2. PeersInv /\ [Next]_vars => PeersInv'
  <2> SUFFICES ASSUME PeersInv, [Next]_vars
               PROVE  PeersInv'
    OBVIOUS
  <2>1. ASSUME NEW c \in Conn, Accept(c) \/ ConnStep(c)
        PROVE  PeersInv'
    BY <2>1, ConnStepKeepsInv
  <2>2. ASSUME UNCHANGED <<stage, open, peers, peerMutex>>, mu' \in {"free", "stop"},
               stopped' \in BOOLEAN, discovering' \in SUBSET Seeds
        PROVE  PeersInv'
    BY <2>2 DEF PeersInv, TypeOK, At, OneEntryPerIP, ListedIsHandled, AddingIsOpen
  <2>3. CASE connectToSeedNodes
    BY <2>2, <2>3 DEF connectToSeedNodes, lockVars, PeersInv, TypeOK
  <2>4. ASSUME NEW s \in Seeds, DialSeed(s)
        PROVE  PeersInv'
    <3>1. discovering' \in SUBSET Seeds
      BY <2>4 DEF DialSeed, PeersInv, TypeOK
    <3>2. CASE UNCHANGED stage
      BY <2>2, <2>4, <3>1, <3>2 DEF DialSeed, lockVars, PeersInv, TypeOK
    <3>3. CASE \E c \in Conn : At(c, "none") /\ Goto(c, "dialing")
      <4>1. PICK c \in Conn : At(c, "none") /\ Goto(c, "dialing")
        BY <3>3
      <4> QED BY <2>4, <3>1, <4>1, MoveKeepsInv
              DEF DialSeed, At, lockVars, Stages, PeersInv, TypeOK, ListedIsHandled
    <3> QED BY <2>4, <3>2, <3>3 DEF DialSeed
  <2>5. ASSUME NEW S \in SUBSET peers, cleanupInactivePeers(S)
        PROVE  PeersInv'
    BY <2>5, ShrinkKeepsInv DEF cleanupInactivePeers, lockVars, PeersInv, TypeOK
  <2>6. ASSUME UNCHANGED <<stage, open, peers, mu, stopped, discovering>>,
               peerMutex \notin Conn, peerMutex' \in {"free", "info"}
        PROVE  PeersInv'
    BY <2>6, ConnAssumption
       DEF PeersInv, TypeOK, At, OneEntryPerIP, ListedIsHandled, AddingIsOpen
  <2>7. CASE BeginInfo
    BY <2>6, <2>7, ConnAssumption DEF BeginInfo, CanLockPeers
  <2>8. CASE EndInfo
    BY <2>6, <2>8, ConnAssumption DEF EndInfo
  <2>9. CASE BeginStop
    BY <2>2, <2>9 DEF BeginStop, PeersInv, TypeOK
  <2>10. CASE EndStop
    <3>1. peers' = peers \ peers /\ open' = open \ peers
      BY <2>10 DEF EndStop
    <3> QED BY <2>10, <3>1, ShrinkKeepsInv DEF EndStop
  <2>11. CASE UNCHANGED vars
    BY <2>2, <2>11 DEF vars, lockVars, PeersInv, TypeOK
  <2> QED BY <2>1, <2>3, <2>4, <2>5, <2>7, <2>8, <2>9, <2>10, <2>11 DEF Next
<1> QED BY <1>1, <1>2, PTL DEF Spec

\* Every variable keeps its type and peerMutex has one owner.
THEOREM PeersTypeCorrect == Spec => []TypeOK
<1>1. PeersInv => TypeOK
  BY DEF PeersInv
<1> QED BY <1>1, PeersInvHolds, PTL

\* The table lists an IP once.
THEOREM OneEntryPerIPHolds == Spec => []OneEntryPerIP
<1>1. PeersInv => OneEntryPerIP
  BY DEF PeersInv
<1> QED BY <1>1, PeersInvHolds, PTL

\* What the table lists is open and has a goroutine that will remove it.
THEOREM ListedIsHandledHolds == Spec => []ListedIsHandled
<1>1. PeersInv => ListedIsHandled
  BY DEF PeersInv
<1> QED BY <1>1, PeersInvHolds, PTL
=============================================================================
