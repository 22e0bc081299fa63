------------------------------- MODULE Tokens -------------------------------
(***************************************************************************)
(* Named tokens (core/blockchain.go): deployment over RPC, deployments and *)
(* transfers in the data of mined transactions, what a reorganization does *)
(* to them, and how a restart rebuilds them from the main chain.           *)
(*                                                                         *)
(* Blocks and restarts go through their transactions one step at a time;   *)
(* bc.mu is held meanwhile, so RPC calls run when tokenPhase is "idle".    *)
(***************************************************************************)
EXTENDS Integers, Sequences, FiniteSets, FiniteSetsExt, TLC

CONSTANTS TokenTx,        \* transactions, one for each hash
          TokenData,      \* what the Data of each transaction says
          Account,        \* addresses
          TokenName,      \* names in lower case
          TokenBlocks,    \* transaction lists of blocks that miners may produce
          Branches,       \* transactions of fork branches, each with its block in the branch
          MaxTokenHeight, \* bound on the length of the main chain
          TreasurySet     \* genesis.TreasuryAddress is not empty

\* Data without a type, name or positive amount is of kind "none", and so is the reward.
\* Any transaction may be in several blocks: the nonces are not looked at in a transaction
\* without inputs, and the blocks of peers have lost theirs.  A branch has its blocks in
\* their order.
TokenRecord == [kind : {"deployment", "transfer", "none"}, name : TokenName,
                from : Account, to : Account, amount : Nat]

ASSUME TokenAssumption ==
    /\ TokenData \in [TokenTx -> TokenRecord]
    /\ \A t \in TokenTx : TokenData[t].kind # "none" => TokenData[t].amount > 0
    /\ TokenBlocks \subseteq Seq(TokenTx) \ {<<>>}
    /\ Branches \subseteq Seq([tx : TokenTx, block : Nat \ {0}]) \ {<<>>}
    /\ \A branch \in Branches : \A i, j \in DOMAIN branch :
           i < j => branch[i].block <= branch[j].block
    /\ MaxTokenHeight \in Nat /\ TreasurySet \in BOOLEAN

\* Balances are kept under an address in hex, or under the text that a client
\* wrote in its place.
Key == Account \X {"hex", "text"}

VARIABLES
    deployedTokens,  \* the deployed names, each with its creator, supply and height
    tokenBalances,   \* by key and name, zero for a key the map does not have
    tokenChain,      \* transactions of the main chain with their block numbers
    todo,            \* those that the loop in progress has still to process
    firstOfBlock,    \* length of tokenChain when the block in progress was begun
    tokenPhase,      \* the loop in progress
    deploying,       \* deployments between the two critical sections of their call
    tokenTrouble,    \* history: what has touched the tokens besides new blocks
    savedTokens      \* history: the answers that a restart has to give back, if any

ledger == <<deployedTokens, tokenBalances>>
tokenVars == <<ledger, tokenChain, todo, firstOfBlock, tokenPhase, deploying,
               tokenTrouble, savedTokens>>

Phases == {"idle", "extend", "reorganize", "deployments", "restore", "transfers"}

Hex(a) == <<a, "hex">>

NoBalances == [k \in Key |-> [n \in TokenName |-> 0]]

TokensInit ==
    /\ deployedTokens = [n \in {} |-> 0]
    /\ tokenBalances = NoBalances
    /\ tokenChain = <<>> /\ todo = <<>> /\ firstOfBlock = 0
    /\ tokenPhase = "idle"
    /\ deploying = {} /\ tokenTrouble = {}
    /\ savedTokens = <<>>

Deployed(n) == n \in DOMAIN deployedTokens

IsDeployment(t) == TokenData[t].kind = "deployment"
IsTransfer(t) == TokenData[t].kind = "transfer"

\* GetTokenBalance turns the address it is given into hex.
GetTokenBalance(a, n) == tokenBalances[Hex(a)][n]

Answers == [a \in Account |-> [n \in TokenName |-> GetTokenBalance(a, n)]]

TokenHeight == IF tokenChain = <<>> THEN 0 ELSE tokenChain[Len(tokenChain)].number

-----------------------------------------------------------------------------
(* The effects of a transaction's data. *)

\* (mutant) A name that was never used is not entered.
Reenter(n, creator, supply, height) == deployedTokens

AddToken(n, creator, supply, height) ==
    [m \in DOMAIN deployedTokens \cup {n} |->
        IF m = n THEN [creator |-> creator, supply |-> supply, height |-> height]
                 ELSE deployedTokens[m]]

SetBalance(k, n, amount) == [tokenBalances EXCEPT ![k][n] = amount]

\* A known token gets the height of the block; its creator is kept, and the sender
\* has the supply of this deployment unless it holds some of the token.
processTokenDeployment(t, number) ==
    LET d == TokenData[t]
        k == Hex(d.from)
    IN  IF Deployed(d.name)
        THEN /\ deployedTokens' = [deployedTokens EXCEPT ![d.name].height = number]
             /\ tokenBalances' = IF tokenBalances[k][d.name] = 0
                                 THEN SetBalance(k, d.name, d.amount)
                                 ELSE tokenBalances
        ELSE /\ deployedTokens' = AddToken(d.name, k, d.amount, number)
             /\ tokenBalances' = SetBalance(k, d.name, d.amount)

\* (mutant) The balance is not looked at.
AlwaysCovered(d) == TRUE

Covered(d) == tokenBalances[Hex(d.from)][d.name] >= d.amount

Debit(balances, k, n, amount) == [balances EXCEPT ![k][n] = @ - amount]
Credit(balances, k, n, amount) == [balances EXCEPT ![k][n] = @ + amount]

\* (mutant) Both balances are read before either is written.
TransferredFromStale(d) ==
    [tokenBalances EXCEPT ![Hex(d.from)][d.name] = @ - d.amount,
                          ![Hex(d.to)][d.name] = tokenBalances[Hex(d.to)][d.name] + d.amount]

\* The recipient is credited after the sender is debited: both may be one account.
Transferred(d) ==
    Credit(Debit(tokenBalances, Hex(d.from), d.name, d.amount),
           Hex(d.to), d.name, d.amount)

\* A transfer that is not covered, or of an unknown token, is skipped.
processTokenTransfer(t) ==
    LET d == TokenData[t]
    IN  /\ tokenBalances' = IF Deployed(d.name) /\ Covered(d) THEN Transferred(d)
                            ELSE tokenBalances
        /\ UNCHANGED deployedTokens

-----------------------------------------------------------------------------
(* Blocks and reorganizations. *)

Numbered(txs, number) == [i \in DOMAIN txs |-> [tx |-> txs[i], number |-> number]]

\* addBlockV2 begins with the transactions of a block that extends the chain.
ExtendTokens(txs) ==
    /\ tokenPhase = "idle"
    /\ TokenHeight < MaxTokenHeight
    /\ tokenPhase' = "extend"
    /\ todo' = Numbered(txs, TokenHeight + 1)
    /\ firstOfBlock' = Len(tokenChain)
    /\ UNCHANGED <<ledger, tokenChain, deploying, tokenTrouble, savedTokens>>

\* Bound: one refused block and one reorganization from a start to the next, since
\* each may add to the sum of the balances.
Once(what) == what \notin tokenTrouble

\* The first n transactions of the chain are those of whole blocks.
WholeBlocks(n) ==
    /\ n < Len(tokenChain)
    /\ n > 0 => tokenChain[n].number < tokenChain[n + 1].number

\* reorganizeChain cuts the chain after its first n transactions and begins with those
\* of a longer branch; nothing is undone in the tokens.
ReorganizeTokens(n, branch) ==
    LET k == IF n = 0 THEN 0 ELSE tokenChain[n].number
        length == branch[Len(branch)].block
        kept == SubSeq(tokenChain, 1, n)
    IN  /\ tokenPhase = "idle"
        /\ Once("reorganization")
        /\ WholeBlocks(n)
        /\ k + length > TokenHeight /\ k + length <= MaxTokenHeight
        /\ tokenPhase' = "reorganize"
        /\ tokenChain' = kept
        /\ todo' = [i \in DOMAIN branch |->
                        [tx |-> branch[i].tx, number |-> k + branch[i].block]]
        /\ tokenTrouble' = tokenTrouble \cup {"reorganization"}
        /\ UNCHANGED <<ledger, firstOfBlock, deploying, savedTokens>>

Processing(phases) == tokenPhase \in phases /\ todo # <<>>

NextTx == Head(todo).tx

\* The transaction at the head of todo is dealt with; while blocks are added it
\* becomes part of the main chain.
Proceed ==
    /\ todo' = Tail(todo)
    /\ tokenChain' = IF tokenPhase \in {"extend", "reorganize"}
                     THEN Append(tokenChain, Head(todo)) ELSE tokenChain
    /\ UNCHANGED <<firstOfBlock, tokenPhase, deploying, tokenTrouble, savedTokens>>

ProcessDeployment ==
    /\ Processing({"extend", "deployments"})
    /\ IsDeployment(NextTx)
    /\ processTokenDeployment(NextTx, Head(todo).number)
    /\ Proceed

\* processTransactionUTXOs looks for a transfer before it spends an input; while
\* blocks are applied by a reorganization it is all that is called.
ProcessTransfer ==
    /\ Processing({"extend", "reorganize"})
    /\ IsTransfer(NextTx)
    /\ processTokenTransfer(NextTx)
    /\ Proceed

\* An input of the transaction just processed cannot be spent: the block is not
\* added, and what its transactions have done to the tokens stays.
RefuseTokenBlock ==
    /\ tokenPhase = "extend"
    /\ Once("refused")
    /\ Len(tokenChain) > firstOfBlock
    /\ tokenChain' = SubSeq(tokenChain, 1, firstOfBlock)
    /\ todo' = <<>>
    /\ tokenPhase' = "idle"
    /\ firstOfBlock' = 0
    /\ tokenTrouble' = tokenTrouble \cup {"refused"}
    /\ UNCHANGED <<ledger, deploying, savedTokens>>

FinishBlocks ==
    /\ tokenPhase \in {"extend", "reorganize"} /\ todo = <<>>
    /\ tokenPhase' = "idle"
    /\ firstOfBlock' = 0
    /\ UNCHANGED <<ledger, tokenChain, todo, deploying, tokenTrouble, savedTokens>>

-----------------------------------------------------------------------------
(* RPC: handleDeployToken checks the name and then calls DeployToken. *)

CheckTokenName(t) ==
    /\ tokenPhase = "idle"
    /\ IsDeployment(t)
    /\ ~Deployed(TokenData[t].name)
    /\ deploying' = deploying \cup {t}
    /\ UNCHANGED <<ledger, tokenChain, todo, firstOfBlock, tokenPhase, tokenTrouble,
                   savedTokens>>

\* (mutant) DeployToken relies on the check of the handler.
IsFree(n) == TRUE

NameIsFree(n) == ~Deployed(n)

\* The token exists from here on, whether or not its payment can be made and is
\* ever mined.  The balance is kept under the creator as the client wrote it.
DeployToken(d, form) ==
    LET k == <<d.from, form>>
    IN  IF NameIsFree(d.name)
        THEN /\ deployedTokens' = AddToken(d.name, k, d.amount, TokenHeight)
             /\ tokenBalances' = IF TreasurySet THEN SetBalance(k, d.name, d.amount)
                                 ELSE tokenBalances
             /\ tokenTrouble' = IF form = "hex" THEN tokenTrouble \cup {"rpc"} ELSE tokenTrouble
        ELSE UNCHANGED <<ledger, tokenTrouble>>

\* The handler goes on to prepare the payment (module Mining), which changes nothing here.
handleDeployToken(t, form) ==
    /\ tokenPhase = "idle"
    /\ t \in deploying
    /\ DeployToken(TokenData[t], form)
    /\ deploying' = deploying \ {t}
    /\ UNCHANGED <<tokenChain, todo, firstOfBlock, tokenPhase, savedTokens>>

-----------------------------------------------------------------------------
(* Restart: the maps are empty, and loadChainFromStorage goes through the    *)
(* main chain three times.  Module Persistence shows when it finds the chain. *)

\* The chain deploys each name once, and in no block after a transfer of it; it has no
\* transfer twice.
Orderly ==
    \A i, j \in DOMAIN tokenChain :
        LET ti == tokenChain[i].tx
            tj == tokenChain[j].tx
        IN  /\ i < j /\ IsDeployment(tj) /\ TokenData[ti].name = TokenData[tj].name =>
                   /\ ~IsDeployment(ti)
                   /\ IsTransfer(ti) => tokenChain[i].number < tokenChain[j].number
            /\ i < j /\ IsTransfer(tj) => ti # tj

RestartTokens ==
    /\ tokenPhase = "idle"
    /\ savedTokens' = IF tokenTrouble = {} /\ Orderly THEN Answers ELSE <<>>
    /\ deployedTokens' = [n \in {} |-> 0]
    /\ tokenBalances' = NoBalances
    /\ deploying' = {}
    /\ todo' = tokenChain
    /\ tokenPhase' = "deployments"
    /\ UNCHANGED <<tokenChain, firstOfBlock, tokenTrouble>>

\* restoreTokenDeploymentsFromBlocks leaves a known token as it is.
RestoreDeployment ==
    /\ Processing({"restore"})
    /\ IsDeployment(NextTx)
    /\ LET d == TokenData[NextTx]
       IN  IF Deployed(d.name) THEN UNCHANGED ledger
           ELSE /\ deployedTokens' = AddToken(d.name, Hex(d.from), d.amount, Head(todo).number)
                /\ tokenBalances' = SetBalance(Hex(d.from), d.name, d.amount)
    /\ Proceed

\* (mutant) Transfers are replayed whatever the height of the deployment.
AnyHeight(n, number) == TRUE

AfterDeployment(n, number) == number >= deployedTokens[n].height

\* A transfer is tried at its deployment's block or later,
Tried(item) ==
    LET n == TokenData[item.tx].name
    IN  IsTransfer(item.tx) /\ Deployed(n) /\ AfterDeployment(n, item.number)

\* and once for each hash: those that the loop has tried so far.
processedTxHashes ==
    {tokenChain[i].tx : i \in {j \in 1..(Len(tokenChain) - Len(todo)) : Tried(tokenChain[j])}}

ReplayTransfer ==
    /\ Processing({"transfers"})
    /\ IsTransfer(NextTx)
    /\ IF Tried(Head(todo)) /\ NextTx \notin processedTxHashes
       THEN processTokenTransfer(NextTx)
       ELSE UNCHANGED ledger
    /\ Proceed

\* Transactions that the loop in progress has nothing to do with.
SkipTx ==
    /\ todo # <<>>
    /\ \/ TokenData[NextTx].kind = "none"
       \/ IsDeployment(NextTx) /\ tokenPhase \in {"reorganize", "transfers"}
       \/ IsTransfer(NextTx) /\ tokenPhase \in {"deployments", "restore"}
    /\ Proceed
    /\ UNCHANGED ledger

LoadingPhases == {"deployments", "restore", "transfers"}

NextPhase == [deployments |-> "restore", restore |-> "transfers", transfers |-> "idle"]

FinishLoop ==
    /\ tokenPhase \in LoadingPhases /\ todo = <<>>
    /\ tokenPhase' = NextPhase[tokenPhase]
    /\ todo' = IF tokenPhase = "transfers" THEN <<>> ELSE tokenChain
    /\ IF tokenPhase = "transfers" THEN tokenTrouble' = {} /\ savedTokens' = <<>>
                                   ELSE UNCHANGED <<tokenTrouble, savedTokens>>
    /\ UNCHANGED <<ledger, tokenChain, firstOfBlock, deploying>>

-----------------------------------------------------------------------------
TokensNext ==
    \/ \E txs \in TokenBlocks : ExtendTokens(txs)
    \/ \E n \in 0..Len(tokenChain), branch \in Branches : ReorganizeTokens(n, branch)
    \/ ProcessDeployment \/ ProcessTransfer \/ SkipTx
    \/ RefuseTokenBlock \/ FinishBlocks
    \/ \E t \in TokenTx : CheckTokenName(t)
    \/ \E t \in TokenTx, form \in {"hex", "text"} : handleDeployToken(t, form)
    \/ RestartTokens \/ RestoreDeployment \/ ReplayTransfer \/ FinishLoop

TokensSpec == TokensInit /\ [][TokensNext]_tokenVars

-----------------------------------------------------------------------------
TokenInfo == [creator : Key, supply : Nat, height : Nat]

Item == [tx : TokenTx, number : Nat]

\* Every variable keeps its type.  Balances are natural numbers: the subtraction
\* in processTokenTransfer (uint64, blockchain.go:980) never wraps, although
\* several transfers of one balance may be on their way.
TokensTypeOK ==
    /\ DOMAIN deployedTokens \subseteq TokenName
    /\ \A n \in DOMAIN deployedTokens : deployedTokens[n] \in TokenInfo
    /\ tokenBalances \in [Key -> [TokenName -> Nat]]
    /\ tokenChain \in Seq(Item) /\ todo \in Seq(Item)
    /\ firstOfBlock \in Nat
    /\ tokenPhase \in Phases
    /\ \A t \in deploying : t \in TokenTx /\ IsDeployment(t)
    /\ tokenTrouble \subseteq {"rpc", "refused", "reorganization"}

Restarting == tokenPhase = "idle" /\ tokenPhase' = "deployments"

\* The first deployment of a name, over RPC or in a block, fixes its creator and
\* its supply while the node runs: a second call that also found the name free,
\* or a later deployment in a block, changes neither ("Check if name already
\* exists", blockchain.go:1576).
FirstDeployerKeepsName ==
    [][~Restarting =>
          \A n \in DOMAIN deployedTokens :
             /\ n \in DOMAIN deployedTokens'
             /\ deployedTokens'[n].creator = deployedTokens[n].creator
             /\ deployedTokens'[n].supply = deployedTokens[n].supply]_tokenVars

\* A name that is not deployed has no balances, also between the passes of a
\* restart: transfers are only made of tokens that getDeployedTokens lists.
BalancesAreOfTokens ==
    \A k \in Key, n \in TokenName : tokenBalances[k][n] # 0 => Deployed(n)

Total(n) == MapThenSumSet(LAMBDA k : tokenBalances[k][n], Key)

\* The step gives the sender of a deployment of n the supply of the deployment.
Deploys(n) ==
    \/ /\ Processing({"extend", "deployments", "restore"})
       /\ IsDeployment(NextTx) /\ TokenData[NextTx].name = n
    \/ \E t \in deploying \ deploying' : TokenData[t].name = n

\* Tokens come from deployments alone and are lost by none of a transfer to
\* oneself, a refused block, a reorganization and a replay: every other step but
\* the start of a node leaves the sum of the balances as it is.
TransfersConserveTokens ==
    [][~Restarting => \A n \in TokenName : Total(n)' = Total(n) \/ Deploys(n)]_tokenVars

\* A restart gives back every answer of getTokenBalance, when the chain is orderly
\* and no block was refused or taken back since the last start.  The loader takes
\* another order than addBlockV2: all deployments first and transfers then, those
\* before the deployment left out ("This will restore token balances from token
\* transfer transactions", blockchain.go:2681).  A transfer that is on the chain twice
\* moves tokens twice while the node runs and once at a start ("avoid duplicates",
\* blockchain.go:2672): the balances differ then, and such a chain is not orderly.
\* A deployment over RPC disturbs this only when the client wrote the creator in hex:
\* otherwise the balance it makes is never read, and the mined deployment makes the one
\* that is.
RestartKeepsBalances ==
    [][tokenPhase = "transfers" /\ tokenPhase' = "idle" /\ savedTokens # <<>>
       => Answers' = savedTokens]_tokenVars
=============================================================================
