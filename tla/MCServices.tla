---------------------------- MODULE MCServices ----------------------------
(***************************************************************************)
(* One run for four parts of a node that have no variable in common: which *)
(* of them a behaviour is about is chosen at its start, and the others     *)
(* stay as they are.                                                       *)
(***************************************************************************)
EXTENDS Tokens, SeedRegistry, Mining, Sync

-----------------------------------------------------------------------------
(* Tokens: one name, two deployments and two transfers of it. *)

TokenTable ==
    LET Data(kind, from, to, amount) ==
            [kind |-> kind, name |-> "T", from |-> from, to |-> to, amount |-> amount]
    IN  [r  |-> Data("none", "A", "A", 0),
         dA |-> Data("deployment", "A", "A", 2),
         dB |-> Data("deployment", "B", "B", 1),
         ab |-> Data("transfer", "A", "B", 1),
         aa |-> Data("transfer", "A", "A", 1)]

MCTokenTx == DOMAIN TokenTable
MCTokenBlocks ==
    {<<"r">>, <<"dA">>, <<"dB">>, <<"ab">>, <<"aa">>,
     <<"r", "dA", "ab">>, <<"ab", "dA">>}

Branch(txs) == [i \in DOMAIN txs |-> [tx |-> txs[i], block |-> i]]
MCBranches == {Branch(txs) : txs \in {<<"r", "ab">>, <<"dA", "r">>, <<"r", "r", "dA">>}}

-----------------------------------------------------------------------------
(* Seed registry: two addresses of one host. *)

MCHostOf == [ip \in SeedIP |-> "h"]

-----------------------------------------------------------------------------
(* Mining: a unit of time is 15 seconds.  Two payments of one account. *)

MCDifficulty == [initial |-> 25, min |-> 20, max |-> 50, adjustPct |-> 25, window |-> 2,
                 guardBlocks |-> 0, guardDifficulty |-> 0]
MCNetworkFee == [blockFeePct |-> 5, treasuryPct |-> 20]
MCReward == [guard |-> 50, initial |-> 100, halvings |-> <<[after |-> 2, pct |-> 50]>>]
MCPayerOf == [p \in {"p1", "p2"} |-> "a"]
MCFeeOf == [p \in {"p1", "p2"} |-> IF p = "p1" THEN 10 ELSE 24]
MCCoinOwner == [c \in {"s1", "s2"} |-> "a"]

MiningBudget(p, t, f, o, k) ==
    [payments |-> p, templates |-> t, found |-> f, others |-> o, ticks |-> k]

MCDrifts == {-1, 0, 2}

MCBudgets == {MiningBudget(2, 1, 1, 1, 0), MiningBudget(1, 1, 1, 2, 0),
              MiningBudget(2, 0, 0, 3, 0), MiningBudget(1, 2, 2, 0, 0),
              MiningBudget(0, 2, 2, 0, 1), MiningBudget(1, 1, 1, 0, 1),
              MiningBudget(0, 1, 1, 2, 1), MiningBudget(0, 1, 1, 1, 2),
              MiningBudget(0, 1, 1, 0, 3)}

-----------------------------------------------------------------------------
(* Sync: three nodes in a line, one of which tells its height. *)

MCLinks == {{1, 2}, {2, 3}}

SyncBudget(m, b, r, q) == [mined |-> m, breaks |-> b, refusals |-> r, requests |-> q]

MCSyncBudgets == {SyncBudget(3, 0, 0, 0), SyncBudget(2, 1, 0, 1), SyncBudget(2, 0, 1, 1),
                  SyncBudget(4, 0, 0, 1)}

\* A bound on behaviours with more than two blocks: all nodes are set up before anything
\* else happens.
SetUpFirst(who) == ready' \subseteq who /\ (ready # who => ready' # ready)

\* A bound on those with four blocks: node 1 stands aside, while node 2 adds what node 3
\* has answered and mines blocks of its own, two each.
MinedBy(n) == {b \in nodes[n].stored : b.miner = n}

PairNext ==
    /\ SyncNext
    /\ SetUpFirst({2, 3})
    /\ \A n \in {2, 3} : Cardinality(MinedBy(n)') <= 2
    /\ nodes'[1] = nodes[1] /\ Len(wire'[<<2, 1>>]) >= Len(wire[<<2, 1>>])

-----------------------------------------------------------------------------
VARIABLE focus

Init ==
    /\ focus \in {"tokens", "seeds", "mining", "sync", "gossip", "pair"}
    /\ TokensInit /\ SeedInit /\ MiningInit /\ SyncInit
    /\ focus # "seeds" => fileState = "list"
    /\ focus # "mining" => left = MiningBudget(0, 1, 1, 0, 3)
    /\ IF focus = "sync" THEN syncLeft.mined = 2
       ELSE syncLeft.mined = (IF focus = "pair" THEN 4 ELSE 3)

Next ==
    /\ \/ focus = "tokens" /\ TokensNext /\ UNCHANGED <<seedVars, miningVars, syncVars>>
       \/ focus = "seeds" /\ SeedNext /\ UNCHANGED <<tokenVars, miningVars, syncVars>>
       \/ focus = "mining" /\ MiningNext /\ UNCHANGED <<tokenVars, seedVars, syncVars>>
       \/ /\ \/ focus = "sync" /\ SyncNext
             \/ focus = "gossip" /\ SyncNext /\ SetUpFirst(SyncNode)
             \/ focus = "pair" /\ PairNext
          /\ UNCHANGED <<tokenVars, seedVars, miningVars>>
    /\ UNCHANGED focus

Spec == Init /\ [][Next]_<<focus, tokenVars, seedVars, miningVars, syncVars>>
=============================================================================
