---------------------------- MODULE MCBlockchain ----------------------------
(***************************************************************************)
(* A block tree for model checking Blockchain.                             *)
(*                                                                         *)
(*   g -- a1 -+- m2 -+- m3 -- m4                                           *)
(*            |      +- x3 -- x4                                           *)
(*            +- f2 -+- f3 -- f4                                           *)
(*                   +- y3                                                 *)
(*                                                                         *)
(* Every block begins with a reward transaction.  tA, tA2 and tB are the   *)
(* payments of two accounts, tA2 spending an output of tA.  tA2x and tC2   *)
(* are what CreateTransactionWithData returns when it is called twice      *)
(* before the first payment is mined: the nonce and the inputs of tA2 and  *)
(* of tC.  A template takes both from the mempool, as x3 and y3 did.       *)
(***************************************************************************)
EXTENDS Blockchain

MCPath ==
    LET path == [g  |-> <<"g">>,
                 a1 |-> <<"g", "a1">>,
                 m2 |-> <<"g", "a1", "m2">>,
                 m3 |-> <<"g", "a1", "m2", "m3">>,
                 m4 |-> <<"g", "a1", "m2", "m3", "m4">>,
                 x3 |-> <<"g", "a1", "m2", "x3">>,
                 x4 |-> <<"g", "a1", "m2", "x3", "x4">>,
                 f2 |-> <<"g", "a1", "f2">>,
                 f3 |-> <<"g", "a1", "f2", "f3">>,
                 f4 |-> <<"g", "a1", "f2", "f3", "f4">>,
                 y3 |-> <<"g", "a1", "f2", "y3">>]
    IN  [b \in Block |-> path[b]]

MCTxs ==
    LET txs == [g  |-> <<>>,
                a1 |-> <<"ra1", "sa1", "ua1">>,
                m2 |-> <<"rm2", "tA">>,
                m3 |-> <<"rm3", "tA2">>,
                m4 |-> <<"rm4">>,
                x3 |-> <<"rx3", "tA2", "tA2x">>,
                x4 |-> <<"rx4">>,
                f2 |-> <<"rf2", "tB">>,
                f3 |-> <<"rf3">>,
                f4 |-> <<"rf4">>,
                y3 |-> <<"ry3", "tC", "tC2">>]
    IN  [b \in Block |-> txs[b]]

Payment(from, nonce, in, out) == [from |-> from, nonce |-> nonce, in |-> in, out |-> out]

Reward(out) == Payment("none", 0, <<>>, {out})

TxTable ==
    [ra1 |-> Reward("oA"), sa1 |-> Reward("oB"), ua1 |-> Reward("oC"),
     rm2 |-> Reward("orm2"), rm3 |-> Reward("orm3"), rm4 |-> Reward("orm4"),
     rx3 |-> Reward("orx3"), rf2 |-> Reward("orf2"), rf3 |-> Reward("orf3"),
     rf4 |-> Reward("orf4"), ry3 |-> Reward("ory3"), rx4 |-> Reward("orx4"),
     tA   |-> Payment("A", 1, <<"oA">>, {"oA1", "oA2"}),
     tA2  |-> Payment("A", 2, <<"oA1", "oA2">>, {"oA3"}),
     tA2x |-> Payment("A", 2, <<"oA1", "oA2">>, {"oA4"}),
     tB   |-> Payment("B", 1, <<"oB">>, {"oB1"}),
     tC   |-> Payment("C", 1, <<"oC">>, {"oC1"}),
     tC2  |-> Payment("C", 1, <<"oC">>, {"oC2"})]

MCTx == DOMAIN TxTable
MCOutPoint == UNION {TxTable[t].out : t \in MCTx}
MCAddress == {TxTable[t].from : t \in MCTx}
MCInputs == [t \in MCTx |-> TxTable[t].in]
MCOutputs == [t \in MCTx |-> TxTable[t].out]
MCSender == [t \in MCTx |-> TxTable[t].from]
MCNonce == [t \in MCTx |-> TxTable[t].nonce]
MCFee == [t \in MCTx |-> TxTable[t].nonce]
MCSize == [t \in MCTx |-> 1]
=============================================================================
