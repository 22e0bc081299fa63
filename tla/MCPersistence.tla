--------------------------- MODULE MCPersistence ---------------------------
(***************************************************************************)
(* A block tree for model checking Persistence: two branches that fork at  *)
(* the tip, the second of which can overtake the first and be overtaken.   *)
(*                                                                         *)
(*   g -- a1 -+- b2 -- b3 -- b4                                            *)
(*            +- c2 -- c3                                                  *)
(***************************************************************************)
EXTENDS Persistence

MCPath ==
    LET path == [g  |-> <<"g">>,
                 a1 |-> <<"g", "a1">>,
                 b2 |-> <<"g", "a1", "b2">>,
                 b3 |-> <<"g", "a1", "b2", "b3">>,
                 b4 |-> <<"g", "a1", "b2", "b3", "b4">>,
                 c2 |-> <<"g", "a1", "c2">>,
                 c3 |-> <<"g", "a1", "c2", "c3">>]
    IN  [b \in Block |-> path[b]]
=============================================================================
