------------------------------ MODULE MCClient ------------------------------
(***************************************************************************)
(* A session for ClientSession: a pool of A and wrapped SOL with rewards   *)
(* in C and in wrapped SOL, two positions and one to be opened, and        *)
(* transactions that hold a position's fees and one reward, no more.       *)
(***************************************************************************)
EXTENDS ClientSession

MCTokensOf == [pool \in Pools |-> <<"A", "SOL">>]
MCRewardMintsOf == [pool \in Pools |-> <<"C", "SOL">>]
MCArraysOf == [p1 |-> {0, 1}, p2 |-> {1}, p3 |-> {1, 2}]
MCPoolOf == [p1 |-> "P", p2 |-> "P", p3 |-> "P"]

=============================================================================
