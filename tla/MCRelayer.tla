------------------------------ MODULE MCRelayer ------------------------------
(* Two users, the deployer and an operator, one market. *)
EXTENDS Relayer, TLC

CONSTANTS u1, u2, deployer, operator, market, none

MCUsers == {u1, u2}
MCOperators == {deployer, operator}
MCAmounts == {1}
MCPayments == {1}
MCMaxHeld == [a \in Assets |-> IF a = "WETH" THEN 2 ELSE 1]

UserSymmetry == Permutations(MCUsers)
=============================================================================
