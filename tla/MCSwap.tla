------------------------------- MODULE MCSwap -------------------------------
(* Two coins.  Small amounts are exact; the largest has an exponent when it *)
(* is submitted, the next is not covered by the permit; the largest balance *)
(* is not safe.                                                             *)
EXTENDS Swap

CONSTANTS c1, c2

MCCoins == {c1, c2}
MCSells == {1, 5, 10, 20, 40}
MCBalances == {0, 1000, 2000, 4000}
=============================================================================
