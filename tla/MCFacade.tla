------------------------------ MODULE MCFacade ------------------------------
(* Instances of Facade for TLC.                                            *)
EXTENDS Facade, TLC

CONSTANTS r1, r2, s1, a1, a2

\* Requests differ only in their names, and so do the accounts.
RequestSymmetry == Permutations(Requests)
=============================================================================
