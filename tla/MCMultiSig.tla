----------------------------- MODULE MCMultiSig -----------------------------
(* Two plain owners, a contract among the owners, and a stranger. *)
EXTENDS MultiSig, TLC

CONSTANTS o1, o2, c1, x1, payee, wallet

MCAccounts == {o1, o2, c1, x1}
MCOwners == {o1, o2, c1}
MCContracts == {c1}
MCRecipients == {payee, wallet}
MCValues == {1}
=============================================================================
