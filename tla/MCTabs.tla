------------------------------- MODULE MCTabs -------------------------------
(* Two pages, two accounts; one page may be loaded before the wallet has an *)
(* account.                                                                 *)
EXTENDS Tabs

CONSTANTS t1, t2, a1, a2

MCPages == {t1, t2}
MCAccounts == {a1, a2}
MCStarts == {[t \in MCPages |-> a1], [t \in MCPages |-> IF t = t1 THEN a1 ELSE None]}
=============================================================================
