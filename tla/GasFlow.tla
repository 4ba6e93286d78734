------------------------------- MODULE GasFlow -------------------------------
(***************************************************************************)
(* What CoinChoice promises the user of a page, whatever passes between    *)
(* page, drawer, background and chain: a call of the page is held back and *)
(* then let through for good; while it is held back, at most one deal is   *)
(* made for it, one the user has agreed to, and at most one deposit is     *)
(* asked for; every deposit is paid for by a permit of its own; and a      *)
(* deposit is announced only when it is there.                             *)
(***************************************************************************)
CONSTANTS Calls,  \* the calls of the page
          Deals,  \* what a user can be asked to agree to
          None    \* no deal

VARIABLES status,    \* of a call: new, held back, or let through
          deal,      \* what is done for a call while it is held back
          deposit,   \* the deposit asked for in the name of a call
          agreed,    \* the deals the user agreed to
          spent,     \* the permits that paid for a deposit
          announced  \* the calls whose deposit the user was told of

vars == <<status, deal, deposit, agreed, spent, announced>>

Init ==
  /\ status = [c \in Calls |-> "new"]
  /\ deal = [c \in Calls |-> None]
  /\ deposit = [c \in Calls |-> "none"]
  /\ agreed = {} /\ spent = {} /\ announced = {}

Held == {c \in Calls : status[c] = "held"}

Hold(c) ==
  /\ status[c] = "new"
  /\ status' = [status EXCEPT ![c] = "held"]
  /\ UNCHANGED <<deal, deposit, agreed, spent, announced>>

\* Calls are let through: one that was never held back, or any that are.
LetThrough(C) ==
  /\ \/ C \subseteq Held
     \/ \E c \in Calls : C = {c} /\ status[c] = "new"
  /\ status' = [c \in Calls |-> IF c \in C THEN "released" ELSE status[c]]
  /\ UNCHANGED <<deal, deposit, agreed, spent, announced>>

Agree(d) ==
  /\ agreed' = agreed \cup {d}
  /\ UNCHANGED <<status, deal, deposit, spent, announced>>

\* One agreement may serve several calls, and is never replaced by another one.
Deal(C, d) ==
  /\ C \subseteq {c \in Held : deal[c] = None}
  /\ d \in agreed
  /\ deal' = [c \in Calls |-> IF c \in C THEN d ELSE deal[c]]
  /\ UNCHANGED <<status, deposit, agreed, spent, announced>>

\* The deposit of a call goes from one state to the next.
Moves(c, from, to) ==
  /\ deposit[c] = from
  /\ deposit' = [deposit EXCEPT ![c] = to]
  /\ UNCHANGED <<status, deal, agreed, announced>>

AskFor(c) ==
  /\ c \in Held
  /\ deal[c] # None
  /\ Moves(c, "none", "posted")
  /\ UNCHANGED spent

\* The backend passes it on, and the chain takes it or not, also for a call that
\* was let through in the meantime.
Send(c) == Moves(c, "posted", "pending") /\ UNCHANGED spent
Fail(c) == Moves(c, "pending", "reverted") /\ UNCHANGED spent
Pay(c) ==
  /\ Moves(c, "pending", "mined")
  /\ \E p \in spent' \ spent : spent' = spent \cup {p}

Announce(c) ==
  /\ deposit[c] = "mined"
  /\ announced' = announced \cup {c}
  /\ UNCHANGED <<status, deal, deposit, agreed, spent>>

Next ==
  \/ \E c \in Calls : Hold(c) \/ AskFor(c) \/ Send(c) \/ Fail(c) \/ Pay(c) \/ Announce(c)
  \/ \E C \in SUBSET Calls : LetThrough(C) \/ \E d \in agreed : Deal(C, d)
  \/ \E d \in Deals : Agree(d)

Spec == Init /\ [][Next]_vars
=============================================================================
