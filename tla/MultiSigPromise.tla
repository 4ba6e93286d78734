--------------------------- MODULE MultiSigPromise ---------------------------
(***************************************************************************)
(* What the multi-signature wallet promises to its owners, seen from the   *)
(* chain: a step is a whole transaction of the chain that was committed,   *)
(* whatever calls it made and whatever it rolled back on its way.          *)
(***************************************************************************)
CONSTANT Quorums  \* the sets of owners that are enough to carry out a proposal

VARIABLES proposals,  \* what the owners proposed, in the order of submission
          approvals,  \* per proposal, the owners who stand by it
          done        \* the proposals that were carried out

vars == <<proposals, approvals, done>>

Init == proposals = <<>> /\ approvals = <<>> /\ done = {}

\* Proposals are never withdrawn or altered.
Kept ==
  /\ DOMAIN proposals \subseteq DOMAIN proposals'
  /\ \A i \in DOMAIN proposals : proposals'[i] = proposals[i]

\* What is carried out stays so, and who approved it stays on record.
Settled == \A i \in done : i \in done' /\ approvals'[i] = approvals[i]

\* Nothing is carried out without a quorum of owners behind it.
Approved == \A i \in done' : i \in DOMAIN proposals' /\ approvals'[i] \in Quorums

Transact == Kept /\ Settled /\ Approved

Spec == Init /\ [][Transact]_vars
=============================================================================
