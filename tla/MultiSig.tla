------------------------------ MODULE MultiSig ------------------------------
(***************************************************************************)
(* MultiSigWallet.sol: owners submit, confirm and revoke transactions; one *)
(* with enough confirmations is executed by a call to its recipient.       *)
(*                                                                         *)
(* The call hands control to foreign code.  Until it returns, a contract   *)
(* among the owners may enter the wallet again, also to execute a further  *)
(* transaction, so that executions nest.  When a call fails the wallet     *)
(* reverts: its storage is what it was before that execution, and the      *)
(* execution around it, if there is one, goes on.                          *)
(***************************************************************************)
EXTENDS Integers, Sequences, FiniteSets

CONSTANTS Accounts,        \* who may call the wallet
          Owners,          \* _owners of the constructor
          Contracts,       \* the accounts that are contracts
          Required,        \* numConfirmationsRequired
          Recipients,      \* whom transactions call
          Wallet,          \* the wallet's own address
          Values,          \* the amounts transactions carry
          MaxTransactions, \* bound: how many transactions are submitted
          MaxDepth,        \* bound: how deep executions nest
          MaxReceived      \* bound: how much the wallet is sent

VARIABLES
  storage,  \* the state of the contract, which a revert restores
  calls     \* the executions under way, the innermost last: the transaction, and
            \* the storage before it

vars == <<storage, calls>>

Indices == 1..MaxTransactions

\* The constructor's requirements.
ASSUME MultiSigAssumption ==
  /\ IsFiniteSet(Owners) /\ Owners \subseteq Accounts /\ Contracts \subseteq Accounts
  /\ Required \in 1..Cardinality(Owners)
  /\ Values \subseteq Nat
  /\ MaxTransactions \in Nat /\ MaxDepth \in Nat /\ MaxReceived \in Nat

Transaction ==
  [to : Recipients, value : Values, executed : BOOLEAN, numConfirmations : Nat]

\* received and runs are history: what the wallet was ever sent, and how often
\* the call of a transaction took effect.
Storage ==
  [transactions : Seq(Transaction), isConfirmed : [Indices -> SUBSET Owners],
   balance : Nat, received : Nat, runs : [Indices -> Nat]]
Bounded(s) == Len(s.transactions) <= MaxTransactions

Init ==
  /\ storage = [transactions |-> <<>>, isConfirmed |-> [i \in Indices |-> {}],
                balance |-> 0, received |-> 0, runs |-> [i \in Indices |-> 0]]
  /\ calls = <<>>

-----------------------------------------------------------------------------
(* Modifiers.                                                              *)

\* While a call is under way only contracts can call.
MayCall(sender) == calls = <<>> \/ sender \in Contracts
onlyOwner(sender) == sender \in Owners
txExists(i) == i \in DOMAIN storage.transactions
notExecuted(i) == ~storage.transactions[i].executed
notConfirmed(i, sender) == sender \notin storage.isConfirmed[i]

-----------------------------------------------------------------------------
(* The functions of the contract: a call that does not meet a requirement   *)
(* reverts and changes nothing.                                            *)

receive ==
  /\ storage.received < MaxReceived
  /\ storage' = [storage EXCEPT !.balance = @ + 1, !.received = @ + 1]
  /\ UNCHANGED calls

submitTransaction(sender, to, value) ==
  /\ MayCall(sender) /\ onlyOwner(sender)
  /\ Len(storage.transactions) < MaxTransactions
  /\ storage' = [storage EXCEPT !.transactions =
                   Append(@, [to |-> to, value |-> value, executed |-> FALSE,
                              numConfirmations |-> 0])]
  /\ UNCHANGED calls

\* Mutation: an owner may confirm twice.
confirmTransaction_Again(sender, i) ==
  /\ MayCall(sender) /\ onlyOwner(sender)
  /\ txExists(i) /\ notExecuted(i)
  /\ storage.transactions[i].numConfirmations < Cardinality(Owners) + 1
  /\ storage' = [storage EXCEPT !.transactions[i].numConfirmations = @ + 1,
                                !.isConfirmed[i] = @ \cup {sender}]
  /\ UNCHANGED calls

\* Mutation: anybody may confirm.
confirmTransaction_Anybody(sender, i) ==
  /\ MayCall(sender)
  /\ txExists(i) /\ notExecuted(i) /\ notConfirmed(i, sender)
  /\ storage' = [storage EXCEPT !.transactions[i].numConfirmations = @ + 1,
                                !.isConfirmed[i] = @ \cup {sender}]
  /\ UNCHANGED calls

confirmTransaction(sender, i) ==
  /\ MayCall(sender) /\ onlyOwner(sender)
  /\ txExists(i) /\ notExecuted(i) /\ notConfirmed(i, sender)
  /\ storage' = [storage EXCEPT !.transactions[i].numConfirmations = @ + 1,
                                !.isConfirmed[i] = @ \cup {sender}]
  /\ UNCHANGED calls

\* Mutation: a confirmation may be revoked after the execution.
revokeConfirmation_Executed(sender, i) ==
  /\ MayCall(sender) /\ onlyOwner(sender)
  /\ txExists(i)
  /\ sender \in storage.isConfirmed[i]
  /\ storage.transactions[i].numConfirmations > 0
  /\ storage' = [storage EXCEPT !.transactions[i].numConfirmations = @ - 1,
                                !.isConfirmed[i] = @ \ {sender}]
  /\ UNCHANGED calls

\* Checked arithmetic: the count of confirmations does not go below 0.
revokeConfirmation(sender, i) ==
  /\ MayCall(sender) /\ onlyOwner(sender)
  /\ txExists(i) /\ notExecuted(i)
  /\ sender \in storage.isConfirmed[i]
  /\ storage.transactions[i].numConfirmations > 0
  /\ storage' = [storage EXCEPT !.transactions[i].numConfirmations = @ - 1,
                                !.isConfirmed[i] = @ \ {sender}]
  /\ UNCHANGED calls

\* What leaves the wallet with the call of a transaction.
Payment(t) == IF t.to = Wallet THEN 0 ELSE t.value

\* Mutation: executed is left to be set once the call has returned.
executeTransaction_LateFlag(sender, i) ==
  /\ MayCall(sender) /\ onlyOwner(sender)
  /\ txExists(i) /\ notExecuted(i)
  /\ storage.transactions[i].numConfirmations >= Required
  /\ storage.balance >= storage.transactions[i].value
  /\ Len(calls) < MaxDepth
  /\ storage' = [storage EXCEPT !.balance = @ - Payment(storage.transactions[i]),
                                !.runs[i] = @ + 1]
  /\ calls' = Append(calls, [txIndex |-> i, saved |-> storage])

\* Mutation: the quorum is one short.
executeTransaction_Short(sender, i) ==
  /\ MayCall(sender) /\ onlyOwner(sender)
  /\ txExists(i) /\ notExecuted(i)
  /\ storage.transactions[i].numConfirmations >= Required - 1
  /\ storage.balance >= storage.transactions[i].value
  /\ Len(calls) < MaxDepth
  /\ storage' = [storage EXCEPT !.transactions[i].executed = TRUE,
                                !.balance = @ - Payment(storage.transactions[i]),
                                !.runs[i] = @ + 1]
  /\ calls' = Append(calls, [txIndex |-> i, saved |-> storage])

\* executed is set, the value is sent, and the recipient has control.
executeTransaction(sender, i) ==
  /\ MayCall(sender) /\ onlyOwner(sender)
  /\ txExists(i) /\ notExecuted(i)
  /\ storage.transactions[i].numConfirmations >= Required
  /\ storage.balance >= storage.transactions[i].value
  /\ Len(calls) < MaxDepth
  /\ storage' = [storage EXCEPT !.transactions[i].executed = TRUE,
                                !.balance = @ - Payment(storage.transactions[i]),
                                !.runs[i] = @ + 1]
  /\ calls' = Append(calls, [txIndex |-> i, saved |-> storage])

Innermost == calls[Len(calls)]
Outer == SubSeq(calls, 1, Len(calls) - 1)

\* The call succeeds.
CallReturns ==
  /\ calls # <<>>
  /\ calls' = Outer
  /\ UNCHANGED storage

\* Mutation: a failed call is not looked at, but what it did is undone.
CallFails_Ignored ==
  /\ calls # <<>>
  /\ storage' = [Innermost.saved EXCEPT !.transactions[Innermost.txIndex].executed = TRUE]
  /\ calls' = Outer

\* require(success): the whole execution is undone.
CallFails ==
  /\ calls # <<>>
  /\ storage' = Innermost.saved
  /\ calls' = Outer

-----------------------------------------------------------------------------
Next ==
  \/ receive
  \/ \E sender \in Accounts :
       \/ \E to \in Recipients, value \in Values : submitTransaction(sender, to, value)
       \/ \E i \in Indices : \/ confirmTransaction(sender, i)
                             \/ revokeConfirmation(sender, i)
                             \/ executeTransaction(sender, i)
  \/ CallReturns
  \/ CallFails

Spec == Init /\ [][Next]_vars

-----------------------------------------------------------------------------
(* Properties.                                                             *)

\* The storage keeps its shape, also the copies a revert would restore; only
\* owners have confirmed (onlyOwner).
TypeOK ==
  /\ storage \in Storage /\ Bounded(storage)
  /\ calls \in Seq([txIndex : Indices, saved : Storage])
  /\ \A k \in DOMAIN calls : Bounded(calls[k].saved)

\* The counter of a transaction is the number of owners that stand by it,
\* through every order of confirming, revoking, re-entering and reverting
\* (numConfirmations and isConfirmed are kept apart in the contract).
CountExact ==
  \A i \in DOMAIN storage.transactions :
    storage.transactions[i].numConfirmations = Cardinality(storage.isConfirmed[i])

\* An executed transaction has a quorum of owners behind it, and keeps it
\* (executeTransaction's requirement; revokeConfirmation refuses once executed).
Quorum ==
  \A i \in DOMAIN storage.transactions :
    storage.transactions[i].executed =>
      Cardinality(storage.isConfirmed[i]) >= Required

\* The call of a transaction takes effect at most once, also when its recipient
\* enters the wallet again before it returns (executed is set before the call).
Once == \A i \in Indices : storage.runs[i] <= 1

\* Wei sent by the transactions up to the n-th that are marked executed.
Spent[n \in 0..MaxTransactions] ==
  IF n = 0 THEN 0
  ELSE Spent[n - 1] + IF txExists(n) /\ ~notExecuted(n)
                      THEN Payment(storage.transactions[n]) ELSE 0

\* The wallet holds what it received less what executed transactions sent: a
\* reverted execution costs nothing, and none is paid for twice.
Accounted == storage.balance + Spent[MaxTransactions] = storage.received

\* Seen from the chain the wallet keeps its promise: what counts while calls are
\* under way is the storage before the outermost of them.
Committed == IF calls = <<>> THEN storage ELSE calls[1].saved

Proposals(s) ==
  [i \in DOMAIN s.transactions |->
     [to |-> s.transactions[i].to, value |-> s.transactions[i].value]]
Approvals(s) == [i \in DOMAIN s.transactions |-> s.isConfirmed[i]]
Done(s) == {i \in DOMAIN s.transactions : s.transactions[i].executed}

Promise == INSTANCE MultiSigPromise
             WITH Quorums <- {q \in SUBSET Owners : Cardinality(q) >= Required},
                  proposals <- Proposals(Committed),
                  approvals <- Approvals(Committed),
                  done <- Done(Committed)

\* Each committed transaction of the chain, nested and partly reverted as it may
\* be, only adds proposals, settles approved ones for good, and alters nothing
\* that was settled.
PromiseKept == Promise!Spec
=============================================================================
