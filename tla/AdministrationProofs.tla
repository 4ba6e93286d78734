------------------------- MODULE AdministrationProofs -------------------------
(***************************************************************************)
(* For any owners, quorum, requests and bounds: the counters of the wallet *)
(* are exact, what is executed has and keeps its quorum, no call takes     *)
(* effect twice, every wei is accounted for, and the wallet implements     *)
(* MultiSigPromise; the wallet that administers the relayer is such a      *)
(* wallet still, and what only the wallet may do has a quorum behind it.   *)
(*                                                                         *)
(* The wallet: a revert brings back an earlier storage, so no fact about   *)
(* the storage alone is inductive.  IInv says of every saved copy what it  *)
(* says of the storage (Sound), and orders the copies: each is a past of   *)
(* those saved after it and of the storage (Evolves).                      *)
(*                                                                         *)
(* Its administration: a step of ANext is a step of Next.  What the proxy  *)
(* and the scripts rely on is a transaction that was executed for good,    *)
(* that is, in the storage committed to the chain, which a failed          *)
(* execution does not take back.                                           *)
(***************************************************************************)
EXTENDS Administration, SequenceTheorems, FiniteSetTheorems, WellFoundedInduction, TLAPS

Executed(s, i) == i \in DOMAIN s.transactions /\ s.transactions[i].executed

\* f adds up what the executed transactions of s sent.
Sent(s, i) == IF Executed(s, i) THEN Payment(s.transactions[i]) ELSE 0
Tally(f, s) ==
  /\ f \in [0..MaxTransactions -> Nat]
  /\ f[0] = 0
  /\ \A i \in Indices : Sent(s, i) = f[i] - f[i - 1]
Balanced(s) == \E f : Tally(f, s) /\ s.balance + f[MaxTransactions] = s.received

\* What holds of a storage by itself.
Sound(s) ==
  /\ s \in Storage /\ Bounded(s)
  /\ \A i \in DOMAIN s.transactions :
       s.transactions[i].numConfirmations = Cardinality(s.isConfirmed[i])
  /\ \A i \in Indices \ DOMAIN s.transactions : s.isConfirmed[i] = {}
  /\ \A i \in DOMAIN s.transactions :
       s.transactions[i].executed => Cardinality(s.isConfirmed[i]) >= Required
  /\ \A i \in Indices : s.runs[i] = IF Executed(s, i) THEN 1 ELSE 0
  /\ Balanced(s)

\* t may follow s: transactions are only added, and one that was executed stays
\* as it is.
Evolves(s, t) ==
  /\ DOMAIN s.transactions \subseteq DOMAIN t.transactions
  /\ \A i \in DOMAIN s.transactions :
       /\ t.transactions[i].to = s.transactions[i].to
       /\ t.transactions[i].value = s.transactions[i].value
       /\ s.transactions[i].executed =>
            t.transactions[i].executed /\ t.isConfirmed[i] = s.isConfirmed[i]

IInv ==
  /\ Sound(storage)
  /\ calls \in Seq([txIndex : Indices, saved : Storage])
  /\ \A k \in DOMAIN calls : Sound(calls[k].saved) /\ Evolves(calls[k].saved, storage)
  /\ \A k, l \in DOMAIN calls : k < l => Evolves(calls[k].saved, calls[l].saved)

LEMMA EvolvesOn ==
  ASSUME NEW s, NEW t, NEW u, Evolves(s, t), Evolves(t, u)
  PROVE  Evolves(s, u)
BY DEF Evolves

-----------------------------------------------------------------------------
(* Each function that returns leaves a sound storage that follows the one   *)
(* it found.                                                               *)

Changes == Sound(storage') /\ Evolves(storage, storage')

LEMMA Shape ==
  ASSUME Sound(storage)
  PROVE  /\ storage.transactions \in Seq(Transaction)
         /\ DOMAIN storage.transactions = 1..Len(storage.transactions)
         /\ DOMAIN storage.transactions \subseteq Indices
         /\ \A i \in DOMAIN storage.transactions : storage.transactions[i] \in Transaction
         /\ storage.isConfirmed \in [Indices -> SUBSET Owners]
         /\ storage.balance \in Nat /\ storage.received \in Nat
         /\ storage.runs \in [Indices -> Nat]
<1>1. storage \in Storage /\ Len(storage.transactions) <= MaxTransactions
  BY DEF Sound, Bounded
<1>2. storage.transactions \in Seq(Transaction)
  BY <1>1 DEF Storage
<1> QED BY <1>1, <1>2, MultiSigAssumption DEF Storage, Indices

\* What is received or only bookkeeping of confirmations leaves the sum as it is.
LEMMA SameTally ==
  ASSUME NEW s, NEW t, Balanced(s), s.balance \in Nat, s.received \in Nat,
         NEW n \in Nat, t.balance = s.balance + n, t.received = s.received + n,
         \A i \in Indices : Sent(t, i) = Sent(s, i)
  PROVE  Balanced(t)
<1>1. PICK f : Tally(f, s) /\ s.balance + f[MaxTransactions] = s.received
  BY DEF Balanced
<1>2. Tally(f, t)
  BY <1>1 DEF Tally
<1>3. f[MaxTransactions] \in Nat
  BY <1>1, MultiSigAssumption DEF Tally
<1> QED BY <1>1, <1>2, <1>3 DEF Balanced

\* A transaction that is marked executed adds its payment from its place on.
LEMMA LongerTally ==
  ASSUME NEW s, NEW t, Balanced(s), s.balance \in Nat, s.received \in Nat,
         NEW i \in Indices, NEW paid \in Nat,
         t.balance = s.balance - paid, t.received = s.received,
         Sent(s, i) = 0, Sent(t, i) = paid,
         \A k \in Indices \ {i} : Sent(t, k) = Sent(s, k)
  PROVE  Balanced(t)
<1>1. PICK f : Tally(f, s) /\ s.balance + f[MaxTransactions] = s.received
  BY DEF Balanced
<1> DEFINE g == [n \in 0..MaxTransactions |-> IF n < i THEN f[n] ELSE f[n] + paid]
<1>2. MaxTransactions \in Nat /\ i \in 1..MaxTransactions
  BY MultiSigAssumption DEF Indices
<1>3. g \in [0..MaxTransactions -> Nat] /\ g[0] = 0
  BY <1>1, <1>2 DEF Tally
<1>4. ASSUME NEW k \in Indices
      PROVE  Sent(t, k) = g[k] - g[k - 1]
  <2>1. /\ k \in 0..MaxTransactions /\ k - 1 \in 0..MaxTransactions
        /\ f[k] \in Nat /\ f[k - 1] \in Nat /\ Sent(s, k) = f[k] - f[k - 1]
    BY <1>1, <1>2 DEF Tally, Indices
  <2>2. CASE k = i
    <3>1. Sent(t, k) = paid /\ f[k] = f[k - 1]
      BY <2>1, <2>2
    <3>2. g[k] = f[k] + paid /\ g[k - 1] = f[k - 1]
      BY <1>2, <2>1, <2>2
    <3> QED BY <2>1, <3>1, <3>2
  <2>3. CASE k # i
    <3>1. Sent(t, k) = f[k] - f[k - 1]
      BY <2>1, <2>3
    <3>2. \/ g[k] = f[k] /\ g[k - 1] = f[k - 1]
          \/ g[k] = f[k] + paid /\ g[k - 1] = f[k - 1] + paid
      BY <1>2, <2>1, <2>3
    <3> QED BY <2>1, <3>1, <3>2
  <2> QED BY <2>2, <2>3
<1>5. Tally(g, t)
  BY <1>3, <1>4 DEF Tally
<1>6. t.balance + g[MaxTransactions] = t.received
  BY <1>1, <1>2 DEF Tally
<1> QED BY <1>5, <1>6 DEF Balanced

LEMMA Received == ASSUME Sound(storage), receive PROVE Changes
<1>1. /\ storage'.transactions = storage.transactions
      /\ storage'.isConfirmed = storage.isConfirmed
      /\ storage'.runs = storage.runs
      /\ storage'.balance = storage.balance + 1
      /\ storage'.received = storage.received + 1
      /\ storage' \in [transactions : {storage'.transactions}, isConfirmed : {storage'.isConfirmed},
                       balance : {storage'.balance}, received : {storage'.received},
                       runs : {storage'.runs}]
  BY DEF receive, Sound, Storage
<1>2. storage' \in Storage
  BY <1>1, Shape DEF Storage
<1>3. Balanced(storage')
  <2>1. \A i \in Indices : Sent(storage', i) = Sent(storage, i)
    BY <1>1 DEF Sent, Executed
  <2>2. Balanced(storage)
    BY DEF Sound
  <2> QED BY <1>1, <2>1, <2>2, Shape, SameTally
<1> QED BY <1>1, <1>2, <1>3 DEF Changes, Sound, Evolves, Executed, Bounded

\* No owner has confirmed a transaction that is not submitted yet.
LEMMA Submitted ==
  ASSUME Sound(storage), NEW sender, NEW to \in Recipients, NEW value \in Values,
         submitTransaction(sender, to, value)
  PROVE  Changes
<1> DEFINE t == [to |-> to, value |-> value, executed |-> FALSE, numConfirmations |-> 0]
           n == Len(storage.transactions)
<1>1. /\ storage'.transactions = Append(storage.transactions, t)
      /\ storage'.isConfirmed = storage.isConfirmed
      /\ storage'.runs = storage.runs
      /\ storage' \in Storage
      /\ n < MaxTransactions
  <2>1. t \in Transaction
    BY DEF Transaction
  <2>2. Append(storage.transactions, t) \in Seq(Transaction)
    BY <2>1, Shape, AppendProperties
  <2> QED BY <2>2 DEF submitTransaction, Sound, Storage
<1>2. /\ Len(storage'.transactions) = n + 1 /\ n \in Nat
      /\ DOMAIN storage'.transactions = 1..(n + 1)
      /\ \A i \in 1..n : storage'.transactions[i] = storage.transactions[i]
      /\ storage'.transactions[n + 1] = t
  BY <1>1, Shape, AppendProperties
<1>3. n + 1 \in Indices \ DOMAIN storage.transactions
  BY <1>1, <1>2, Shape, MultiSigAssumption DEF Indices
<1>4. storage.isConfirmed[n + 1] = {} /\ storage.runs[n + 1] = 0
  BY <1>3 DEF Sound, Executed
<1>5. Cardinality({}) = 0
  BY FS_EmptySet
<1>6. Sound(storage')
  <2>1. \A i \in DOMAIN storage'.transactions :
          /\ storage'.transactions[i].numConfirmations = Cardinality(storage'.isConfirmed[i])
          /\ storage'.transactions[i].executed => Cardinality(storage'.isConfirmed[i]) >= Required
    <3> SUFFICES ASSUME NEW i \in DOMAIN storage'.transactions
                 PROVE  /\ storage'.transactions[i].numConfirmations = Cardinality(storage'.isConfirmed[i])
                        /\ storage'.transactions[i].executed => Cardinality(storage'.isConfirmed[i]) >= Required
      OBVIOUS
    <3>1. CASE i \in 1..n
      BY <1>1, <1>2, <3>1, Shape DEF Sound
    <3>2. CASE i = n + 1
      <4>1. /\ storage'.transactions[i].numConfirmations = 0
            /\ ~storage'.transactions[i].executed
        BY <1>2, <3>2
      <4>2. Cardinality(storage'.isConfirmed[i]) = 0
        BY <1>1, <1>4, <1>5, <3>2
      <4> QED BY <4>1, <4>2
    <3> QED BY <1>2, <3>1, <3>2
  <2>2. \A i \in Indices \ DOMAIN storage'.transactions : storage'.isConfirmed[i] = {}
    BY <1>1, <1>2, Shape DEF Sound
  <2>3. \A i \in Indices : storage'.runs[i] = IF Executed(storage', i) THEN 1 ELSE 0
    BY <1>1, <1>2, <1>4, Shape DEF Sound, Executed
  <2>4. Len(storage'.transactions) <= MaxTransactions
    BY <1>1, <1>2, MultiSigAssumption
  <2>5. Balanced(storage')
    <3>1. \A i \in Indices : Sent(storage', i) = Sent(storage, i)
      BY <1>2, Shape DEF Sent, Executed
    <3>2. Balanced(storage)
      BY DEF Sound
    <3>3. storage'.balance = storage.balance + 0 /\ storage'.received = storage.received + 0
      BY Shape DEF submitTransaction, Sound, Storage
    <3> QED BY <3>1, <3>2, <3>3, Shape, SameTally
  <2> QED BY <1>1, <2>1, <2>2, <2>3, <2>4, <2>5 DEF Sound, Bounded
<1>7. Evolves(storage, storage')
  BY <1>1, <1>2, Shape DEF Evolves
<1> QED BY <1>6, <1>7 DEF Changes

\* Confirming and revoking move one owner in or out of one transaction's set,
\* and its counter with it.
LEMMA Recounted ==
  ASSUME Sound(storage), NEW i \in DOMAIN storage.transactions,
         ~storage.transactions[i].executed,
         NEW owners \in SUBSET Owners,
         storage' = [storage EXCEPT !.transactions[i].numConfirmations = Cardinality(owners),
                                    !.isConfirmed[i] = owners]
  PROVE  Changes
<1>1. i \in Indices /\ Cardinality(owners) \in Nat
  BY Shape, FS_Subset, FS_CardinalityType, MultiSigAssumption
<1> DEFINE t == [storage.transactions[i] EXCEPT !.numConfirmations = Cardinality(owners)]
<1>2. t \in Transaction /\ ~t.executed /\ t.numConfirmations = Cardinality(owners)
      /\ t.to = storage.transactions[i].to /\ t.value = storage.transactions[i].value
  BY <1>1, Shape DEF Transaction
<1>3. /\ storage'.transactions = [storage.transactions EXCEPT ![i] = t]
      /\ storage'.isConfirmed = [storage.isConfirmed EXCEPT ![i] = owners]
      /\ storage'.runs = storage.runs
      /\ storage'.balance = storage.balance
      /\ storage'.received = storage.received
      /\ storage' \in [transactions : {storage'.transactions}, isConfirmed : {storage'.isConfirmed},
                       balance : Nat, received : Nat, runs : {storage'.runs}]
  BY <1>1, Shape DEF Sound, Storage
<1>4. /\ storage'.transactions \in Seq(Transaction)
      /\ Len(storage'.transactions) = Len(storage.transactions)
      /\ DOMAIN storage'.transactions = DOMAIN storage.transactions
      /\ storage'.transactions[i] = t
      /\ \A k \in DOMAIN storage.transactions \ {i} :
           storage'.transactions[k] = storage.transactions[k]
  BY <1>2, <1>3, Shape, ExceptSeq
<1>5. /\ storage'.isConfirmed \in [Indices -> SUBSET Owners]
      /\ storage'.isConfirmed[i] = owners
      /\ \A k \in Indices \ {i} : storage'.isConfirmed[k] = storage.isConfirmed[k]
  BY <1>1, <1>3, Shape
<1>6. storage' \in Storage
  BY <1>3, <1>4, <1>5, Shape DEF Storage
<1>7. Sound(storage')
  <2>1. \A k \in DOMAIN storage'.transactions :
          /\ storage'.transactions[k].numConfirmations = Cardinality(storage'.isConfirmed[k])
          /\ storage'.transactions[k].executed => Cardinality(storage'.isConfirmed[k]) >= Required
    BY <1>2, <1>4, <1>5, Shape DEF Sound
  <2>2. \A k \in Indices \ DOMAIN storage'.transactions : storage'.isConfirmed[k] = {}
    BY <1>4, <1>5 DEF Sound
  <2>3. \A k \in Indices : storage'.runs[k] = IF Executed(storage', k) THEN 1 ELSE 0
    BY <1>2, <1>3, <1>4 DEF Sound, Executed
  <2>4. Balanced(storage')
    <3>1. \A k \in Indices : Sent(storage', k) = Sent(storage, k)
      BY <1>2, <1>4 DEF Sent, Executed
    <3>2. Balanced(storage)
      BY DEF Sound
    <3>3. storage'.balance = storage.balance + 0 /\ storage'.received = storage.received + 0
      BY <1>3, Shape
    <3> QED BY <3>1, <3>2, <3>3, Shape, SameTally
  <2> QED BY <1>4, <1>6, <2>1, <2>2, <2>3, <2>4 DEF Sound, Bounded
<1>8. Evolves(storage, storage')
  BY <1>2, <1>4, <1>5, Shape DEF Evolves
<1> QED BY <1>7, <1>8 DEF Changes

LEMMA Confirmed ==
  ASSUME Sound(storage), NEW sender, NEW i \in Indices, confirmTransaction(sender, i)
  PROVE  Changes
<1>1. /\ sender \in Owners /\ i \in DOMAIN storage.transactions
      /\ ~storage.transactions[i].executed
      /\ sender \notin storage.isConfirmed[i]
      /\ storage' = [storage EXCEPT !.transactions[i].numConfirmations = @ + 1,
                                    !.isConfirmed[i] = @ \cup {sender}]
  BY DEF confirmTransaction, onlyOwner, txExists, notExecuted, notConfirmed
<1> DEFINE owners == storage.isConfirmed[i] \cup {sender}
<1>2. IsFiniteSet(storage.isConfirmed[i]) /\ storage.isConfirmed[i] \subseteq Owners
  BY Shape, FS_Subset, MultiSigAssumption
<1>3. Cardinality(owners) = Cardinality(storage.isConfirmed[i]) + 1
  BY <1>1, <1>2, FS_AddElement
<1>4. Cardinality(owners) = storage.transactions[i].numConfirmations + 1
  BY <1>1, <1>3 DEF Sound
<1>5. storage' = [storage EXCEPT !.transactions[i].numConfirmations = Cardinality(owners),
                                 !.isConfirmed[i] = owners]
  BY <1>1, <1>4
<1>6. owners \in SUBSET Owners
  BY <1>1, <1>2
<1> HIDE DEF owners
<1> QED BY <1>1, <1>5, <1>6, Recounted

LEMMA Revoked ==
  ASSUME Sound(storage), NEW sender, NEW i \in Indices, revokeConfirmation(sender, i)
  PROVE  Changes
<1>1. /\ i \in DOMAIN storage.transactions
      /\ ~storage.transactions[i].executed
      /\ sender \in storage.isConfirmed[i]
      /\ storage' = [storage EXCEPT !.transactions[i].numConfirmations = @ - 1,
                                    !.isConfirmed[i] = @ \ {sender}]
  BY DEF revokeConfirmation, txExists, notExecuted
<1> DEFINE owners == storage.isConfirmed[i] \ {sender}
<1>2. IsFiniteSet(storage.isConfirmed[i]) /\ storage.isConfirmed[i] \subseteq Owners
  BY Shape, FS_Subset, MultiSigAssumption
<1>3. Cardinality(owners) = Cardinality(storage.isConfirmed[i]) - 1
  BY <1>1, <1>2, FS_RemoveElement
<1>4. Cardinality(owners) = storage.transactions[i].numConfirmations - 1
  BY <1>1, <1>3 DEF Sound
<1>5. storage' = [storage EXCEPT !.transactions[i].numConfirmations = Cardinality(owners),
                                 !.isConfirmed[i] = owners]
  BY <1>1, <1>4
<1>6. owners \in SUBSET Owners
  BY <1>1, <1>2
<1> HIDE DEF owners
<1> QED BY <1>1, <1>5, <1>6, Recounted

LEMMA Executes ==
  ASSUME Sound(storage), NEW sender, NEW i \in Indices, executeTransaction(sender, i)
  PROVE  Changes
<1>1. /\ i \in DOMAIN storage.transactions
      /\ ~storage.transactions[i].executed
      /\ storage.transactions[i].numConfirmations >= Required
      /\ storage.balance >= storage.transactions[i].value
      /\ storage' = [storage EXCEPT !.transactions[i].executed = TRUE,
                                    !.balance = @ - Payment(storage.transactions[i]),
                                    !.runs[i] = @ + 1]
  BY DEF executeTransaction, txExists, notExecuted
<1> DEFINE t == [storage.transactions[i] EXCEPT !.executed = TRUE]
<1>2. t \in Transaction /\ t.executed /\ t.to = storage.transactions[i].to
      /\ t.value = storage.transactions[i].value
      /\ t.numConfirmations = storage.transactions[i].numConfirmations
  BY <1>1, Shape DEF Transaction
<1>3. /\ storage.balance - Payment(storage.transactions[i]) \in Nat
      /\ Payment(storage.transactions[i]) \in Nat
  <2>1. storage.transactions[i].value \in Nat
    BY <1>1, Shape, MultiSigAssumption DEF Transaction
  <2> QED BY <1>1, <2>1, Shape DEF Payment
<1>4. /\ storage'.transactions = [storage.transactions EXCEPT ![i] = t]
      /\ storage'.isConfirmed = storage.isConfirmed
      /\ storage'.runs = [storage.runs EXCEPT ![i] = @ + 1]
      /\ storage' \in [transactions : {storage'.transactions}, isConfirmed : {storage'.isConfirmed},
                       balance : Nat, received : Nat, runs : {storage'.runs}]
  BY <1>1, <1>3, Shape DEF Sound, Storage
<1>5. /\ storage'.transactions \in Seq(Transaction)
      /\ Len(storage'.transactions) = Len(storage.transactions)
      /\ DOMAIN storage'.transactions = DOMAIN storage.transactions
      /\ storage'.transactions[i] = t
      /\ \A k \in DOMAIN storage.transactions \ {i} :
           storage'.transactions[k] = storage.transactions[k]
  BY <1>1, <1>2, <1>4, Shape, ExceptSeq
<1>6. /\ storage'.runs \in [Indices -> Nat]
      /\ storage'.runs[i] = storage.runs[i] + 1
      /\ \A k \in Indices \ {i} : storage'.runs[k] = storage.runs[k]
  BY <1>4, Shape
<1>7. storage' \in Storage
  BY <1>4, <1>5, <1>6, Shape DEF Storage
<1>8. Sound(storage')
  <2>1. \A k \in DOMAIN storage'.transactions :
          /\ storage'.transactions[k].numConfirmations = Cardinality(storage'.isConfirmed[k])
          /\ storage'.transactions[k].executed => Cardinality(storage'.isConfirmed[k]) >= Required
    BY <1>1, <1>2, <1>4, <1>5, Shape DEF Sound
  <2>2. \A k \in Indices \ DOMAIN storage'.transactions : storage'.isConfirmed[k] = {}
    BY <1>4, <1>5 DEF Sound
  <2>3. \A k \in Indices : storage'.runs[k] = IF Executed(storage', k) THEN 1 ELSE 0
    BY <1>1, <1>2, <1>5, <1>6 DEF Sound, Executed
  <2>4. Balanced(storage')
    <3> DEFINE paid == Payment(storage.transactions[i])
    <3>1. i \in Indices /\ Sent(storage, i) = 0
      BY <1>1, Shape DEF Sent, Executed
    <3>2. Sent(storage', i) = paid
      BY <1>1, <1>2, <1>5 DEF Sent, Executed, Payment
    <3>3. \A k \in Indices \ {i} : Sent(storage', k) = Sent(storage, k)
      BY <1>5 DEF Sent, Executed
    <3>4. storage'.balance = storage.balance - paid /\ storage'.received = storage.received
      BY <1>1, Shape DEF Sound, Storage
    <3>5. Balanced(storage)
      BY DEF Sound
    <3>6. paid \in Nat
      BY <1>3
    <3> HIDE DEF paid
    <3> QED BY <3>1, <3>2, <3>3, <3>4, <3>5, <3>6, Shape, LongerTally
  <2> QED BY <1>5, <1>7, <2>1, <2>2, <2>3, <2>4 DEF Sound, Bounded
<1>9. Evolves(storage, storage')
  BY <1>1, <1>2, <1>4, <1>5, Shape DEF Evolves
<1> QED BY <1>8, <1>9 DEF Changes

-----------------------------------------------------------------------------
(* The saved copies: a function keeps them, an execution adds the storage   *)
(* it found, the end of a call drops the last.                             *)

Frame == [txIndex : Indices, saved : Storage]

LEMMA KeepsCopies ==
  ASSUME IInv, Changes, UNCHANGED calls
  PROVE  IInv'
<1>1. \A k \in DOMAIN calls : Evolves(calls[k].saved, storage')
  BY EvolvesOn DEF IInv, Changes
<1> QED BY <1>1 DEF IInv, Changes

LEMMA AddsCopy ==
  ASSUME IInv, Changes, NEW i \in Indices,
         calls' = Append(calls, [txIndex |-> i, saved |-> storage])
  PROVE  IInv'
<1> DEFINE frame == [txIndex |-> i, saved |-> storage]
           n == Len(calls)
<1>1. frame \in Frame /\ calls \in Seq(Frame)
  BY DEF IInv, Sound, Frame
<1>2. /\ calls' \in Seq(Frame) /\ n \in Nat
      /\ DOMAIN calls = 1..n /\ DOMAIN calls' = 1..(n + 1)
      /\ \A k \in 1..n : calls'[k] = calls[k]
      /\ calls'[n + 1].saved = storage
  BY <1>1, AppendProperties
<1>3. ASSUME NEW k \in DOMAIN calls'
      PROVE  Sound(calls'[k].saved) /\ Evolves(calls'[k].saved, storage')
  <2>1. CASE k = n + 1
    BY <1>2, <2>1 DEF IInv, Changes
  <2>2. CASE k \in DOMAIN calls
    BY <1>2, <2>2, EvolvesOn DEF IInv, Changes
  <2> QED BY <1>2, <2>1, <2>2
<1>4. ASSUME NEW k \in DOMAIN calls', NEW l \in DOMAIN calls', k < l
      PROVE  Evolves(calls'[k].saved, calls'[l].saved)
  <2>1. k \in DOMAIN calls
    BY <1>2, <1>4
  <2>2. CASE l = n + 1
    BY <1>2, <2>1, <2>2 DEF IInv
  <2>3. CASE l \in DOMAIN calls
    BY <1>2, <1>4, <2>1, <2>3 DEF IInv
  <2> QED BY <1>2, <2>2, <2>3
<1> QED BY <1>2, <1>3, <1>4 DEF IInv, Changes, Frame

\* What is left of the copies when the innermost execution ends.
LEMMA OuterCopies ==
  ASSUME IInv, calls # <<>>, calls' = Outer
  PROVE  /\ Len(calls) \in DOMAIN calls
         /\ calls' \in Seq(Frame)
         /\ Len(calls') = Len(calls) - 1
         /\ \A k \in DOMAIN calls' : k \in DOMAIN calls /\ k < Len(calls) /\ calls'[k] = calls[k]
<1>1. calls \in Seq(Frame)
  BY DEF IInv, Frame
<1>2. Len(calls) \in Nat /\ DOMAIN calls = 1..Len(calls) /\ Len(calls) # 0
  BY <1>1, EmptySeq
<1>3. /\ Outer \in Seq(Frame) /\ Len(Outer) = Len(calls) - 1
      /\ \A k \in 1..(Len(calls) - 1) : Outer[k] = calls[k]
  BY <1>1, <1>2, SubSeqProperties DEF Outer
<1> QED BY <1>2, <1>3

LEMMA Returned ==
  ASSUME IInv, CallReturns
  PROVE  IInv'
<1>1. calls # <<>> /\ calls' = Outer /\ storage' = storage
  BY DEF CallReturns
<1>2. /\ calls' \in Seq(Frame)
      /\ \A k \in DOMAIN calls' : k \in DOMAIN calls /\ calls'[k] = calls[k]
  BY <1>1, OuterCopies
<1> QED BY <1>1, <1>2 DEF IInv, Frame

LEMMA Failed ==
  ASSUME IInv, CallFails
  PROVE  IInv'
<1>1. calls # <<>> /\ calls' = Outer /\ storage' = calls[Len(calls)].saved
  BY DEF CallFails, Innermost
<1>2. /\ calls' \in Seq(Frame) /\ Len(calls) \in DOMAIN calls
      /\ \A k \in DOMAIN calls' : k \in DOMAIN calls /\ k < Len(calls) /\ calls'[k] = calls[k]
  BY <1>1, OuterCopies
<1>3. Sound(storage')
  BY <1>1, <1>2 DEF IInv
<1>4. \A k \in DOMAIN calls' : Sound(calls'[k].saved) /\ Evolves(calls'[k].saved, storage')
  BY <1>1, <1>2 DEF IInv
<1>5. \A k, l \in DOMAIN calls' : k < l => Evolves(calls'[k].saved, calls'[l].saved)
  BY <1>2 DEF IInv
<1> QED BY <1>2, <1>3, <1>4, <1>5 DEF IInv, Frame

\* What a step does: a function returns, an execution begins, or one ends.
Returns == Changes /\ UNCHANGED calls
Begins(i) == Changes /\ calls' = Append(calls, [txIndex |-> i, saved |-> storage])

LEMMA Steps ==
  ASSUME IInv, [Next]_vars
  PROVE  \/ Returns \/ CallReturns \/ CallFails \/ UNCHANGED vars
         \/ \E i \in Indices : Begins(i)
<1>0. Sound(storage)
  BY DEF IInv
<1>1. CASE receive
  BY <1>0, <1>1, Received DEF receive, Returns
<1>2. ASSUME NEW sender \in Accounts, NEW to \in Recipients, NEW value \in Values,
             submitTransaction(sender, to, value)
      PROVE  Returns
  BY <1>0, <1>2, Submitted DEF submitTransaction, Returns
<1>3. ASSUME NEW sender \in Accounts, NEW i \in Indices, confirmTransaction(sender, i)
      PROVE  Returns
  BY <1>0, <1>3, Confirmed DEF confirmTransaction, Returns
<1>4. ASSUME NEW sender \in Accounts, NEW i \in Indices, revokeConfirmation(sender, i)
      PROVE  Returns
  BY <1>0, <1>4, Revoked DEF revokeConfirmation, Returns
<1>5. ASSUME NEW sender \in Accounts, NEW i \in Indices, executeTransaction(sender, i)
      PROVE  Begins(i)
  BY <1>0, <1>5, Executes DEF executeTransaction, Begins
<1> QED BY <1>1, <1>2, <1>3, <1>4, <1>5 DEF Next

LEMMA Initially == Init => IInv
<1> SUFFICES ASSUME Init PROVE IInv
  OBVIOUS
<1>1. /\ storage.transactions = <<>>
      /\ storage.isConfirmed = [i \in Indices |-> {}]
      /\ storage.runs = [i \in Indices |-> 0]
      /\ calls = <<>>
  BY DEF Init
<1>2. storage \in Storage /\ Bounded(storage)
  <2>1. <<>> \in Seq(Transaction) /\ Len(<<>>) = 0
    OBVIOUS
  <2>2. /\ [i \in Indices |-> {}] \in [Indices -> SUBSET Owners]
        /\ [i \in Indices |-> 0] \in [Indices -> Nat]
    OBVIOUS
  <2>3. storage \in Storage
    BY <2>1, <2>2 DEF Init, Storage
  <2> QED BY <1>1, <2>1, <2>3, MultiSigAssumption DEF Bounded
<1>3. Balanced(storage)
  <2> DEFINE none == [n \in 0..MaxTransactions |-> 0]
  <2>1. \A i \in Indices : Sent(storage, i) = 0
    BY <1>1 DEF Sent, Executed
  <2>2. /\ \A n \in 0..MaxTransactions : none[n] = 0
        /\ \A i \in Indices : i \in 0..MaxTransactions /\ i - 1 \in 0..MaxTransactions
        /\ 0 \in 0..MaxTransactions /\ MaxTransactions \in 0..MaxTransactions
    BY MultiSigAssumption DEF Indices
  <2>3. Tally(none, storage)
    BY <2>1, <2>2 DEF Tally
  <2>4. storage.balance + none[MaxTransactions] = storage.received
    BY <2>2 DEF Init
  <2> QED BY <2>3, <2>4 DEF Balanced
<1>4. Sound(storage)
  BY <1>1, <1>2, <1>3 DEF Sound, Executed
<1> QED BY <1>1, <1>4 DEF IInv

LEMMA Preserved == IInv /\ [Next]_vars => IInv'
<1> SUFFICES ASSUME IInv, [Next]_vars PROVE IInv'
  OBVIOUS
<1>1. CASE Returns
  BY <1>1, KeepsCopies DEF Returns
<1>2. ASSUME NEW i \in Indices, Begins(i) PROVE IInv'
  BY <1>2, AddsCopy DEF Begins
<1>3. CASE UNCHANGED vars
  BY <1>3 DEF vars, IInv
<1> QED BY <1>1, <1>2, <1>3, Returned, Failed, Steps

LEMMA Invariance == Spec => []IInv
BY Initially, Preserved, PTL DEF Spec

-----------------------------------------------------------------------------
(* The theorems.                                                           *)

\* The storage and every copy of it keep their shape; only owners confirm.
THEOREM TypeCorrect == Spec => []TypeOK
<1>1. IInv => TypeOK
  BY DEF IInv, Sound, TypeOK
<1> QED BY <1>1, Invariance, PTL

\* The counter of confirmations is exact, whatever is re-entered or reverted.
THEOREM CountsExact == Spec => []CountExact
<1>1. IInv => CountExact
  BY DEF IInv, Sound, CountExact
<1> QED BY <1>1, Invariance, PTL

\* What is marked executed has a quorum of owners behind it, now and later.
THEOREM QuorumKept == Spec => []Quorum
<1>1. IInv => Quorum
  BY DEF IInv, Sound, Quorum
<1> QED BY <1>1, Invariance, PTL

\* No call takes effect twice, however deep executions nest.
THEOREM RunsOnce == Spec => []Once
<1>1. IInv => Once
  BY DEF IInv, Sound, Once
<1> QED BY <1>1, Invariance, PTL

-----------------------------------------------------------------------------
(* Where the money went.  Accounted speaks of a recursive function: it is    *)
(* the tally of Balanced, by induction on the number of transactions.      *)

\* A set of naturals that is not empty has a least element.
LEMMA LeastNatural ==
  ASSUME NEW S \in SUBSET Nat, S # {}
  PROVE  \E n \in S : \A m \in S : n <= m
<1>1. \A x, y \in Nat : y < x => <<y, x>> \in OpToRel(<, Nat)
  BY DEF OpToRel
<1>2. PICK R : IsWellFoundedOn(R, Nat) /\ \A x, y \in Nat : y < x => <<y, x>> \in R
  BY <1>1, NatLessThanWellFounded, Zenon
<1>3. PICK n \in S : \A m \in S : <<m, n>> \notin R
  BY <1>2, WFMin
<1>4. \A m \in S : ~(m < n)
  BY <1>2, <1>3, Zenon
<1> QED BY <1>4

\* Induction, for a set in place of a predicate.
LEMMA InductionOnSet ==
  ASSUME NEW S, 0 \in S, \A n \in Nat : n \in S => n + 1 \in S
  PROVE  Nat \subseteq S
<1> SUFFICES ASSUME Nat \ S # {} PROVE FALSE
  OBVIOUS
<1>1. PICK n \in Nat \ S : \A m \in Nat \ S : n <= m
  BY LeastNatural
<1>2. n - 1 \in Nat
  BY <1>1
<1>3. n - 1 \in S
  BY <1>1, <1>2
<1> QED BY <1>1, <1>2, <1>3

\* Spent is the tally.
LEMMA SpentIsTally ==
  ASSUME NEW f, Tally(f, storage)
  PROVE  \A n \in 0..MaxTransactions : Spent[n] = f[n]
<1> DEFINE Cost(n) == IF txExists(n) /\ ~notExecuted(n)
                      THEN Payment(storage.transactions[n]) ELSE 0
           Step(g) == [n \in 0..MaxTransactions |-> IF n = 0 THEN 0 ELSE g[n - 1] + Cost(n)]
<1>1. MaxTransactions \in Nat /\ \A n \in Nat : n \in 0..MaxTransactions /\ n # 0 => n \in Indices
  BY MultiSigAssumption DEF Indices
<1>2. \A n : Cost(n) = Sent(storage, n)
  BY DEF Sent, Executed, txExists, notExecuted
<1>3. Spent = CHOOSE g : g = Step(g)
  BY DEF Spent
<1> HIDE DEF Cost
<1>4. f = Step(f)
  <2>1. \A n \in 0..MaxTransactions \ {0} :
          f[n] \in Nat /\ f[n - 1] \in Nat /\ Cost(n) = f[n] - f[n - 1]
    <3> SUFFICES ASSUME NEW n \in 0..MaxTransactions \ {0}
                 PROVE  f[n] \in Nat /\ f[n - 1] \in Nat /\ Cost(n) = f[n] - f[n - 1]
      OBVIOUS
    <3>1. n \in Indices /\ n - 1 \in 0..MaxTransactions
      BY <1>1
    <3>2. f[n] \in Nat /\ f[n - 1] \in Nat
      BY <3>1 DEF Tally
    <3>3. Sent(storage, n) = f[n] - f[n - 1]
      BY <3>1 DEF Tally
    <3> QED BY <1>2, <3>2, <3>3
  <2>2. \A n \in 0..MaxTransactions : f[n] = IF n = 0 THEN 0 ELSE f[n - 1] + Cost(n)
    BY <2>1 DEF Tally
  <2> QED BY <2>2 DEF Tally
<1>5. Spent = Step(Spent)
  BY <1>3, <1>4
<1> DEFINE S == {n \in Nat : n \in 0..MaxTransactions => Spent[n] = f[n]}
<1>6. 0 \in S
  BY <1>1, <1>5 DEF Tally
<1>7. ASSUME NEW n \in Nat, n \in S
      PROVE  n + 1 \in S
  <2> SUFFICES ASSUME n + 1 \in 0..MaxTransactions
               PROVE  Spent[n + 1] = f[n + 1]
    OBVIOUS
  <2>1. n \in 0..MaxTransactions /\ (n + 1) - 1 = n /\ n + 1 # 0
    BY <1>1
  <2>2. Spent[n + 1] = Spent[n] + Cost(n + 1)
    BY <1>5, <2>1
  <2>3. f[n + 1] = f[n] + Cost(n + 1)
    BY <1>4, <2>1
  <2> QED BY <1>7, <2>1, <2>2, <2>3
<1> HIDE DEF S
<1>8. Nat \subseteq S
  BY <1>6, <1>7, InductionOnSet
<1> QED BY <1>1, <1>8 DEF S

\* The wallet's balance is what it was sent less what executed transactions
\* sent on, through every nested, failed and reverted execution.
THEOREM NothingUnaccounted == Spec => []Accounted
<1>1. IInv => Accounted
  <2> SUFFICES ASSUME IInv PROVE Accounted
    OBVIOUS
  <2>1. PICK f : Tally(f, storage) /\ storage.balance + f[MaxTransactions] = storage.received
    BY DEF IInv, Sound, Balanced
  <2>2. Spent[MaxTransactions] = f[MaxTransactions]
    BY <2>1, SpentIsTally, MultiSigAssumption
  <2> QED BY <2>1, <2>2 DEF Accounted
<1> QED BY <1>1, Invariance, PTL

-----------------------------------------------------------------------------
(* The contract implements MultiSigPromise.                                *)

\* A step leaves the committed storage sound, and as it was or a successor of it.
LEMMA CommittedMoves ==
  ASSUME IInv, IInv', [Next]_vars
  PROVE  Sound(Committed') /\ (Committed' = Committed \/ Evolves(Committed, Committed'))
<1>1. Sound(Committed')
  BY EmptySeq DEF IInv, Committed
<1>2. Committed' = Committed \/ Evolves(Committed, Committed')
  <2>0. /\ calls \in Seq(Frame) /\ Len(calls) \in Nat /\ DOMAIN calls = 1..Len(calls)
        /\ calls = <<>> <=> Len(calls) = 0
    BY EmptySeq DEF IInv, Frame
  <2>1. CASE Returns
    BY <2>1 DEF Returns, Changes, Committed
  <2>2. ASSUME NEW i \in Indices, Begins(i) PROVE Committed' = Committed
    BY <2>0, <2>2 DEF Begins, Committed
  <2>3. CASE CallReturns \/ CallFails
    <3>1. calls # <<>> /\ calls' = Outer
      BY <2>3 DEF CallReturns, CallFails
    <3>2. CASE Len(calls) = 1
      <4>1. calls' = <<>> /\ Committed' = storage' /\ Committed = calls[1].saved
        BY <2>0, <3>1, <3>2, OuterCopies, EmptySeq DEF Committed
      <4>2. storage' = storage \/ storage' = calls[1].saved
        BY <2>3, <3>2 DEF CallReturns, CallFails, Innermost
      <4> QED BY <2>0, <3>2, <4>1, <4>2 DEF IInv
    <3>3. CASE Len(calls) # 1
      <4>1. Len(calls') \in Nat /\ Len(calls') # 0 /\ DOMAIN calls' = 1..Len(calls')
        BY <2>0, <3>1, <3>3, OuterCopies
      <4>2. calls' # <<>> /\ calls'[1] = calls[1]
        BY <3>1, <4>1, OuterCopies
      <4> QED BY <3>1, <4>2 DEF Committed
    <3> QED BY <3>2, <3>3
  <2>4. CASE UNCHANGED vars
    BY <2>4 DEF vars, Committed
  <2> QED BY <2>1, <2>2, <2>3, <2>4, Steps
<1> QED BY <1>1, <1>2

\* A sound storage that follows another is one step of the promise.
LEMMA OnePromisedStep ==
  ASSUME Sound(Committed'), Evolves(Committed, Committed')
  PROVE  Promise!Transact
<1>1. Promise!Kept
  BY DEF Promise!Kept, Proposals, Evolves
<1>2. Promise!Settled
  BY DEF Promise!Settled, Approvals, Done, Evolves
<1>3. Promise!Approved
  <2>1. ASSUME NEW i \in DOMAIN Committed'.transactions, Committed'.transactions[i].executed
        PROVE  /\ Committed'.isConfirmed[i] \subseteq Owners
               /\ Cardinality(Committed'.isConfirmed[i]) >= Required
    <3>1. Committed' \in Storage /\ Len(Committed'.transactions) <= MaxTransactions
      BY DEF Sound, Bounded
    <3>2. i \in Indices
      BY <3>1, MultiSigAssumption DEF Storage, Indices
    <3> QED BY <2>1, <3>1, <3>2 DEF Storage, Sound
  <2>2. Done(Committed)' = {i \in DOMAIN Committed'.transactions :
                             Committed'.transactions[i].executed}
    BY DEF Done
  <2>3. \A i \in DOMAIN Committed'.transactions :
          /\ i \in DOMAIN Proposals(Committed)'
          /\ Approvals(Committed)'[i] = Committed'.isConfirmed[i]
    BY DEF Proposals, Approvals
  <2>4. \A i \in Done(Committed)' : i \in DOMAIN Proposals(Committed)'
                                   /\ Approvals(Committed)'[i] \subseteq Owners
                                   /\ Cardinality(Approvals(Committed)'[i]) >= Required
    BY <2>1, <2>2, <2>3
  <2> QED BY <2>4 DEF Promise!Approved
<1> QED BY <1>1, <1>2, <1>3 DEF Promise!Transact

\* Every behaviour of the contract, with its nested and reverted calls, is one
\* of committed transactions that keep the promise.
THEOREM ImplementsPromise == Spec => PromiseKept
<1>1. Init => Promise!Init
  <2> SUFFICES ASSUME Init PROVE Promise!Init
    OBVIOUS
  <2>1. Committed.transactions = <<>>
    BY DEF Init, Committed
  <2>2. Proposals(Committed) = <<>> /\ Approvals(Committed) = <<>> /\ Done(Committed) = {}
    BY <2>1 DEF Proposals, Approvals, Done
  <2> QED BY <2>2 DEF Promise!Init
<1>2. IInv /\ IInv' /\ [Next]_vars => [Promise!Transact]_Promise!vars
  <2> SUFFICES ASSUME IInv, IInv', [Next]_vars PROVE [Promise!Transact]_Promise!vars
    OBVIOUS
  <2>0. (Committed' = Committed) => UNCHANGED Promise!vars
    BY DEF Promise!vars, Proposals, Approvals, Done
  <2>1. Sound(Committed') /\ (Committed' = Committed \/ Evolves(Committed, Committed'))
    BY CommittedMoves
  <2> QED BY <2>0, <2>1, OnePromisedStep
<1> QED BY <1>1, <1>2, Invariance, PTL DEF Spec, PromiseKept, Promise!Spec

-----------------------------------------------------------------------------
(* The administration of the relayer.                                      *)

\* Roles are held only by those they were granted to.
GrantsOK ==
  /\ proxy \in Proxy /\ granted \subseteq Roles \X Addresses
  /\ \A r \in Roles : \A a \in proxy.roles[r] : <<r, a>> \in granted

\* One execution at a time, of a transaction that is marked executed.
OneCall ==
  /\ Len(calls) <= 1
  /\ \A k \in DOMAIN calls : Executed(storage, calls[k].txIndex)

OnlyWallet == \A a \in Addresses : <<"ADMIN", a>> \in granted => a = Wallet

\* A transaction that lets the proxy go was executed for good.
Gone == \E i \in Indices : Executed(Committed, i) /\ LetsGo(Committed.transactions[i].to)

Kept == proxy.foreign \/ proxy.admin # Wallet => Gone

Paused ==
  proxy.paused /\ OnlyWallet =>
    \/ Gone
    \/ \E i \in Indices : Executed(Committed, i) /\ Pauses(Committed.transactions[i].to)

\* The script's own transaction is there, and it goes on with that or a later one.
ScriptOK ==
  /\ script \in Script
  /\ script.at = "idle" => script.own = 0
  /\ script.at = "submitted" => script.own # 0
  /\ script.own # 0 => /\ script.own \in DOMAIN Committed.transactions
                       /\ Committed.transactions[script.own].to = OperatorGrant
  /\ script.at \in {"counted", "confirmed", "executing", "completed"} =>
       script.index # 0 /\ script.index >= script.own
  /\ script.at = "executing" => calls # <<>> /\ Innermost.txIndex = script.index
  /\ script.at = "completed" =>
       /\ Executed(Committed, script.index)
       /\ script.index = script.own => <<"EXECUTIONER", Operator>> \in granted \/ Gone

AInv == IInv /\ GrantsOK /\ OneCall /\ Kept /\ Paused /\ ScriptOK

-----------------------------------------------------------------------------
(* The wallet.                                                             *)

\* Calls that the proxy and the scripts make, and those of owners, are the wallet's own.
LEMMA WalletStep == IInv /\ [ANext]_avars => [Next]_vars
<1> SUFFICES ASSUME IInv, [ANext]_avars PROVE [Next]_vars
  OBVIOUS
<1>0. Operator \in Accounts /\ OperatorGrant \in Recipients /\ 0 \in Values
  BY AdministrationAssumption, MultiSigAssumption
<1>1. CASE Deploy \/ ScriptCounts \/ ConfirmScript \/ ScriptFails
  BY <1>1 DEF Deploy, Direct, ScriptCounts, ConfirmScript, ScriptFails, walletUnchanged
<1>2. ASSUME NEW sender \in Accounts, OwnersCall(sender) PROVE Next
  BY <1>2 DEF OwnersCall, Next
<1>3. ASSUME NEW sender \in Accounts, NEW q \in Requests, Direct(sender, q) PROVE UNCHANGED vars
  BY <1>3 DEF Direct, walletUnchanged
<1>4. CASE ExecutionSucceeds \/ ExecutionFails
  BY <1>4 DEF ExecutionSucceeds, ExecutionFails, Next
<1>5. CASE ScriptSubmits
  BY <1>0, <1>5 DEF ScriptSubmits, Next
<1>6. ASSUME NEW i, confirmTransaction(Operator, i) \/ executeTransaction(Operator, i)
      PROVE  Next
  <2>1. i \in Indices
    BY <1>6, Shape DEF IInv, confirmTransaction, executeTransaction, txExists
  <2> QED BY <1>0, <1>6, <2>1 DEF Next
<1>7. CASE UNCHANGED avars
  BY <1>7 DEF avars
<1> QED BY <1>1, <1>2, <1>3, <1>4, <1>5, <1>6, <1>7 DEF ANext, ScriptConfirms, ScriptExecutes

\* What was executed for good stays so, and calls the same.
LEMMA GoodForGood ==
  ASSUME IInv, IInv', [Next]_vars
  PROVE  /\ \A i : Executed(Committed, i) => Executed(Committed, i)'
         /\ \A i \in DOMAIN Committed.transactions :
              /\ i \in DOMAIN Committed'.transactions
              /\ Committed'.transactions[i].to = Committed.transactions[i].to
<1>1. Committed' = Committed \/ Evolves(Committed, Committed')
  BY CommittedMoves
<1> QED BY <1>1 DEF Executed, Evolves

\* The storage is not behind the committed one.
LEMMA ForGood ==
  ASSUME IInv, NEW i, Executed(Committed, i)
  PROVE  /\ i \in Indices /\ Quorate(i) /\ i \in DOMAIN storage.transactions
         /\ storage.transactions[i].to = Committed.transactions[i].to
<1>1. Sound(storage) /\ (Committed = storage \/ Evolves(Committed, storage))
  BY EmptySeq DEF IInv, Committed
<1>2. Executed(storage, i) /\ storage.transactions[i].to = Committed.transactions[i].to
  BY <1>1 DEF Executed, Evolves
<1> QED BY <1>1, <1>2, Shape DEF Sound, Executed, Quorate

\* No contract is an owner, so that an execution begins when none is under way.
LEMMA NoneNested ==
  ASSUME NEW sender, MayCall(sender)
  PROVE  calls = <<>>
BY AdministrationAssumption DEF MayCall

\* The execution under way ends with the next step.
LEMMA CallEnds ==
  ASSUME IInv, OneCall, calls # <<>>, calls' = Outer
  PROVE  /\ Len(calls) = 1 /\ Innermost = calls[1] /\ calls' = <<>>
         /\ Executed(storage, Innermost.txIndex) /\ Committed' = storage'
         /\ Committed = Innermost.saved
<1>1. calls \in Seq(Frame)
  BY DEF IInv, Frame
<1>2. Len(calls) = 1 /\ Len(calls') = 0 /\ calls' \in Seq(Frame) /\ 1 \in DOMAIN calls
  BY <1>1, OuterCopies, EmptySeq DEF OneCall
<1>3. calls' = <<>>
  BY <1>2, EmptySeq
<1> QED BY <1>2, <1>3 DEF Innermost, Committed, OneCall

\* The transaction under execution has a quorum behind it and makes a call there is.
LEMMA Authorised ==
  ASSUME IInv, Executed(storage, Innermost.txIndex)
  PROVE  Quorate(Innermost.txIndex) /\ Called \in Request
<1>1. Sound(storage)
  BY DEF IInv
<1>2. storage.transactions[Innermost.txIndex] \in Transaction
  BY <1>1, Shape DEF Executed
<1>3. Called \in Request
  BY <1>2, AdministrationAssumption DEF Called, Transaction
<1> QED BY <1>1, <1>3 DEF Sound, Executed, Quorate

-----------------------------------------------------------------------------
(* The relayer and its proxy.                                              *)

LEMMA LogicKeeps ==
  ASSUME GrantsOK, NEW sender \in Addresses, NEW q \in Request, NEW version \in Nat,
         LogicDoes(sender, q, version)
  PROVE  /\ GrantsOK' /\ granted \subseteq granted'
         /\ proxy'.admin = proxy.admin /\ proxy'.version = version /\ ~proxy'.foreign
         /\ proxy'.paused => proxy.paused \/ q.fn = "pause"
         /\ q.fn = "grantRole" => <<q.role, q.account>> \in granted'
<1> DEFINE given == Given(sender, q)
           initialized == proxy.initialized \/ q.fn = "initialize"
           paused == proxy.paused \/ q.fn = "pause"
           roles == RolesAfter(sender, q)
<1>1. /\ proxy' = [proxy EXCEPT !.version = version, !.foreign = FALSE,
                                !.initialized = initialized, !.paused = paused,
                                !.roles = roles]
      /\ granted' = granted \cup Pairs(given)
  BY Zenon DEF LogicDoes
<1>2. given \in [Roles -> SUBSET Addresses]
  <2>1. q.fn \in {"initialize", "grantRole"} => q.account \in Addresses
    BY DEF Request, RelayerRequest
  <2> QED BY <2>1 DEF Given
<1>3. roles \in [Roles -> SUBSET Addresses]
      /\ \A r \in Roles : roles[r] \subseteq proxy.roles[r] \cup given[r]
  BY <1>2 DEF RolesAfter, GrantsOK, Proxy
<1>4. initialized \in BOOLEAN /\ paused \in BOOLEAN
  BY DEF GrantsOK, Proxy
<1>5. q.fn = "grantRole" => q.role \in Roles /\ q.account \in Addresses /\ q.account \in given[q.role]
  BY DEF Request, RelayerRequest, Given
<1>6. paused => proxy.paused \/ q.fn = "pause"
  OBVIOUS
<1> HIDE DEF given, initialized, paused, roles
<1>7. /\ proxy' \in Proxy /\ proxy'.admin = proxy.admin /\ proxy'.version = version
      /\ proxy'.foreign = FALSE /\ proxy'.paused = paused /\ proxy'.roles = roles
  BY <1>1, <1>3, <1>4 DEF GrantsOK, Proxy
<1>8. /\ granted' \subseteq Roles \X Addresses /\ granted \subseteq granted'
      /\ \A r \in Roles, a \in Addresses : a \in given[r] => <<r, a>> \in granted'
  BY <1>1 DEF GrantsOK, Pairs
<1>9. \A r \in Roles : \A a \in roles[r] : <<r, a>> \in granted'
  <2>1. \A r \in Roles : roles[r] \subseteq Addresses /\ given[r] \subseteq Addresses
    BY <1>2, <1>3
  <2> QED BY <1>3, <1>8, <2>1 DEF GrantsOK
<1>10. q.fn = "grantRole" => <<q.role, q.account>> \in granted'
  BY <1>5, <1>8
<1> QED BY <1>6, <1>7, <1>8, <1>9, <1>10 DEF GrantsOK

\* What a call of the proxy does takes.  Unless foreign logic runs: a pause the role
\* ADMIN, another admin or logic a function of the proxy called by its admin.  Foreign
\* logic runs when it is installed, or when the admin of the proxy installs it.
LEMMA ProxyKeeps ==
  ASSUME GrantsOK, NEW sender \in Addresses, NEW q \in Request,
         ProxyAccepts(sender, q), ProxyDoes(sender, q)
  PROVE  /\ GrantsOK' /\ granted \subseteq granted'
         /\ RunsForeign(sender, q) => proxy.foreign \/ (ifAdmin(sender, q) /\ LetsGo(q))
         /\ ~RunsForeign(sender, q) =>
              /\ proxy'.paused => proxy.paused \/ (Pauses(q) /\ <<"ADMIN", sender>> \in granted)
              /\ q.fn = "grantRole" => <<q.role, q.account>> \in granted'
              /\ proxy'.admin # proxy.admin => q.fn = "changeAdmin" /\ q.account = proxy'.admin
         /\ <<proxy'.admin, proxy'.version, proxy'.foreign>>
              # <<proxy.admin, proxy.version, proxy.foreign>>
              => proxy.foreign \/ ifAdmin(sender, q)
         /\ proxy'.foreign \/ proxy'.admin # Wallet =>
              \/ proxy.foreign \/ proxy.admin # Wallet
              \/ ifAdmin(sender, q) /\ LetsGo(q)
<1>0. /\ proxy.version \in Nat /\ proxy.version + 1 \in Nat
      /\ proxy.roles["ADMIN"] \subseteq {a \in Addresses : <<"ADMIN", a>> \in granted}
  BY DEF GrantsOK, Proxy, Roles
<1>1. RunsForeign(sender, q) => proxy.foreign \/ (ifAdmin(sender, q) /\ LetsGo(q))
  BY DEF RunsForeign, LetsGo, Upgrades
<1>2. CASE RunsForeign(sender, q)
  <2>1. PICK left \in Tampered : proxy' = left /\ granted' = granted \cup Pairs(left.roles)
    BY <1>2 DEF ProxyDoes
  <2>2. left \in Proxy
    BY AdministrationAssumption
  <2>3. \A r \in Roles : \A a \in left.roles[r] : a \in Addresses /\ <<r, a>> \in Pairs(left.roles)
    BY <2>2 DEF Proxy, Pairs
  <2>4. GrantsOK' /\ granted \subseteq granted'
    BY <2>1, <2>2, <2>3 DEF GrantsOK, Pairs
  <2> QED BY <1>1, <1>2, <2>4
<1>3. CASE ~RunsForeign(sender, q) /\ ifAdmin(sender, q) /\ q.fn = "changeAdmin"
  <2>1. q.account \in Addresses
    BY <1>3 DEF Request, RelayerRequest
  <2>2. proxy' = [proxy EXCEPT !.admin = q.account] /\ granted' = granted
    BY <1>3, Zenon DEF ProxyDoes
  <2>3. GrantsOK' /\ proxy'.admin = q.account /\ proxy'.paused = proxy.paused
        /\ proxy'.foreign = proxy.foreign
    BY <2>1, <2>2 DEF GrantsOK, Proxy
  <2> QED BY <1>3, <2>2, <2>3 DEF LetsGo
<1>4. CASE ~RunsForeign(sender, q) /\ ifAdmin(sender, q) /\ q.fn = "upgradeTo"
  <2>1. q.foreign \in BOOLEAN
    BY <1>4 DEF Request, RelayerRequest
  <2>2. proxy' = [proxy EXCEPT !.version = @ + 1, !.foreign = q.foreign] /\ granted' = granted
    BY <1>4, Zenon DEF ProxyDoes
  <2>3. GrantsOK' /\ proxy'.admin = proxy.admin /\ proxy'.paused = proxy.paused
        /\ proxy'.foreign = q.foreign
    BY <1>0, <2>1, <2>2 DEF GrantsOK, Proxy
  <2> QED BY <1>4, <2>2, <2>3 DEF LetsGo, Upgrades
<1>5. CASE ~RunsForeign(sender, q) /\ ifAdmin(sender, q) /\ q.fn = "upgradeToAndCall"
  <2>1. q.call \in Request /\ q.call \in RelayerRequest
    BY <1>5 DEF Request, RelayerRequest
  <2>2. LogicDoes(sender, q.call, proxy.version + 1) /\ LogicAccepts(sender, q.call)
    BY <1>5 DEF ProxyDoes, ProxyAccepts
  <2>3. q.call.fn = "pause" => <<"ADMIN", sender>> \in granted
    BY <1>0, <2>2 DEF LogicAccepts, hasRole
  <2>4. /\ GrantsOK' /\ granted \subseteq granted'
        /\ proxy'.admin = proxy.admin /\ ~proxy'.foreign
        /\ proxy'.paused => proxy.paused \/ q.call.fn = "pause"
    BY <1>0, <2>1, <2>2, LogicKeeps
  <2> QED BY <1>5, <2>3, <2>4 DEF Pauses
<1>6. CASE ~RunsForeign(sender, q) /\ ~ifAdmin(sender, q)
  <2>1. LogicDoes(sender, q, proxy.version) /\ LogicAccepts(sender, q)
    BY <1>6 DEF ProxyDoes, ProxyAccepts
  <2>2. q.fn = "pause" => <<"ADMIN", sender>> \in granted
    BY <1>0, <2>1 DEF LogicAccepts, hasRole
  <2>3. proxy.foreign = FALSE
    BY <1>6 DEF RunsForeign, GrantsOK, Proxy
  <2>4. /\ GrantsOK' /\ granted \subseteq granted'
        /\ proxy'.admin = proxy.admin /\ proxy'.version = proxy.version /\ ~proxy'.foreign
        /\ proxy'.paused => proxy.paused \/ q.fn = "pause"
        /\ q.fn = "grantRole" => <<q.role, q.account>> \in granted'
    BY <1>0, <2>1, LogicKeeps
  <2>5. proxy'.foreign = FALSE
    BY <2>4 DEF GrantsOK, Proxy
  <2> QED BY <1>6, <2>2, <2>3, <2>4, <2>5 DEF Pauses
<1> QED BY <1>2, <1>3, <1>4, <1>5, <1>6 DEF ifAdmin, AdminFunctions, Upgrades

-----------------------------------------------------------------------------
(* What every step leaves alone.                                           *)

LEMMA GoneForGood == ASSUME IInv, IInv', [Next]_vars, Gone PROVE Gone'
<1>1. PICK i \in Indices : Executed(Committed, i) /\ LetsGo(Committed.transactions[i].to)
  BY DEF Gone
<1>2. Executed(Committed, i)' /\ Committed'.transactions[i].to = Committed.transactions[i].to
  BY <1>1, GoodForGood DEF Executed
<1> QED BY <1>1, <1>2 DEF Gone

LEMMA PausedKept ==
  ASSUME IInv, IInv', [Next]_vars, Kept, Paused, granted \subseteq granted',
         Gone \/ (proxy'.paused => proxy.paused),
         proxy'.foreign \/ proxy'.admin # Wallet => Gone \/ proxy.foreign \/ proxy.admin # Wallet
  PROVE  Kept' /\ Paused'
<1>1. Kept'
  BY GoneForGood DEF Kept
<1>2. SUFFICES ASSUME ~Gone, proxy'.paused, OnlyWallet'
               PROVE  \E i \in Indices : Executed(Committed, i)' /\ Pauses(Committed'.transactions[i].to)
  BY <1>1, GoneForGood DEF Paused
<1>3. OnlyWallet
  BY <1>2 DEF OnlyWallet
<1>4. PICK i \in Indices : Executed(Committed, i) /\ Pauses(Committed.transactions[i].to)
  BY <1>2, <1>3 DEF Paused
<1> QED BY <1>4, GoodForGood DEF Executed

LEMMA ScriptStays ==
  ASSUME IInv, IInv', [Next]_vars, ScriptOK, script' = script, granted \subseteq granted',
         script.at = "executing" => calls' = calls
  PROVE  ScriptOK'
<1>1. script.own # 0 => /\ script.own \in DOMAIN Committed'.transactions
                        /\ Committed'.transactions[script.own].to = OperatorGrant
  BY GoodForGood DEF ScriptOK
<1>2. script.at = "completed" => Executed(Committed, script.index)' /\ (Gone => Gone')
  BY GoodForGood, GoneForGood DEF ScriptOK
<1> QED BY <1>1, <1>2 DEF ScriptOK, Innermost

\* The wallet's functions are called when none is under way.
LEMMA FunctionCalled ==
  ASSUME IInv, NEW sender, NEW i,
         \/ \E to \in Recipients, value \in Values : submitTransaction(sender, to, value)
         \/ confirmTransaction(sender, i) \/ revokeConfirmation(sender, i)
         \/ executeTransaction(sender, i)
  PROVE  calls = <<>> /\ OneCall'
<1>1. calls = <<>>
  BY NoneNested DEF submitTransaction, confirmTransaction, revokeConfirmation, executeTransaction
<1>2. CASE executeTransaction(sender, i)
  <2>1. /\ i \in DOMAIN storage.transactions /\ storage \in Storage
        /\ storage.transactions \in Seq(Transaction)
    BY <1>2, Shape DEF IInv, Sound, executeTransaction, txExists
  <2>2. storage'.transactions = [storage.transactions EXCEPT ![i].executed = TRUE]
    BY <1>2, <2>1 DEF executeTransaction, Storage
  <2>3. Executed(storage, i)'
    BY <2>1, <2>2 DEF Executed, Transaction
  <2>4. calls' = <<[txIndex |-> i, saved |-> storage]>>
    BY <1>1, <1>2 DEF executeTransaction
  <2> QED BY <1>1, <2>3, <2>4 DEF OneCall
<1>3. CASE calls' = calls
  BY <1>1, <1>3 DEF OneCall
<1> QED BY <1>1, <1>2, <1>3 DEF submitTransaction, confirmTransaction, revokeConfirmation

-----------------------------------------------------------------------------
(* Calls by accounts, and of transactions.                                 *)

\* An account is not the wallet: it pauses with a role of its own, or when the proxy was
\* let go.
LEMMA DirectKeeps ==
  ASSUME AInv, IInv', NEW sender \in Accounts, NEW q \in Request, Direct(sender, q)
  PROVE  AInv'
<1>1. /\ UNCHANGED vars /\ script' = script
      /\ ProxyAccepts(sender, q) /\ ProxyDoes(sender, q)
      /\ sender \in Addresses /\ sender # Wallet
  BY AdministrationAssumption DEF Direct, walletUnchanged, Addresses
<1>2. /\ GrantsOK' /\ granted \subseteq granted'
      /\ ifAdmin(sender, q) \/ proxy.foreign => Gone
      /\ RunsForeign(sender, q) => proxy.foreign \/ ifAdmin(sender, q)
      /\ ~RunsForeign(sender, q) =>
           (proxy'.paused => proxy.paused \/ <<"ADMIN", sender>> \in granted)
      /\ proxy'.foreign \/ proxy'.admin # Wallet =>
           proxy.foreign \/ proxy.admin # Wallet \/ ifAdmin(sender, q)
  BY <1>1, ProxyKeeps DEF AInv, Kept, ifAdmin
<1>3. OneCall'
  BY <1>1 DEF AInv, OneCall, vars, Executed
<1>4. Kept' /\ Paused'
  <2>1. CASE <<"ADMIN", sender>> \in granted
    <3>1. ~OnlyWallet'
      BY <1>1, <1>2, <2>1 DEF OnlyWallet
    <3>2. Kept'
      BY <1>1, <1>2, GoneForGood DEF AInv, Kept
    <3> QED BY <3>1, <3>2 DEF Paused
  <2>2. CASE <<"ADMIN", sender>> \notin granted
    BY <1>1, <1>2, <2>2, PausedKept DEF AInv
  <2> QED BY <2>1, <2>2
<1>5. ScriptOK'
  BY <1>1, <1>2, ScriptStays DEF AInv, vars
<1> QED BY <1>2, <1>3, <1>4, <1>5 DEF AInv

LEMMA DeployKeeps == ASSUME AInv, IInv', Deploy PROVE AInv'
<1>1. Deployer \in Accounts /\ [fn |-> "initialize", account |-> Wallet] \in Request
  BY AdministrationAssumption DEF Request, RelayerRequest, Addresses
<1> QED BY <1>1, DirectKeeps DEF Deploy

LEMMA FunctionKeeps ==
  ASSUME AInv, IInv', [Next]_vars, calls = <<>>, OneCall', UNCHANGED <<proxy, script, granted>>
  PROVE  AInv'
<1>1. GrantsOK'
  BY DEF AInv, GrantsOK
<1>2. Kept' /\ Paused'
  BY PausedKept DEF AInv
<1>3. script.at # "executing"
  BY DEF AInv, ScriptOK
<1>4. ScriptOK'
  BY <1>3, ScriptStays DEF AInv
<1> QED BY <1>1, <1>2, <1>4 DEF AInv

LEMMA OwnersCallKeeps ==
  ASSUME AInv, IInv', [Next]_vars, NEW sender \in Accounts, OwnersCall(sender)
  PROVE  AInv'
<1>1. calls = <<>> /\ OneCall'
  BY FunctionCalled DEF AInv, OwnersCall
<1> QED BY <1>1, FunctionKeeps DEF OwnersCall

LEMMA SuccessKeeps == ASSUME AInv, IInv', [Next]_vars, ExecutionSucceeds PROVE AInv'
<1>0. PICK i : i = Innermost.txIndex
  OBVIOUS
<1>1. /\ Len(calls) = 1 /\ calls' = <<>> /\ storage' = storage
      /\ Executed(storage, i) /\ Committed' = storage
  BY <1>0, CallEnds DEF AInv, ExecutionSucceeds, CallReturns
<1>2. Called \in Request /\ Wallet \in Addresses /\ Called = storage.transactions[i].to
  BY <1>0, <1>1, Authorised DEF AInv, Called, Addresses
<1>3. Executed(Committed, i)' /\ i \in Indices
  BY <1>1, Shape DEF AInv, IInv, Executed
<1>4. OneCall'
  BY <1>1 DEF OneCall
<1>5. LetsGo(Called) => Gone'
  BY <1>1, <1>2, <1>3 DEF Gone
<1>6. /\ GrantsOK' /\ granted \subseteq granted'
      /\ RunsForeign(Wallet, Called) => Gone'
      /\ ~RunsForeign(Wallet, Called) =>
           /\ proxy'.paused => proxy.paused \/ Pauses(Called)
           /\ Called.fn = "grantRole" => <<Called.role, Called.account>> \in granted'
      /\ Kept'
  BY <1>2, <1>5, ProxyKeeps, GoneForGood DEF AInv, ExecutionSucceeds, Kept
<1>7. Paused'
  <2>1. CASE Gone'
    BY <2>1 DEF Paused
  <2>2. CASE Pauses(Called)
    <3>1. Pauses(Committed'.transactions[i].to)
      BY <1>1, <1>2, <2>2
    <3> QED BY <1>3, <3>1 DEF Paused
  <2>3. CASE ~Gone' /\ (proxy'.paused => proxy.paused)
    <3>1. ~(proxy'.foreign \/ proxy'.admin # Wallet)
      BY <1>6, <2>3 DEF Kept
    <3> QED BY <1>6, <2>3, <3>1, PausedKept DEF AInv
  <2> QED BY <1>6, <2>1, <2>2, <2>3
<1>8. ScriptOK'
  <2>1. CASE script.at = "executing"
    <3>1. script' = [script EXCEPT !.at = "completed"] /\ script.index = i
      BY <1>0, <2>1 DEF ExecutionSucceeds, Ended, AInv, ScriptOK, Script, Stages
    <3>2. /\ script' \in Script /\ script'.at = "completed"
          /\ script'.own = script.own /\ script'.index = i
      BY <3>1 DEF AInv, ScriptOK, Script, Stages
    <3>3. script.own # 0 => /\ script.own \in DOMAIN Committed'.transactions
                            /\ Committed'.transactions[script.own].to = OperatorGrant
      BY GoodForGood DEF AInv, ScriptOK
    <3>4. script.index # 0 /\ script.index >= script.own
      BY <2>1 DEF AInv, ScriptOK
    <3>5. i = script.own => <<"EXECUTIONER", Operator>> \in granted' \/ Gone'
      <4>1. i = script.own => Called = OperatorGrant
        BY <1>1, <1>2, <3>1, <3>3, <3>4
      <4> QED BY <1>6, <4>1 DEF OperatorGrant, Grant
    <3> QED BY <1>3, <3>1, <3>2, <3>3, <3>4, <3>5 DEF ScriptOK
  <2>2. CASE script.at # "executing"
    <3>1. script' = script
      BY <2>2 DEF ExecutionSucceeds, Ended, AInv, ScriptOK, Script, Stages
    <3> QED BY <1>6, <2>2, <3>1, ScriptStays DEF AInv
  <2> QED BY <2>1, <2>2
<1> QED BY <1>4, <1>6, <1>8, <1>7 DEF AInv

LEMMA FailureKeeps == ASSUME AInv, IInv', [Next]_vars, ExecutionFails PROVE AInv'
<1>1. calls' = <<>> /\ UNCHANGED <<proxy, granted>>
  BY CallEnds DEF AInv, ExecutionFails, CallFails
<1>2. GrantsOK' /\ OneCall' /\ Kept' /\ Paused'
  BY <1>1, PausedKept DEF AInv, GrantsOK, OneCall
<1>3. ScriptOK'
  <2>1. CASE script.at = "executing"
    <3>1. /\ script' \in Script /\ script'.at = "failed"
          /\ script'.own = script.own
      BY <2>1 DEF ExecutionFails, Ended, AInv, ScriptOK, Script, Stages
    <3>2. script.own # 0 => /\ script.own \in DOMAIN Committed'.transactions
                            /\ Committed'.transactions[script.own].to = OperatorGrant
      BY GoodForGood DEF AInv, ScriptOK
    <3> QED BY <3>1, <3>2 DEF ScriptOK
  <2>2. CASE script.at # "executing"
    <3>1. script' = script
      BY <2>2 DEF ExecutionFails, Ended, AInv, ScriptOK, Script, Stages
    <3> QED BY <1>1, <2>2, <3>1, ScriptStays DEF AInv
  <2> QED BY <2>1, <2>2
<1> QED BY <1>2, <1>3 DEF AInv

-----------------------------------------------------------------------------
(* The scripts.                                                            *)

\* A script goes on: its step is no call of the proxy, and the rest stays true.
LEMMA ScriptSteps ==
  ASSUME AInv, IInv', [Next]_vars, OneCall', UNCHANGED <<proxy, granted>>, ScriptOK'
  PROVE  AInv'
BY PausedKept DEF AInv, GrantsOK

LEMMA ScriptSubmitsKeeps == ASSUME AInv, IInv', [Next]_vars, ScriptSubmits PROVE AInv'
<1>1. submitTransaction(Operator, OperatorGrant, 0) /\ OperatorGrant \in Recipients /\ 0 \in Values
  BY AdministrationAssumption DEF ScriptSubmits
<1>2. calls = <<>> /\ OneCall'
  BY <1>1, FunctionCalled DEF AInv
<1>3. calls' = <<>> /\ storage.transactions \in Seq(Transaction) /\ storage \in Storage
  BY <1>1, <1>2, Shape DEF AInv, IInv, Sound, submitTransaction
<1>4. /\ Len(storage'.transactions) \in DOMAIN storage'.transactions
      /\ Len(storage'.transactions) \in Nat /\ Len(storage'.transactions) # 0
      /\ storage'.transactions[Len(storage'.transactions)].to = OperatorGrant
  <2> DEFINE t == [to |-> OperatorGrant, value |-> 0, executed |-> FALSE, numConfirmations |-> 0]
  <2>1. storage'.transactions = Append(storage.transactions, t)
    BY <1>1, <1>3 DEF submitTransaction, Storage
  <2>2. t \in Transaction /\ t.to = OperatorGrant
    BY <1>1 DEF Transaction
  <2> HIDE DEF t
  <2> QED BY <1>3, <2>1, <2>2
<1>5. /\ script' \in Script /\ script'.at = "submitted"
      /\ script'.own = Len(storage'.transactions)
  BY <1>4 DEF ScriptSubmits, AInv, ScriptOK, Script, Stages
<1>6. ScriptOK'
  BY <1>3, <1>4, <1>5 DEF ScriptOK, Committed
<1> QED BY <1>2, <1>6, ScriptSteps DEF ScriptSubmits

LEMMA ScriptCountsKeeps == ASSUME AInv, IInv', ScriptCounts PROVE AInv'
<1>1. UNCHANGED vars /\ UNCHANGED <<proxy, granted>> /\ calls = <<>> /\ script.at = "submitted"
  BY DEF ScriptCounts, walletUnchanged
<1>2. OneCall' /\ Committed' = Committed /\ Committed = storage
  BY <1>1 DEF AInv, OneCall, vars, Executed, Committed
<1>3. /\ Len(storage.transactions) \in Nat
      /\ DOMAIN storage.transactions = 1..Len(storage.transactions)
  BY Shape DEF AInv, IInv
<1>4. /\ script' \in Script /\ script'.at = "counted" /\ script'.own = script.own
      /\ script'.index = Len(storage.transactions)
  BY <1>3 DEF ScriptCounts, AInv, ScriptOK, Script, Stages
<1>5. script.own # 0 /\ script.own \in 1..Len(storage.transactions)
  BY <1>1, <1>2, <1>3 DEF AInv, ScriptOK
<1>6. ScriptOK'
  BY <1>2, <1>3, <1>4, <1>5 DEF AInv, ScriptOK
<1> QED BY <1>1, <1>2, <1>6, ScriptSteps

LEMMA ConfirmScriptKeeps == ASSUME AInv, IInv', ConfirmScript PROVE AInv'
<1>1. UNCHANGED vars /\ UNCHANGED <<proxy, granted>> /\ script.at = "idle"
  BY DEF ConfirmScript, walletUnchanged
<1>2. OneCall' /\ Committed' = Committed
  BY <1>1 DEF AInv, OneCall, vars, Executed, Committed
<1>3. ConfirmedIndex \in Nat /\ ConfirmedIndex # 0 /\ script.own = 0
  BY <1>1, AdministrationAssumption, MultiSigAssumption DEF AInv, ScriptOK, Indices
<1>4. /\ script' \in Script /\ script'.at = "counted" /\ script'.own = 0
      /\ script'.index = ConfirmedIndex
  BY <1>3 DEF ConfirmScript, AInv, ScriptOK, Script, Stages
<1>5. ScriptOK'
  BY <1>3, <1>4 DEF ScriptOK
<1> QED BY <1>1, <1>2, <1>5, ScriptSteps

\* A later stage of the same script, at which nothing is promised yet.
LEMMA ScriptGoesOn ==
  ASSUME AInv, IInv', [Next]_vars, NEW at \in {"confirmed", "failed"},
         script' = [script EXCEPT !.at = at],
         at = "confirmed" => script.at = "counted"
  PROVE  ScriptOK'
<1>1. script.own # 0 => /\ script.own \in DOMAIN Committed'.transactions
                        /\ Committed'.transactions[script.own].to = OperatorGrant
  BY GoodForGood DEF AInv, ScriptOK
<1>2. /\ script' \in Script /\ script'.at = at /\ script'.own = script.own
      /\ script'.index = script.index
  BY DEF AInv, ScriptOK, Script, Stages
<1> QED BY <1>1, <1>2 DEF AInv, ScriptOK

LEMMA ScriptConfirmsKeeps == ASSUME AInv, IInv', [Next]_vars, ScriptConfirms PROVE AInv'
<1>1. OneCall'
  BY FunctionCalled DEF AInv, ScriptConfirms
<1>2. ScriptOK'
  BY ScriptGoesOn DEF ScriptConfirms
<1> QED BY <1>1, <1>2, ScriptSteps DEF ScriptConfirms

LEMMA ScriptFailsKeeps == ASSUME AInv, IInv', ScriptFails PROVE AInv'
<1>1. OneCall' /\ UNCHANGED vars
  BY DEF AInv, ScriptFails, walletUnchanged, OneCall, vars, Executed
<1>2. ScriptOK'
  BY <1>1, ScriptGoesOn DEF ScriptFails
<1> QED BY <1>1, <1>2, ScriptSteps DEF ScriptFails

LEMMA ScriptExecutesKeeps == ASSUME AInv, IInv', [Next]_vars, ScriptExecutes PROVE AInv'
<1>1. calls = <<>> /\ OneCall'
  BY FunctionCalled DEF AInv, ScriptExecutes
<1>2. calls' = <<[txIndex |-> script.index, saved |-> storage]>>
  BY <1>1 DEF ScriptExecutes, executeTransaction
<1>3. calls' # <<>> /\ Innermost'.txIndex = script.index
  BY <1>2 DEF Innermost
<1>4. script.own # 0 => /\ script.own \in DOMAIN Committed'.transactions
                        /\ Committed'.transactions[script.own].to = OperatorGrant
  BY GoodForGood DEF AInv, ScriptOK
<1>5. /\ script' \in Script /\ script'.at = "executing" /\ script'.own = script.own
      /\ script'.index = script.index /\ script.at = "confirmed"
  BY DEF ScriptExecutes, AInv, ScriptOK, Script, Stages
<1>6. ScriptOK'
  BY <1>3, <1>4, <1>5 DEF AInv, ScriptOK
<1> QED BY <1>1, <1>6, ScriptSteps DEF ScriptExecutes

-----------------------------------------------------------------------------
(* The theorems.                                                           *)

LEMMA AInitially == AInit => AInv
<1> SUFFICES ASSUME AInit PROVE AInv
  OBVIOUS
<1>1. IInv /\ calls = <<>>
  BY Initially DEF AInit, Init
<1>2. /\ proxy \in Proxy /\ ~proxy.paused /\ ~proxy.foreign /\ proxy.admin = Wallet
      /\ granted = {} /\ \A r \in Roles : proxy.roles[r] = {}
  BY DEF AInit, Proxy, Addresses
<1>3. GrantsOK /\ OneCall /\ Kept /\ Paused
  BY <1>1, <1>2 DEF GrantsOK, OneCall, Kept, Paused
<1>4. ScriptOK
  BY DEF AInit, ScriptOK, Script, Stages
<1> QED BY <1>1, <1>3, <1>4 DEF AInv

LEMMA APreserved == AInv /\ [ANext]_avars => AInv'
<1> SUFFICES ASSUME AInv, [ANext]_avars PROVE AInv'
  OBVIOUS
<1>1. [Next]_vars /\ IInv'
  BY WalletStep, Preserved DEF AInv
<1>2. CASE Deploy
  BY <1>1, <1>2, DeployKeeps
<1>3. ASSUME NEW sender \in Accounts, OwnersCall(sender) PROVE AInv'
  BY <1>1, <1>3, OwnersCallKeeps
<1>4. ASSUME NEW sender \in Accounts, NEW q \in Requests, Direct(sender, q) PROVE AInv'
  BY <1>1, <1>4, DirectKeeps, AdministrationAssumption
<1>5. CASE ExecutionSucceeds
  BY <1>1, <1>5, SuccessKeeps
<1>6. CASE ExecutionFails
  BY <1>1, <1>6, FailureKeeps
<1>7. CASE ScriptSubmits
  BY <1>1, <1>7, ScriptSubmitsKeeps
<1>8. CASE ScriptCounts \/ ConfirmScript
  BY <1>1, <1>8, ScriptCountsKeeps, ConfirmScriptKeeps
<1>9. CASE ScriptConfirms \/ ScriptExecutes \/ ScriptFails
  BY <1>1, <1>9, ScriptConfirmsKeeps, ScriptExecutesKeeps, ScriptFailsKeeps
<1>10. CASE UNCHANGED avars
  <2>1. UNCHANGED <<storage, calls, proxy, script, granted>>
    BY <1>10 DEF avars, vars
  <2> QED BY <1>1, <2>1 DEF AInv, GrantsOK, OneCall, Kept, Gone, Paused, OnlyWallet, ScriptOK,
                            Executed, Committed, Innermost
<1> QED BY <1>2, <1>3, <1>4, <1>5, <1>6, <1>7, <1>8, <1>9, <1>10 DEF ANext

LEMMA AAlways == ASpec => []AInv
BY AInitially, APreserved, PTL DEF ASpec

\* Administering the relayer, with its scripts, is using the wallet: whatever holds of
\* the wallet holds here, the promise it keeps included.
THEOREM WalletKept == ASpec => PromiseKept
<1>1. AInit => Init
  BY DEF AInit
<1>2. AInv /\ [ANext]_avars => [Next]_vars
  BY WalletStep DEF AInv
<1>3. ASpec => Spec
  BY <1>1, <1>2, AAlways, PTL DEF ASpec, Spec
<1> QED BY <1>3, ImplementsPromise, PTL

\* The wallet, the proxy and the script keep their shape; roles are granted first.
THEOREM AdministrationCorrect == ASpec => []AdministrationOK
<1>1. AInv => AdministrationOK
  BY DEF AInv, IInv, Sound, TypeOK, GrantsOK, ScriptOK, AdministrationOK
<1> QED BY <1>1, AAlways, PTL

\* Nothing short of a quorum pauses the relayer, unless somebody besides the wallet was
\* granted the role ADMIN: the quorum executed the pause, or it let the proxy go, to
\* another admin or to logic that is not the relayer's.
THEOREM PausedByQuorum == ASpec => []PauseNeedsQuorum
<1>1. ASSUME AInv, Gone PROVE LetGo
  <2>1. PICK i \in Indices : Executed(Committed, i) /\ LetsGo(Committed.transactions[i].to)
    BY <1>1 DEF Gone
  <2> QED BY <1>1, <2>1, ForGood DEF AInv, LetGo
<1>2. ASSUME AInv, proxy.paused, OnlyWallet, ~Gone
      PROVE  \E i \in DOMAIN storage.transactions :
               Quorate(i) /\ Pauses(storage.transactions[i].to)
  <2>1. PICK i \in Indices : Executed(Committed, i) /\ Pauses(Committed.transactions[i].to)
    BY <1>2 DEF AInv, Paused
  <2> QED BY <1>2, <2>1, ForGood DEF AInv
<1>3. AInv => PauseNeedsQuorum
  BY <1>1, <1>2 DEF PauseNeedsQuorum, OnlyWallet
<1> QED BY <1>3, AAlways, PTL

\* A script that reports that it completed executed a transaction with a quorum; its own
\* granted the role, unless the proxy was let go.
THEOREM ScriptsComplete == ASpec => []Completed
<1>1. ASSUME AInv, Gone PROVE LetGo
  <2>1. PICK i \in Indices : Executed(Committed, i) /\ LetsGo(Committed.transactions[i].to)
    BY <1>1 DEF Gone
  <2> QED BY <1>1, <2>1, ForGood DEF AInv, LetGo
<1>2. ASSUME AInv, script.at = "completed"
      PROVE  /\ script.index >= script.own /\ Quorate(script.index)
             /\ script.index = script.own =>
                  <<"EXECUTIONER", Operator>> \in granted \/ LetGo
  BY <1>1, <1>2, ForGood DEF AInv, ScriptOK
<1>3. AInv => Completed
  BY <1>2 DEF Completed
<1> QED BY <1>3, AAlways, PTL

\* While it is the wallet's and runs the relayer's logic, the proxy changes hands or logic
\* only by a transaction with a quorum that says so.
THEOREM AdminByQuorum == ASpec => AdminNeedsQuorum
<1> DEFINE changed == <<proxy'.admin, proxy'.version, proxy'.foreign>>
                        # <<proxy.admin, proxy.version, proxy.foreign>>
           right == /\ calls # <<>> /\ Quorate(Innermost.txIndex)
                    /\ Called.fn \in AdminFunctions
                    /\ proxy'.admin # proxy.admin =>
                         IF Called.fn = "changeAdmin" THEN Called.account = proxy'.admin
                         ELSE Called.foreign
<1>1. ASSUME AInv, [ANext]_avars, proxy.admin = Wallet, ~proxy.foreign, changed PROVE right
  <2>1. ASSUME NEW sender \in Accounts, NEW q \in Request, Direct(sender, q) PROVE FALSE
    <3>1. /\ ProxyAccepts(sender, q) /\ ProxyDoes(sender, q)
          /\ sender \in Addresses /\ sender # Wallet
      BY <2>1, AdministrationAssumption DEF Direct, Addresses
    <3> QED BY <1>1, <3>1, ProxyKeeps DEF AInv, ifAdmin
  <2>2. Requests \subseteq Request /\ ~Deploy
    <3>1. Deployer \in Accounts /\ [fn |-> "initialize", account |-> Wallet] \in Request
      BY AdministrationAssumption DEF Request, RelayerRequest, Addresses
    <3> QED BY <2>1, <3>1, AdministrationAssumption DEF Deploy
  <2>3. CASE ExecutionSucceeds
    <3>1. calls # <<>> /\ Executed(storage, Innermost.txIndex)
      BY <1>1, <2>3, CallEnds DEF AInv, ExecutionSucceeds, CallReturns
    <3>2. Quorate(Innermost.txIndex) /\ Called \in Request /\ Wallet \in Addresses
      BY <1>1, <3>1, Authorised DEF AInv, Addresses
    <3>3. /\ ifAdmin(Wallet, Called)
          /\ RunsForeign(Wallet, Called) => LetsGo(Called)
          /\ ~RunsForeign(Wallet, Called) /\ proxy'.admin # proxy.admin =>
               Called.fn = "changeAdmin" /\ Called.account = proxy'.admin
      BY <1>1, <2>3, <3>2, ProxyKeeps DEF AInv, ExecutionSucceeds
    <3>4. RunsForeign(Wallet, Called) => Called.fn # "changeAdmin" /\ Called.foreign
      BY <3>3 DEF RunsForeign
    <3> QED BY <3>1, <3>2, <3>3, <3>4 DEF ifAdmin
  <2>4. ASSUME NEW sender \in Accounts, OwnersCall(sender) PROVE FALSE
    BY <1>1, <2>4 DEF OwnersCall
  <2>5. CASE ExecutionFails \/ ScriptSubmits \/ ScriptCounts \/ ConfirmScript
             \/ ScriptConfirms \/ ScriptExecutes \/ ScriptFails \/ UNCHANGED avars
    BY <1>1, <2>5 DEF ExecutionFails, ScriptSubmits, ScriptCounts, ConfirmScript,
                      ScriptConfirms, ScriptExecutes, ScriptFails, avars
  <2> QED BY <1>1, <2>1, <2>2, <2>3, <2>4, <2>5 DEF ANext
<1>2. AInv /\ [ANext]_avars
        => [proxy.admin = Wallet /\ ~proxy.foreign /\ changed => right]_avars
  BY <1>1
<1> QED BY <1>2, AAlways, PTL DEF ASpec, AdminNeedsQuorum
=============================================================================
