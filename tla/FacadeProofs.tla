---------------------------- MODULE FacadeProofs ----------------------------
(***************************************************************************)
(* What holds of Facade for every set of requests, accounts and events.    *)
(***************************************************************************)
EXTENDS Facade, FiniteSetTheorems, FunctionTheorems, SequenceTheorems, TLAPS

\* A dispatch splits a queue of handlers: those reached and those left are
\* queues of handlers again.
LEMMA DispatchType ==
  ASSUME NEW S, NEW s \in Seq(S), NEW d \in Dispatches(s)
  PROVE  d.to \in Seq(S) /\ d.left \in Seq(S)
<1>1. OddPlaces(s) \in Seq(S)
  <2>1. \A k \in 1..((Len(s) + 1) \div 2) : 2 * k - 1 \in 1..Len(s)
    OBVIOUS
  <2>2. (Len(s) + 1) \div 2 \in Nat
    OBVIOUS
  <2>3. OddPlaces(s) \in [1..((Len(s) + 1) \div 2) -> S]
    BY <2>1 DEF OddPlaces
  <2> QED BY <2>2, <2>3
<1>2. EvenPlaces(s) \in Seq(S)
  <2>1. \A k \in 1..(Len(s) \div 2) : 2 * k \in 1..Len(s)
    OBVIOUS
  <2>2. Len(s) \div 2 \in Nat
    OBVIOUS
  <2>3. EvenPlaces(s) \in [1..(Len(s) \div 2) -> S]
    BY <2>1 DEF EvenPlaces
  <2> QED BY <2>2, <2>3
<1>3. <<>> \in Seq(S)
  OBVIOUS
<1>4. CASE d = [to |-> s, left |-> <<>>]
  BY <1>3, <1>4
<1>5. CASE d = [to |-> OddPlaces(s), left |-> EvenPlaces(s)]
  BY <1>1, <1>2, <1>5
<1> QED BY <1>4, <1>5 DEF Dispatches

\* The queues of one topic hold requests, those of connect-wallet events.
LEMMA DispatchUsers ==
  ASSUME TypeOK, NEW t \in Topics, NEW d \in Dispatches(waiters[t])
  PROVE  /\ d.to \in Seq(Users(t)) /\ d.to \in Seq(Ids)
         /\ d.left \in Seq(Users(t)) /\ d.left \in Seq(Ids)
<1>1. waiters[t] \in Seq(Users(t)) /\ Users(t) \subseteq Ids
  BY DEF TypeOK, Users, Ids
<1>2. d.to \in Seq(Users(t)) /\ d.left \in Seq(Users(t))
  BY <1>1, DispatchType
<1> QED BY <1>1, <1>2, SeqMonotonic

\* A message posted for every handler of a queue extends the bus.
LEMMA BusExtends ==
  ASSUME NEW S, NEW b \in Seq(Message), NEW ids \in Seq(S), NEW m,
         m \in [DOMAIN ids -> Message]
  PROVE  b \o m \in Seq(Message)
<1>1. m \in Seq(Message)
  OBVIOUS
<1> QED BY <1>1, ConcatProperties

\* Joining a queue keeps its type.
LEMMA Joins ==
  ASSUME NEW S, NEW s \in Seq(S), NEW t \in Seq(S)
  PROVE  s \o t \in Seq(S)
BY ConcatProperties

\* A dispatch that only moves its handlers from one topic to another.
LEMMA AnsweredType ==
  ASSUME TypeOK, NEW t \in Replies, NEW next \in Replies, t # next,
         NEW r \in Requests, NEW d \in Dispatches(waiters[t]), NEW stage \in Stages,
         MoveTo(d.to, stage), Answered(t, r, d, next)
  PROVE  /\ pc' \in [Ids -> Stages]
         /\ waiters' \in [Topics -> Seq(Ids)]
         /\ calls' \in [Topics -> SUBSET Ids]
         /\ \A u \in Topics : waiters'[u] \in Seq(Users(u)) /\ calls'[u] \subseteq Users(u)
<1>1. t \in Topics /\ next \in Topics /\ Users(t) = Requests /\ Users(next) = Requests
  BY DEF Topics, Replies, Users
<1>2. /\ d.to \in Seq(Requests) /\ d.to \in Seq(Ids)
      /\ d.left \in Seq(Requests) /\ d.left \in Seq(Ids)
  BY <1>1, DispatchUsers
<1>3. /\ waiters[next] \o d.to \in Seq(Requests)
      /\ waiters[next] \o d.to \in Seq(Ids)
  BY <1>1, <1>2, Joins DEF TypeOK
<1>4. Listeners(d.to) \subseteq Requests /\ Requests \subseteq Ids
  BY <1>2 DEF Listeners, Ids
<1>5. pc' \in [Ids -> Stages]
  BY DEF MoveTo, TypeOK
<1>6. /\ waiters' \in [Topics -> Seq(Ids)]
      /\ \A u \in Topics : waiters'[u] \in Seq(Users(u))
  BY <1>1, <1>2, <1>3 DEF Answered, TypeOK
<1>7. /\ calls' \in [Topics -> SUBSET Ids]
      /\ \A u \in Topics : calls'[u] \subseteq Users(u)
  BY <1>1, <1>4 DEF Answered, TypeOK
<1> QED BY <1>5, <1>6, <1>7

\* A dispatch whose handlers ask nothing more.
LEMMA AnsweredOnlyType ==
  ASSUME TypeOK, NEW t \in Topics, NEW i \in Ids,
         NEW d \in Dispatches(waiters[t]), NEW stage \in Stages,
         MoveTo(d.to, stage), AnsweredOnly(t, i, d)
  PROVE  /\ pc' \in [Ids -> Stages]
         /\ waiters' \in [Topics -> Seq(Ids)]
         /\ calls' \in [Topics -> SUBSET Ids]
         /\ \A u \in Topics : waiters'[u] \in Seq(Users(u)) /\ calls'[u] \subseteq Users(u)
<1>1. d.left \in Seq(Users(t)) /\ d.left \in Seq(Ids)
  BY DispatchUsers
<1>2. pc' \in [Ids -> Stages]
  BY DEF MoveTo, TypeOK
<1> QED BY <1>1, <1>2 DEF AnsweredOnly, TypeOK

\* The handlers of a simulation register for the decision.
LEMMA AwaitType ==
  ASSUME TypeOK, NEW r \in Requests, NEW d \in Dispatches(waiters["tx-simulate"]),
         AwaitDecision(r, d)
  PROVE  /\ pc' \in [Ids -> Stages]
         /\ waiters' \in [Topics -> Seq(Ids)]
         /\ calls' \in [Topics -> SUBSET Ids]
         /\ \A u \in Topics : waiters'[u] \in Seq(Users(u)) /\ calls'[u] \subseteq Users(u)
         /\ d.to \in Seq(Requests)
<1>1. /\ "tx-simulate" \in Topics /\ "accept" \in Topics /\ "decide" \in Stages
      /\ Users("tx-simulate") = Requests /\ Users("accept") = Requests
  BY DEF Topics, Replies, Users, Stages
<1>2. /\ d.to \in Seq(Requests) /\ d.to \in Seq(Ids)
      /\ d.left \in Seq(Requests) /\ d.left \in Seq(Ids)
  BY <1>1, DispatchUsers
<1>3. /\ waiters["accept"] \o d.to \in Seq(Requests)
      /\ waiters["accept"] \o d.to \in Seq(Ids)
  BY <1>1, <1>2, Joins DEF TypeOK
<1>4. pc' \in [Ids -> Stages]
  BY <1>1 DEF AwaitDecision, MoveTo, TypeOK
<1>5. /\ waiters' \in [Topics -> Seq(Ids)]
      /\ \A u \in Topics : waiters'[u] \in Seq(Users(u))
  BY <1>1, <1>2, <1>3 DEF AwaitDecision, TypeOK
<1>6. /\ calls' \in [Topics -> SUBSET Ids]
      /\ \A u \in Topics : calls'[u] \subseteq Users(u)
  BY <1>1 DEF AwaitDecision, TypeOK
<1> QED BY <1>2, <1>4, <1>5, <1>6

\* The end of waitForSignature.
LEMMA FinaliseType ==
  ASSUME TypeOK, NEW ids \in Seq(Requests), NEW tx \in Requests \cup {None},
         Finalise(ids, tx)
  PROVE  pc' \in [Ids -> Stages] /\ bus' \in Seq(Message)
<1>1. pc' \in [Ids -> Stages]
  BY DEF Finalise, MoveTo, Stages, TypeOK
<1>2. [k \in DOMAIN ids |-> [topic |-> "sign-finalise", tx |-> tx]] \in [DOMAIN ids -> Message]
  BY DEF Message
<1>3. bus' \in Seq(Message)
  BY <1>2, BusExtends DEF Finalise, TypeOK
<1> QED BY <1>1, <1>3

\* The first message, by its topic.
LEMMA FirstMessage ==
  ASSUME TypeOK, bus # <<>>
  PROVE  /\ Tail(bus) \in Seq(Message)
         /\ Head(bus) \in Message
         /\ Head(bus).topic = "open" => Head(bus).payload \in Payload
         /\ Head(bus).topic = "accept" => /\ Head(bus).payload \in Payload
                                          /\ Head(bus).accepted \in BOOLEAN
         /\ Head(bus).topic = "sign-finalise" => Head(bus).tx \in Requests \cup {None}
         /\ Head(bus).topic = "mm:accountsChanged" => Head(bus).account \in MaybeAccount
<1>1. Tail(bus) \in Seq(Message) /\ Head(bus) \in Message
  BY HeadTailProperties DEF TypeOK
<1> QED BY <1>1 DEF Message

\* A request that prepares a permit has an account to sign it.
SignerKnown == \A r \in Requests : pc[r] = "permit" => permit[r].signer \in Accounts

LEMMA TypeStep ==
  ASSUME TypeOK, SignerKnown, [Next]_vars
  PROVE  TypeOK'
<1> USE FacadeAssumption
<1> USE DEF uiVars, chainVars, walletVars, pageVars
<1>1. ASSUME NEW r \in Requests, PassThrough(r) PROVE TypeOK'
  BY <1>1 DEF TypeOK, PassThrough, Ids, Stages
<1>2. ASSUME NEW r \in Requests, Intercept(r) PROVE TypeOK'
  BY <1>2 DEF TypeOK, Intercept, Ask, Ids, Users, Stages, Topics, Replies, Listeners, MaybeAccount
<1>3. ASSUME NEW r \in Requests, Validated(r) PROVE TypeOK'
  <2>1. PICK d \in Dispatches(waiters["tx-validate"]) :
          MoveTo(d.to, "simulate") /\ Answered("tx-validate", r, d, "tx-simulate")
    BY <1>3 DEF Validated
  <2>2. "simulate" \in Stages /\ "tx-validate" \in Replies /\ "tx-simulate" \in Replies
    BY DEF Stages, Replies
  <2> QED BY <1>3, <2>1, <2>2, AnsweredType DEF TypeOK, Validated
<1>4. ASSUME NEW r \in Requests, NotValid(r) PROVE TypeOK'
  <2>1. PICK d \in Dispatches(waiters["tx-validate"]) :
          MoveTo(d.to, "done") /\ AnsweredOnly("tx-validate", r, d)
    BY <1>4 DEF NotValid
  <2>2. "done" \in Stages /\ "tx-validate" \in Topics /\ r \in Ids
    BY DEF Stages, Topics, Replies, Ids
  <2> QED BY <1>4, <2>1, <2>2, AnsweredOnlyType DEF TypeOK, NotValid
<1>5. ASSUME NEW r \in Requests, Simulated(r) PROVE TypeOK'
  <2>1. PICK d \in Dispatches(waiters["tx-simulate"]) :
          /\ AwaitDecision(r, d)
          /\ bus' = bus \o [k \in DOMAIN d.to |-> OpenMessage(d.to[k], r)]
    BY <1>5 DEF Simulated
  <2>2. d.to \in Seq(Requests)
    BY <2>1, AwaitType
  <2>3. \A k \in DOMAIN d.to : OpenMessage(d.to[k], r) \in Message
    BY <2>2 DEF OpenMessage, Message, Payload, TypeOK
  <2>4. bus' \in Seq(Message)
    BY <2>1, <2>2, <2>3, BusExtends DEF TypeOK
  <2> QED BY <1>5, <2>1, <2>4, AwaitType DEF TypeOK, Simulated
<1>6. ASSUME NEW r \in Requests, NotSimulated(r) PROVE TypeOK'
  <2>1. PICK d \in Dispatches(waiters["tx-simulate"]) : AwaitDecision(r, d)
    BY <1>6 DEF NotSimulated
  <2> QED BY <1>6, <2>1, AwaitType DEF TypeOK, NotSimulated
<1>7. ASSUME DeliverAccept PROVE TypeOK'
  <2>1. /\ bus # <<>> /\ Head(bus).topic = "accept"
        /\ UNCHANGED <<sender, calls, receipt, uiVars, chainVars, walletVars>>
    BY <1>7 DEF DeliverAccept
  <2>2. PICK d \in Dispatches(waiters["accept"]) :
          /\ waiters' = [waiters EXCEPT !["accept"] = d.left]
          /\ IF Head(bus).accepted /\ wallet # None
             THEN StartPermit(Head(bus), d.to)
             ELSE GiveUp(d.to)
    BY <1>7 DEF DeliverAccept, HandleAccept
  <2>3. /\ "accept" \in Topics /\ Users("accept") = Requests
        /\ "permit" \in Stages /\ "done" \in Stages
    BY DEF Topics, Users, Stages
  <2>4. /\ d.to \in Seq(Requests) /\ d.left \in Seq(Requests) /\ d.left \in Seq(Ids)
    BY <2>3, DispatchUsers
  <2>5. /\ waiters' \in [Topics -> Seq(Ids)]
        /\ \A u \in Topics : waiters'[u] \in Seq(Users(u))
    BY <2>2, <2>3, <2>4 DEF TypeOK
  <2>6. CASE Head(bus).accepted /\ wallet # None
    <3>1. StartPermit(Head(bus), d.to)
      BY <2>2, <2>6
    <3>2. pc' \in [Ids -> Stages]
      BY <3>1, <2>3 DEF StartPermit, MoveTo, TypeOK
    <3>3. bus' \in Seq(Message)
      BY <3>1, <2>1, FirstMessage DEF StartPermit
    <3>4. grant' \in [Requests -> Payload \cup {None}]
      BY <3>1, <2>1, FirstMessage DEF StartPermit, TypeOK
    <3>5. permit' \in [Requests -> Permit]
      BY <3>1 DEF StartPermit, TypeOK, Permit
    <3> QED BY <2>1, <2>5, <3>2, <3>3, <3>4, <3>5 DEF TypeOK
  <2>7. CASE ~(Head(bus).accepted /\ wallet # None)
    <3>1. GiveUp(d.to)
      BY <2>2, <2>7
    <3>2. pc' \in [Ids -> Stages]
      BY <3>1, <2>3 DEF GiveUp, MoveTo, TypeOK
    <3>3. [k \in DOMAIN d.to |-> [topic |-> "sign-finalise", tx |-> None]]
            \in [DOMAIN d.to -> Message]
      BY DEF Message
    <3>4. Tail(bus) \in Seq(Message)
      BY <2>1, FirstMessage
    <3>5. bus' \in Seq(Message)
      BY <3>1, <3>3, <3>4, <2>4, BusExtends DEF GiveUp
    <3> QED BY <2>1, <2>5, <3>1, <3>2, <3>5 DEF TypeOK, GiveUp
  <2> QED BY <2>6, <2>7
<1>8. ASSUME NEW r \in Requests, BuildPermit(r) PROVE TypeOK'
  <2>1. pc' \in [Ids -> Stages]
    BY <1>8 DEF BuildPermit, TypeOK, Stages
  <2>2. permit' \in [Requests -> Permit]
    BY <1>8 DEF BuildPermit, TypeOK, Permit, SignerKnown
  <2> QED BY <1>8, <2>1, <2>2 DEF TypeOK, BuildPermit
<1>9. ASSUME NEW r \in Requests, Sign(r) PROVE TypeOK'
  BY <1>9 DEF TypeOK, Sign, Ask, Ids, Users, Stages, Topics, Replies, Listeners
<1>10. ASSUME NEW r \in Requests, NotSigned(r) PROVE TypeOK'
  <2>1. <<r>> \in Seq(Requests)
    OBVIOUS
  <2> QED BY <1>10, <2>1, FinaliseType DEF TypeOK, NotSigned
<1>11. ASSUME NEW r \in Requests, Submitted(r) PROVE TypeOK'
  <2>1. PICK d \in Dispatches(waiters["sign-complete"]) :
          /\ MoveTo(d.to, "mine")
          /\ receipt' = [q \in Requests |-> IF q \in Listeners(d.to) THEN r ELSE receipt[q]]
          /\ AnsweredOnly("sign-complete", r, d)
    BY <1>11 DEF Submitted
  <2>2. "mine" \in Stages /\ "sign-complete" \in Topics /\ r \in Ids
    BY DEF Stages, Topics, Replies, Ids
  <2>3. receipt' \in [Requests -> Requests \cup {None}]
    BY <2>1 DEF TypeOK
  <2> QED BY <1>11, <2>1, <2>2, <2>3, AnsweredOnlyType DEF TypeOK, Submitted
<1>12. ASSUME NEW r \in Requests, NotSubmitted(r) PROVE TypeOK'
  <2>1. PICK d \in Dispatches(waiters["sign-complete"]) :
          Finalise(d.to, None) /\ AnsweredOnly("sign-complete", r, d)
    BY <1>12 DEF NotSubmitted
  <2>2. /\ "done" \in Stages /\ "sign-complete" \in Topics /\ r \in Ids
        /\ Users("sign-complete") = Requests
    BY DEF Stages, Topics, Replies, Ids, Users
  <2>3. bus' \in Seq(Message)
    BY <2>1, <2>2, FinaliseType, DispatchUsers
  <2>4. MoveTo(d.to, "done")
    BY <2>1 DEF Finalise
  <2> QED BY <1>12, <2>1, <2>2, <2>3, <2>4, AnsweredOnlyType DEF TypeOK, NotSubmitted
<1>13. ASSUME NEW r \in Requests, Confirmed(r) PROVE TypeOK'
  <2>1. <<r>> \in Seq(Requests) /\ receipt[r] \in Requests \cup {None}
    BY DEF TypeOK
  <2> QED BY <1>13, <2>1, FinaliseType DEF TypeOK, Confirmed
<1>14. ASSUME NEW r \in Requests, NotConfirmed(r) PROVE TypeOK'
  <2>1. <<r>> \in Seq(Requests)
    OBVIOUS
  <2> QED BY <1>14, <2>1, FinaliseType DEF TypeOK, NotConfirmed
<1>15. ASSUME DeliverOpen PROVE TypeOK'
  <2>1. /\ Tail(bus) \in Seq(Message)
        /\ Head(bus).payload \in Payload
    BY <1>15, FirstMessage DEF DeliverOpen
  <2>2. AtAccount(Head(bus).payload, newAccount) \in Payload
    BY <2>1 DEF AtAccount, Payload, TypeOK
  <2> QED BY <1>15, <2>1, <2>2 DEF TypeOK, DeliverOpen
<1>16. ASSUME DeliverFinalise PROVE TypeOK'
  <2>1. /\ Tail(bus) \in Seq(Message)
        /\ Head(bus).tx \in Requests \cup {None}
    BY <1>16, FirstMessage DEF DeliverFinalise
  <2> QED BY <1>16, <2>1 DEF TypeOK, DeliverFinalise
<1>17. ASSUME DeliverAccountsChanged PROVE TypeOK'
  <2>1. /\ Tail(bus) \in Seq(Message)
        /\ Head(bus).account \in MaybeAccount
    BY <1>17, FirstMessage DEF DeliverAccountsChanged
  <2>2. drawer' \in [opened : BOOLEAN, loading : BOOLEAN, payload : Payload \cup {None}]
    <3>1. CASE drawer.payload = None
      BY <1>17, <3>1 DEF DeliverAccountsChanged, TypeOK
    <3>2. CASE drawer.payload # None
      <4>1. drawer.payload \in Payload
        BY <3>2 DEF TypeOK
      <4>2. AtAccount(drawer.payload, Head(bus).account) \in Payload
        BY <2>1, <4>1 DEF AtAccount, Payload
      <4> QED BY <1>17, <3>2, <4>2 DEF DeliverAccountsChanged, TypeOK
    <3> QED BY <3>1, <3>2
  <2> QED BY <1>17, <2>1, <2>2 DEF TypeOK, DeliverAccountsChanged
<1>18. ASSUME Decide PROVE TypeOK'
  <2>1. drawer.payload \in Payload
    BY <1>18 DEF Decide, GetGas, Cancel, ButtonsEnabled, TypeOK
  <2>2. Decision(TRUE) \in Message /\ Decision(FALSE) \in Message
    BY <2>1 DEF Decision, Message
  <2>a. bus' \in Seq(Message)
    <3>1. bus \in Seq(Message)
      BY DEF TypeOK
    <3>2. Append(bus, Decision(TRUE)) \in Seq(Message) /\ Append(bus, Decision(FALSE)) \in Seq(Message)
      BY <2>2, <3>1, AppendProperties
    <3> QED BY <1>18, <3>2 DEF Decide, GetGas, Cancel
  <2>b. drawer' \in [opened : BOOLEAN, loading : BOOLEAN, payload : Payload \cup {None}]
    BY <1>18 DEF Decide, GetGas, Cancel, TypeOK
  <2>3. CASE GetGas
    BY <2>1, <2>3, <2>a, <2>b DEF TypeOK, GetGas
  <2>4. CASE Cancel
    BY <2>4, <2>a, <2>b DEF TypeOK, Cancel
  <2> QED BY <1>18, <2>3, <2>4 DEF Decide
<1>19. ASSUME CloseDrawer PROVE TypeOK'
  BY <1>19 DEF TypeOK, CloseDrawer
<1>20. ASSUME NEW s \in Switches, NEW account \in MaybeAccount, Switch(s, account)
       PROVE  TypeOK'
  BY <1>20 DEF TypeOK, Switch, Ask, Ids, Users, Stages, Topics, Replies, Listeners
<1>21. ASSUME NEW s \in Switches, Connected(s) PROVE TypeOK'
  <2>1. PICK d \in Dispatches(waiters["connect-wallet"]) :
          /\ MoveTo(d.to, "done")
          /\ AnsweredOnly("connect-wallet", s, d)
          /\ bus' = bus \o [k \in DOMAIN d.to |->
                     [topic |-> "mm:accountsChanged", account |-> switched[d.to[k]]]]
    BY <1>21 DEF Connected
  <2>2. /\ "connect-wallet" \in Topics /\ "done" \in Stages /\ s \in Ids
        /\ Users("connect-wallet") = Switches
    BY DEF Topics, Stages, Ids, Users
  <2>3. d.to \in Seq(Switches)
    BY <2>2, DispatchUsers
  <2>4. \A k \in DOMAIN d.to :
          [topic |-> "mm:accountsChanged", account |-> switched[d.to[k]]] \in Message
    BY <2>3 DEF Message, TypeOK
  <2>5. bus' \in Seq(Message)
    BY <2>1, <2>3, <2>4, BusExtends DEF TypeOK
  <2> QED BY <1>21, <2>1, <2>2, <2>5, AnsweredOnlyType DEF TypeOK, Connected
<1>22. ASSUME NEW s \in Switches, ConnectIgnored(s) PROVE TypeOK'
  BY <1>22 DEF TypeOK, ConnectIgnored, Topics
<1>23. ASSUME NEW r \in Requests, Relay(r) PROVE TypeOK'
  BY <1>23 DEF TypeOK, Relay, OnChain
<1>24. ASSUME NEW r \in Requests, ChainStep(r) PROVE TypeOK'
  <2>1. CASE Mine(r)
    <3>1. nonces' \in [Accounts -> Nat]
      <4> DEFINE o == Owner(r)
      <4>1. nonces' = [nonces EXCEPT ![o] = nonces[o] + 1] /\ nonces \in [Accounts -> Nat]
        BY <2>1 DEF Mine, TypeOK
      <4> HIDE DEF o
      <4>2. CASE o \in Accounts
        BY <4>1, <4>2
      <4>3. CASE o \notin Accounts
        BY <4>1, <4>3
      <4> QED BY <4>2, <4>3
    <3>2. metaTx' \in [Requests -> {"none", "posted"} \cup OnChain]
      BY <2>1 DEF Mine, TypeOK, OnChain
    <3> QED BY <2>1, <3>1, <3>2 DEF TypeOK, Mine
  <2>2. CASE Revert(r)
    BY <2>2 DEF TypeOK, Revert, OnChain
  <2> QED BY <1>24, <2>1, <2>2 DEF ChainStep
<1>25. ASSUME UNCHANGED vars PROVE TypeOK'
  BY <1>25 DEF TypeOK, vars
<1> QED
  BY <1>1, <1>2, <1>3, <1>4, <1>5, <1>6, <1>7, <1>8, <1>9, <1>10, <1>11, <1>12, <1>13,
     <1>14, <1>15, <1>16, <1>17, <1>18, <1>19, <1>20, <1>21, <1>22, <1>23, <1>24, <1>25
  DEF Next, Deliver, ValidateAnswer, SimulateAnswer, SubmitAnswer, PermitStep, MineAnswer

-----------------------------------------------------------------------------
(* Handlers.                                                               *)

Distinct(s) == \A k, l \in DOMAIN s : s[k] = s[l] => k = l

LEMMA SameInterval ==
  ASSUME NEW m \in Nat, NEW n \in Nat, 1..m = 1..n
  PROVE  m = n
<1>1. CASE m < n
  BY <1>1, n \in 1..n
<1>2. CASE n < m
  BY <1>2, m \in 1..m
<1> QED BY <1>1, <1>2

\* A dispatch reaches some handlers of the queue and leaves the others: none
\* is invented, none is both reached and left, and a queue that is not empty
\* gets shorter.
LEMMA DispatchSplits ==
  ASSUME NEW S, NEW s \in Seq(S), NEW d \in Dispatches(s), Distinct(s)
  PROVE  /\ \A k \in DOMAIN d.to : \E l \in DOMAIN s : d.to[k] = s[l]
         /\ \A k \in DOMAIN d.left : \E l \in DOMAIN s : d.left[k] = s[l]
         /\ \A k \in DOMAIN d.to, l \in DOMAIN d.left : d.to[k] # d.left[l]
         /\ Distinct(d.to) /\ Distinct(d.left)
         /\ s # <<>> => Len(d.left) < Len(s)
         /\ s = <<>> => d.left = <<>> /\ d.to = <<>>
<1>0. DOMAIN s = 1..Len(s) /\ Len(s) \in Nat
  OBVIOUS
<1>1. CASE d = [to |-> s, left |-> <<>>]
  BY <1>1 DEF Distinct
<1>2. CASE d = [to |-> OddPlaces(s), left |-> EvenPlaces(s)]
  <2>1. /\ d.to = [k \in 1..((Len(s) + 1) \div 2) |-> s[2 * k - 1]]
        /\ d.left = [k \in 1..(Len(s) \div 2) |-> s[2 * k]]
    BY <1>2 DEF OddPlaces, EvenPlaces
  <2>2. /\ \A k \in 1..((Len(s) + 1) \div 2) : 2 * k - 1 \in 1..Len(s)
        /\ \A k \in 1..(Len(s) \div 2) : 2 * k \in 1..Len(s)
    OBVIOUS
  <2>3. /\ DOMAIN d.to = 1..((Len(s) + 1) \div 2)
        /\ DOMAIN d.left = 1..(Len(s) \div 2)
    BY <2>1
  <2>4. /\ \A k \in DOMAIN d.to : \E l \in DOMAIN s : d.to[k] = s[l]
        /\ \A k \in DOMAIN d.left : \E l \in DOMAIN s : d.left[k] = s[l]
    BY <2>1, <2>2, <2>3, <1>0
  <2>5. \A k \in DOMAIN d.to, l \in DOMAIN d.left : d.to[k] # d.left[l]
    <3> SUFFICES ASSUME NEW k \in DOMAIN d.to, NEW l \in DOMAIN d.left, d.to[k] = d.left[l]
                 PROVE  FALSE
      OBVIOUS
    <3>1. s[2 * k - 1] = s[2 * l] /\ 2 * k - 1 \in 1..Len(s) /\ 2 * l \in 1..Len(s)
      BY <2>1, <2>2, <2>3
    <3>2. 2 * k - 1 = 2 * l
      BY <3>1, <1>0 DEF Distinct
    <3> QED BY <3>2, <2>3
  <2>6. Distinct(d.to)
    <3> SUFFICES ASSUME NEW k \in DOMAIN d.to, NEW l \in DOMAIN d.to, d.to[k] = d.to[l]
                 PROVE  k = l
      BY DEF Distinct
    <3>1. s[2 * k - 1] = s[2 * l - 1] /\ 2 * k - 1 \in 1..Len(s) /\ 2 * l - 1 \in 1..Len(s)
      BY <2>1, <2>2, <2>3
    <3>2. 2 * k - 1 = 2 * l - 1
      BY <3>1, <1>0 DEF Distinct
    <3> QED BY <3>2, <2>3
  <2>7. Distinct(d.left)
    <3> SUFFICES ASSUME NEW k \in DOMAIN d.left, NEW l \in DOMAIN d.left, d.left[k] = d.left[l]
                 PROVE  k = l
      BY DEF Distinct
    <3>1. s[2 * k] = s[2 * l] /\ 2 * k \in 1..Len(s) /\ 2 * l \in 1..Len(s)
      BY <2>1, <2>2, <2>3
    <3>2. 2 * k = 2 * l
      BY <3>1, <1>0 DEF Distinct
    <3> QED BY <3>2, <2>3
  <2>8. Len(d.left) = Len(s) \div 2 /\ Len(d.to) = (Len(s) + 1) \div 2
    <3>1. d.to \in Seq(S) /\ d.left \in Seq(S)
      BY DispatchType
    <3>2. /\ Len(d.left) \in Nat /\ DOMAIN d.left = 1..Len(d.left)
          /\ Len(d.to) \in Nat /\ DOMAIN d.to = 1..Len(d.to)
      BY <3>1
    <3>3. Len(s) \div 2 \in Nat /\ (Len(s) + 1) \div 2 \in Nat
      BY <1>0
    <3> QED BY <2>3, <3>2, <3>3, SameInterval
  <2>9. s # <<>> => Len(d.left) < Len(s)
    <3>1. s # <<>> => Len(s) > 0
      BY EmptySeq
    <3> QED BY <3>1, <2>8, <1>0
  <2>10. s = <<>> => d.left = <<>> /\ d.to = <<>>
    <3> SUFFICES ASSUME s = <<>> PROVE d.left = <<>> /\ d.to = <<>>
      OBVIOUS
    <3>1. Len(s) = 0
      OBVIOUS
    <3>2. Len(d.left) = 0 /\ Len(d.to) = 0
      BY <2>8, <3>1
    <3>3. d.to \in Seq(S) /\ d.left \in Seq(S)
      BY DispatchType
    <3> QED BY <3>2, <3>3, EmptySeq
  <2> QED BY <2>4, <2>5, <2>6, <2>7, <2>9, <2>10
<1> QED BY <1>1, <1>2 DEF Dispatches

LEMMA StagesOfTopics ==
  /\ StageOf("tx-validate") = "validate" /\ StageOf("tx-simulate") = "simulate"
  /\ StageOf("accept") = "decide" /\ StageOf("sign-complete") = "submit"
  /\ StageOf("connect-wallet") = "connect"
  /\ \A t, u \in Topics : StageOf(t) = StageOf(u) => t = u
<1>1. /\ StageOf("tx-validate") = "validate" /\ StageOf("tx-simulate") = "simulate"
      /\ StageOf("accept") = "decide" /\ StageOf("sign-complete") = "submit"
      /\ StageOf("connect-wallet") = "connect"
  BY DEF StageOf
<1> QED BY <1>1 DEF Topics, Replies

\* Only the handlers of a dispatch move on: whoever they belong to was waiting
\* for the topic, and is not among the handlers left.
LEMMA Reached ==
  ASSUME TypeOK, NoStaleHandler, NEW t \in Topics, NEW d \in Dispatches(waiters[t])
  PROVE  /\ \A i \in Listeners(d.to) : i \in Ids /\ pc[i] = StageOf(t)
         /\ \A i \in Listeners(d.left) : pc[i] = StageOf(t) /\ i \notin Listeners(d.to)
         /\ Distinct(d.to) /\ Distinct(d.left)
         /\ d.to \in Seq(Ids) /\ d.left \in Seq(Ids)
<1>1. waiters[t] \in Seq(Ids) /\ Distinct(waiters[t])
  BY DEF TypeOK, NoStaleHandler, Distinct
<1>2. /\ \A k \in DOMAIN d.to : \E l \in DOMAIN waiters[t] : d.to[k] = waiters[t][l]
      /\ \A k \in DOMAIN d.left : \E l \in DOMAIN waiters[t] : d.left[k] = waiters[t][l]
      /\ \A k \in DOMAIN d.to, l \in DOMAIN d.left : d.to[k] # d.left[l]
      /\ Distinct(d.to) /\ Distinct(d.left)
  BY <1>1, DispatchSplits
<1>3. d.to \in Seq(Ids) /\ d.left \in Seq(Ids)
  BY <1>1, DispatchType
<1>4. \A l \in DOMAIN waiters[t] : waiters[t][l] \in Ids /\ pc[waiters[t][l]] = StageOf(t)
  BY <1>1 DEF NoStaleHandler
<1>5. \A i \in Listeners(d.to) : i \in Ids /\ pc[i] = StageOf(t)
  BY <1>2, <1>4 DEF Listeners
<1>6. \A i \in Listeners(d.left) : pc[i] = StageOf(t) /\ i \notin Listeners(d.to)
  BY <1>2, <1>4 DEF Listeners
<1> QED BY <1>2, <1>3, <1>5, <1>6

\* The handlers of a topic that is not dispatched are where they were.
LEMMA Untouched ==
  ASSUME TypeOK, NoStaleHandler, NEW t \in Topics, NEW d \in Dispatches(waiters[t]),
         NEW stage, MoveTo(d.to, stage), NEW u \in Topics, u # t
  PROVE  \A k \in DOMAIN waiters[u] : pc'[waiters[u][k]] = StageOf(u)
<1> TAKE k \in DOMAIN waiters[u]
<1>1. waiters[u][k] \in Ids /\ pc[waiters[u][k]] = StageOf(u)
  BY DEF TypeOK, NoStaleHandler
<1>2. StageOf(u) # StageOf(t)
  BY StagesOfTopics
<1>3. waiters[u][k] \notin Listeners(d.to)
  BY <1>1, <1>2, Reached
<1> QED BY <1>1, <1>3 DEF MoveTo

\* A dispatch whose handlers go on to wait for another topic.
LEMMA HandlersMove ==
  ASSUME TypeOK, NoStaleHandler, NEW t \in Topics, NEW next \in Topics, t # next,
         NEW d \in Dispatches(waiters[t]), MoveTo(d.to, StageOf(next)),
         waiters' = [waiters EXCEPT ![t] = d.left, ![next] = @ \o d.to]
  PROVE  NoStaleHandler'
<1> SUFFICES ASSUME NEW u \in Topics
             PROVE  /\ \A k \in DOMAIN waiters'[u] : pc'[waiters'[u][k]] = StageOf(u)
                    /\ Distinct(waiters'[u])
  BY DEF NoStaleHandler, Distinct
<1>0. /\ \A v \in Topics : waiters[v] \in Seq(Ids) /\ Distinct(waiters[v])
      /\ waiters' \in [Topics -> {waiters'[v] : v \in Topics}]
  BY DEF TypeOK, NoStaleHandler, Distinct
<1>1. CASE u = t
  <2>1. waiters'[u] = d.left
    BY <1>1 DEF TypeOK
  <2>2. \A k \in DOMAIN d.left : d.left[k] \in Ids
    BY Reached
  <2>3. \A k \in DOMAIN d.left : pc'[d.left[k]] = StageOf(t)
    BY <2>2, Reached DEF MoveTo, Listeners
  <2> QED BY <1>1, <2>1, <2>3, Reached
<1>2. CASE u = next
  <2> DEFINE s == waiters[next]
  <2>1. waiters'[u] = s \o d.to
    BY <1>2 DEF TypeOK
  <2>2. s \in Seq(Ids) /\ d.to \in Seq(Ids) /\ Distinct(s) /\ Distinct(d.to)
    BY <1>0, Reached
  <2>3. \A k \in DOMAIN s : pc'[s[k]] = StageOf(next) /\ s[k] \notin Listeners(d.to)
    <3> TAKE k \in DOMAIN s
    <3>1. pc[s[k]] = StageOf(next) /\ StageOf(next) # StageOf(t)
      BY StagesOfTopics DEF NoStaleHandler
    <3> QED BY <3>1, Reached, Untouched
  <2>4. \A k \in DOMAIN d.to : pc'[d.to[k]] = StageOf(next)
    BY <2>2 DEF MoveTo, Listeners
  <2>5. /\ DOMAIN (s \o d.to) = 1..(Len(s) + Len(d.to))
        /\ DOMAIN s = 1..Len(s) /\ DOMAIN d.to = 1..Len(d.to)
        /\ Len(s) \in Nat /\ Len(d.to) \in Nat
        /\ \A k \in 1..(Len(s) + Len(d.to)) :
             (s \o d.to)[k] = IF k <= Len(s) THEN s[k] ELSE d.to[k - Len(s)]
    <3> HIDE DEF s
    <3>1. s \o d.to \in Seq(Ids) /\ Len(s \o d.to) = Len(s) + Len(d.to)
      BY <2>2, ConcatProperties
    <3>2. /\ DOMAIN (s \o d.to) = 1..Len(s \o d.to)
          /\ DOMAIN s = 1..Len(s) /\ DOMAIN d.to = 1..Len(d.to)
          /\ Len(s) \in Nat /\ Len(d.to) \in Nat
      BY <2>2, <3>1, LenProperties
    <3> QED BY <2>2, <3>1, <3>2, ConcatProperties
  <2> HIDE DEF s
  <2>6. \A k \in DOMAIN (s \o d.to) : pc'[(s \o d.to)[k]] = StageOf(next)
    BY <2>3, <2>4, <2>5
  <2>7. Distinct(s \o d.to)
    <3> SUFFICES ASSUME NEW k \in 1..(Len(s) + Len(d.to)), NEW l \in 1..(Len(s) + Len(d.to)),
                        (s \o d.to)[k] = (s \o d.to)[l]
                 PROVE  k = l
      BY <2>5 DEF Distinct
    <3>0. \A j \in 1..Len(d.to) : d.to[j] \in Listeners(d.to)
      BY <2>5 DEF Listeners
    <3>1. CASE k <= Len(s) /\ l <= Len(s)
      BY <3>1, <2>2, <2>5 DEF Distinct
    <3>2. CASE k <= Len(s) /\ ~(l <= Len(s))
      <4>1. s[k] = d.to[l - Len(s)] /\ l - Len(s) \in 1..Len(d.to) /\ k \in 1..Len(s)
        BY <3>2, <2>5
      <4> QED BY <4>1, <3>0, <2>3, <2>5
    <3>3. CASE ~(k <= Len(s)) /\ l <= Len(s)
      <4>1. s[l] = d.to[k - Len(s)] /\ k - Len(s) \in 1..Len(d.to) /\ l \in 1..Len(s)
        BY <3>3, <2>5
      <4> QED BY <4>1, <3>0, <2>3, <2>5
    <3>4. CASE ~(k <= Len(s)) /\ ~(l <= Len(s))
      <4>1. /\ d.to[k - Len(s)] = d.to[l - Len(s)]
            /\ k - Len(s) \in 1..Len(d.to) /\ l - Len(s) \in 1..Len(d.to)
        BY <3>4, <2>5
      <4>2. k - Len(s) = l - Len(s)
        BY <4>1, <2>2, <2>5 DEF Distinct
      <4> QED BY <4>2, <2>5
    <3> QED BY <3>1, <3>2, <3>3, <3>4
  <2> QED BY <1>2, <2>1, <2>6, <2>7
<1>3. CASE u # t /\ u # next
  <2>1. waiters'[u] = waiters[u]
    BY <1>3 DEF TypeOK
  <2> QED BY <1>0, <1>3, <2>1, Untouched
<1> QED BY <1>1, <1>2, <1>3

\* A dispatch whose handlers wait for nothing more.
LEMMA HandlersLeave ==
  ASSUME TypeOK, NoStaleHandler, NEW t \in Topics, NEW d \in Dispatches(waiters[t]),
         NEW stage, MoveTo(d.to, stage), waiters' = [waiters EXCEPT ![t] = d.left]
  PROVE  NoStaleHandler'
<1> SUFFICES ASSUME NEW u \in Topics
             PROVE  /\ \A k \in DOMAIN waiters'[u] : pc'[waiters'[u][k]] = StageOf(u)
                    /\ Distinct(waiters'[u])
  BY DEF NoStaleHandler, Distinct
<1>1. CASE u = t
  <2>1. waiters'[u] = d.left
    BY <1>1 DEF TypeOK
  <2>2. \A k \in DOMAIN d.left : d.left[k] \in Ids
    BY Reached
  <2>3. \A k \in DOMAIN d.left : pc'[d.left[k]] = StageOf(t)
    BY <2>2, Reached DEF MoveTo, Listeners
  <2> QED BY <1>1, <2>1, <2>3, Reached
<1>2. CASE u # t
  <2>1. waiters'[u] = waiters[u] /\ Distinct(waiters[u])
    BY <1>2 DEF TypeOK, NoStaleHandler, Distinct
  <2> QED BY <1>2, <2>1, Untouched
<1> QED BY <1>1, <1>2

\* Somebody who was waiting for nothing registers for a topic.
LEMMA HandlerJoins ==
  ASSUME TypeOK, NoStaleHandler, NEW t \in Topics, NEW i \in Ids,
         \A u \in Topics : pc[i] # StageOf(u),
         pc' = [pc EXCEPT ![i] = StageOf(t)],
         waiters' = [waiters EXCEPT ![t] = @ \o <<i>>]
  PROVE  NoStaleHandler'
<1> SUFFICES ASSUME NEW u \in Topics
             PROVE  /\ \A k \in DOMAIN waiters'[u] : pc'[waiters'[u][k]] = StageOf(u)
                    /\ Distinct(waiters'[u])
  BY DEF NoStaleHandler, Distinct
<1>1. /\ waiters[u] \in Seq(Ids) /\ Distinct(waiters[u])
      /\ \A k \in DOMAIN waiters[u] : waiters[u][k] # i /\ pc'[waiters[u][k]] = StageOf(u)
  BY DEF TypeOK, NoStaleHandler, Distinct
<1>2. CASE u = t
  <2> DEFINE s == waiters[u]
  <2>1. waiters'[u] = s \o <<i>> /\ pc'[i] = StageOf(u)
    BY <1>2 DEF TypeOK
  <2>2. /\ DOMAIN (s \o <<i>>) = 1..(Len(s) + 1) /\ Len(s) \in Nat /\ DOMAIN s = 1..Len(s)
        /\ \A k \in 1..(Len(s) + 1) : (s \o <<i>>)[k] = IF k <= Len(s) THEN s[k] ELSE i
    BY <1>1
  <2>3. Distinct(s) /\ \A k \in DOMAIN s : s[k] # i /\ pc'[s[k]] = StageOf(u)
    BY <1>1
  <2> HIDE DEF s
  <2>4. \A k \in DOMAIN (s \o <<i>>) : pc'[(s \o <<i>>)[k]] = StageOf(u)
    BY <2>1, <2>2, <2>3
  <2>5. Distinct(s \o <<i>>)
    BY <2>2, <2>3 DEF Distinct
  <2> QED BY <2>1, <2>4, <2>5
<1>3. CASE u # t
  <2>1. waiters'[u] = waiters[u]
    BY <1>3 DEF TypeOK
  <2> QED BY <1>1, <2>1
<1> QED BY <1>2, <1>3

\* Somebody who was waiting for nothing goes on without registering.
LEMMA HandlersStay ==
  ASSUME TypeOK, NoStaleHandler, NEW i \in Ids, NEW stage,
         \A u \in Topics : pc[i] # StageOf(u),
         \A j \in Ids \ {i} : pc'[j] = pc[j],
         UNCHANGED waiters
  PROVE  NoStaleHandler'
<1> SUFFICES ASSUME NEW u \in Topics
             PROVE  \A k \in DOMAIN waiters[u] : pc'[waiters[u][k]] = StageOf(u)
  BY DEF NoStaleHandler
<1>1. waiters[u] \in Seq(Ids) /\ \A k \in DOMAIN waiters[u] : pc[waiters[u][k]] = StageOf(u)
  BY DEF TypeOK, NoStaleHandler
<1>2. \A k \in DOMAIN waiters[u] : waiters[u][k] \in Ids /\ waiters[u][k] # i
  BY <1>1
<1> QED BY <1>1, <1>2

LEMMA HandlerStep ==
  ASSUME TypeOK, NoStaleHandler, [Next]_vars
  PROVE  NoStaleHandler'
<1> USE DEF uiVars, chainVars, walletVars, pageVars
<1>0. /\ Replies \subseteq Topics /\ "accept" \in Topics /\ "connect-wallet" \in Topics
      /\ {"tx-validate", "tx-simulate", "sign-complete"} \subseteq Replies
      /\ Requests \subseteq Ids /\ Switches \subseteq Ids /\ pc \in [Ids -> Stages]
  BY DEF Topics, Replies, Ids, TypeOK
<1>1. \A i \in Ids : pc[i] \in {"new", "permit", "sign", "mine", "done"} =>
        \A u \in Topics : pc[i] # StageOf(u)
  BY StagesOfTopics DEF Topics, Replies
<1>2. ASSUME NEW r \in Requests, PassThrough(r) PROVE NoStaleHandler'
  BY <1>0, <1>1, <1>2, HandlersStay DEF PassThrough
<1>3. ASSUME NEW r \in Requests, Intercept(r) PROVE NoStaleHandler'
  BY <1>0, <1>1, <1>3, HandlerJoins, StagesOfTopics DEF Intercept, Ask
<1>4. ASSUME NEW r \in Requests, Validated(r) PROVE NoStaleHandler'
  <2>1. PICK d \in Dispatches(waiters["tx-validate"]) :
          MoveTo(d.to, "simulate") /\ Answered("tx-validate", r, d, "tx-simulate")
    BY <1>4 DEF Validated
  <2> QED BY <1>0, <2>1, HandlersMove, StagesOfTopics DEF Answered
<1>5. ASSUME NEW r \in Requests, NotValid(r) PROVE NoStaleHandler'
  <2>1. PICK d \in Dispatches(waiters["tx-validate"]) :
          MoveTo(d.to, "done") /\ AnsweredOnly("tx-validate", r, d)
    BY <1>5 DEF NotValid
  <2> QED BY <1>0, <2>1, HandlersLeave DEF AnsweredOnly
<1>6. ASSUME NEW r \in Requests, SimulateAnswer(r) PROVE NoStaleHandler'
  <2>1. PICK d \in Dispatches(waiters["tx-simulate"]) : AwaitDecision(r, d)
    BY <1>6 DEF SimulateAnswer, Simulated, NotSimulated
  <2> QED BY <1>0, <2>1, HandlersMove, StagesOfTopics DEF AwaitDecision
<1>7. ASSUME DeliverAccept PROVE NoStaleHandler'
  <2>1. PICK d \in Dispatches(waiters["accept"]) :
          /\ waiters' = [waiters EXCEPT !["accept"] = d.left]
          /\ \/ MoveTo(d.to, "permit")
             \/ MoveTo(d.to, "done")
    BY <1>7 DEF DeliverAccept, HandleAccept, StartPermit, GiveUp
  <2> QED BY <1>0, <2>1, HandlersLeave
<1>8. ASSUME NEW r \in Requests, BuildPermit(r) PROVE NoStaleHandler'
  BY <1>0, <1>1, <1>8, HandlersStay DEF BuildPermit
<1>9. ASSUME NEW r \in Requests, Sign(r) PROVE NoStaleHandler'
  BY <1>0, <1>1, <1>9, HandlerJoins, StagesOfTopics DEF Sign, Ask
<1>10. ASSUME NEW r \in Requests, pc[r] \in {"permit", "sign", "mine"},
              NEW tx, Finalise(<<r>>, tx), UNCHANGED waiters
       PROVE  NoStaleHandler'
  <2>1. \A j \in Ids \ {r} : pc'[j] = pc[j]
    BY <1>10 DEF Finalise, MoveTo, Listeners
  <2> QED BY <1>0, <1>1, <1>10, <2>1, HandlersStay
<1>11. ASSUME NEW r \in Requests, NotSigned(r) \/ MineAnswer(r) PROVE NoStaleHandler'
  BY <1>10, <1>11 DEF NotSigned, MineAnswer, Confirmed, NotConfirmed
<1>12. ASSUME NEW r \in Requests, SubmitAnswer(r) PROVE NoStaleHandler'
  <2>1. PICK d \in Dispatches(waiters["sign-complete"]) :
          /\ waiters' = [waiters EXCEPT !["sign-complete"] = d.left]
          /\ \/ MoveTo(d.to, "mine")
             \/ MoveTo(d.to, "done")
    BY <1>12 DEF SubmitAnswer, Submitted, NotSubmitted, AnsweredOnly, Finalise
  <2> QED BY <1>0, <2>1, HandlersLeave
<1>13. ASSUME NEW s \in Switches, NEW account \in MaybeAccount, Switch(s, account)
       PROVE  NoStaleHandler'
  BY <1>0, <1>1, <1>13, HandlerJoins, StagesOfTopics DEF Switch, Ask
<1>14. ASSUME NEW s \in Switches, Connected(s) PROVE NoStaleHandler'
  <2>1. PICK d \in Dispatches(waiters["connect-wallet"]) :
          MoveTo(d.to, "done") /\ AnsweredOnly("connect-wallet", s, d)
    BY <1>14 DEF Connected
  <2> QED BY <1>0, <2>1, HandlersLeave DEF AnsweredOnly
<1>15. ASSUME UNCHANGED <<pc, waiters>> PROVE NoStaleHandler'
  BY <1>15 DEF NoStaleHandler
<1>16. ASSUME NEW s \in Switches, ConnectIgnored(s) PROVE NoStaleHandler'
  BY <1>15, <1>16 DEF ConnectIgnored
<1>17. ASSUME NEW r \in Requests, Relay(r) \/ ChainStep(r) PROVE NoStaleHandler'
  BY <1>15, <1>17 DEF Relay, ChainStep, Mine, Revert
<1>18. ASSUME \/ DeliverOpen \/ DeliverFinalise \/ DeliverAccountsChanged
              \/ Decide \/ CloseDrawer
       PROVE  NoStaleHandler'
  BY <1>15, <1>18
  DEF DeliverOpen, DeliverFinalise, DeliverAccountsChanged, Decide, GetGas, Cancel, CloseDrawer
<1>19. ASSUME UNCHANGED vars PROVE NoStaleHandler'
  BY <1>15, <1>19 DEF vars
<1> QED
  BY <1>2, <1>3, <1>4, <1>5, <1>6, <1>7, <1>8, <1>9, <1>11, <1>12, <1>13, <1>14, <1>16,
     <1>17, <1>18, <1>19
  DEF Next, Deliver, ValidateAnswer, PermitStep

-----------------------------------------------------------------------------
(* What the user agreed to, and what was announced.                        *)

\* An accept message carries what the user agreed to, and a sign-finalise with
\* a transaction a mined one.
GoodMessage ==
  {m \in Message :
     /\ m.topic = "accept" => (m.accepted => m.payload \in agreed)
     /\ m.topic = "sign-finalise" => (m.tx # None => metaTx[m.tx] = "mined")}

Unposted == {"new", "validate", "simulate", "decide", "permit", "sign"}

Ledger ==
  /\ bus \in Seq(GoodMessage)
  /\ \A r \in notices : metaTx[r] = "mined"
  /\ SignerKnown
  /\ \A r \in Requests :
       /\ pc[r] \in {"permit", "sign"} \/ permit[r] # NoPermit \/ metaTx[r] # "none"
            => grant[r] \in agreed
       /\ pc[r] \in Unposted => metaTx[r] = "none"
       /\ pc[r] = "mine" => receipt[r] # None

\* Agreement is never withdrawn and what is mined stays mined, so a good
\* message stays good while it is on the bus.
LEMMA MessagesStayGood ==
  ASSUME agreed \subseteq agreed',
         \A r \in Requests : metaTx[r] = "mined" => metaTx'[r] = "mined",
         NEW b \in Seq(GoodMessage)
  PROVE  b \in Seq(GoodMessage')
<1>1. \A m \in Message : m.topic = "sign-finalise" => m.tx \in Requests \cup {None}
  BY DEF Message
<1>2. GoodMessage \subseteq GoodMessage'
  BY <1>1 DEF GoodMessage, Message
<1> QED BY <1>2, SeqMonotonic

\* Closing messages without a transaction, and prompts, are always good.
LEMMA PlainMessages ==
  ASSUME NEW S, NEW ids \in Seq(S), NEW m, m \in [DOMAIN ids -> Message],
         \A k \in DOMAIN ids :
           m[k].topic \notin {"open", "mm:accountsChanged"} =>
             m[k].topic = "sign-finalise" /\ m[k].tx = None
  PROVE  m \in Seq(GoodMessage)
<1>1. \A k \in DOMAIN ids : m[k] \in GoodMessage
  BY DEF GoodMessage
<1>2. DOMAIN ids = 1..Len(ids) /\ Len(ids) \in Nat
  OBVIOUS
<1> QED BY <1>1, <1>2

LEMMA FinaliseNone ==
  ASSUME NEW ids \in Seq(Requests), Finalise(ids, None), bus \in Seq(GoodMessage)
  PROVE  bus' \in Seq(GoodMessage)
<1> DEFINE m == [k \in DOMAIN ids |-> [topic |-> "sign-finalise", tx |-> None]]
<1>1. m \in [DOMAIN ids -> Message]
  BY DEF Message
<1>2. m \in Seq(GoodMessage)
  BY <1>1, PlainMessages
<1>3. bus' = bus \o m
  BY DEF Finalise
<1> QED BY <1>2, <1>3, Joins

LEMMA LedgerStep ==
  ASSUME TypeOK, NoStaleHandler, Ledger, [Next]_vars
  PROVE  Ledger'
<1> USE DEF uiVars, chainVars, walletVars, pageVars
<1>0. /\ Replies \subseteq Topics /\ "accept" \in Topics /\ "connect-wallet" \in Topics
      /\ {"tx-validate", "tx-simulate", "sign-complete"} \subseteq Replies
      /\ Users("tx-validate") = Requests /\ Users("tx-simulate") = Requests
      /\ Users("accept") = Requests /\ Users("sign-complete") = Requests
      /\ Users("connect-wallet") = Switches
      /\ Requests \subseteq Ids /\ Switches \subseteq Ids
      /\ pc \in [Ids -> Stages]
      /\ None \notin Requests
  BY FacadeAssumption DEF Topics, Replies, Ids, TypeOK, Users
\* Steps that touch neither the history nor the grants.
<1>1. ASSUME UNCHANGED <<grant, permit, receipt, metaTx, agreed, notices>>,
             bus' \in Seq(GoodMessage),
             \A r \in Requests : \/ pc'[r] = pc[r]
                                 \/ pc'[r] = "done"
                                 \/ pc[r] \in Unposted /\ pc'[r] \in {"validate", "simulate", "decide"}
      PROVE  Ledger'
  <2>1. bus' \in Seq(GoodMessage')
    BY <1>1, MessagesStayGood
  <2> QED BY <1>1, <2>1 DEF Ledger, SignerKnown, Unposted
<1>2. ASSUME NEW r \in Requests, PassThrough(r) \/ Intercept(r) PROVE Ledger'
  BY <1>0, <1>1, <1>2 DEF PassThrough, Intercept, Ledger, Unposted
<1>3. ASSUME NEW r \in Requests, ValidateAnswer(r) PROVE Ledger'
  <2>1. PICK d \in Dispatches(waiters["tx-validate"]) :
          MoveTo(d.to, "simulate") \/ MoveTo(d.to, "done")
    BY <1>3 DEF ValidateAnswer, Validated, NotValid
  <2>2. \A q \in Requests : \/ pc'[q] = pc[q]
                            \/ pc'[q] = "done"
                            \/ pc[q] \in Unposted /\ pc'[q] \in {"validate", "simulate", "decide"}
    BY <1>0, <2>1, Reached, StagesOfTopics DEF MoveTo, Unposted
  <2> QED BY <1>1, <1>3, <2>2 DEF ValidateAnswer, Validated, NotValid, Ledger
<1>4. ASSUME NEW r \in Requests, SimulateAnswer(r) PROVE Ledger'
  <2>1. PICK d \in Dispatches(waiters["tx-simulate"]) :
          /\ AwaitDecision(r, d)
          /\ \/ bus' = bus
             \/ bus' = bus \o [k \in DOMAIN d.to |-> OpenMessage(d.to[k], r)]
    BY <1>4 DEF SimulateAnswer, Simulated, NotSimulated
  <2>2. \A q \in Requests : \/ pc'[q] = pc[q]
                            \/ pc[q] \in Unposted /\ pc'[q] \in {"validate", "simulate", "decide"}
    BY <1>0, <2>1, Reached, StagesOfTopics DEF AwaitDecision, MoveTo, Unposted
  <2>3. bus' \in Seq(GoodMessage)
    <3> DEFINE m == [k \in DOMAIN d.to |-> OpenMessage(d.to[k], r)]
    <3>1. d.to \in Seq(Requests)
      BY <1>0, DispatchUsers
    <3>2. m \in [DOMAIN d.to -> Message]
      BY <3>1 DEF OpenMessage, Message, Payload, TypeOK
    <3>3. \A k \in DOMAIN d.to : m[k].topic = "open"
      BY DEF OpenMessage
    <3>4. m \in Seq(GoodMessage)
      <4> HIDE DEF m
      <4>1. \A k \in DOMAIN d.to :
          m[k].topic \notin {"open", "mm:accountsChanged"} =>
            m[k].topic = "sign-finalise" /\ m[k].tx = None
        BY <3>3
      <4> QED BY <3>1, <3>2, <4>1, PlainMessages
    <3> QED BY <2>1, <3>4, Joins DEF Ledger
  <2> QED BY <1>1, <1>4, <2>2, <2>3 DEF SimulateAnswer, Simulated, NotSimulated
<1>5. ASSUME DeliverAccept PROVE Ledger'
  <2>1. /\ bus # <<>> /\ Head(bus).topic = "accept"
        /\ UNCHANGED <<receipt, metaTx, agreed, notices>>
    BY <1>5 DEF DeliverAccept
  <2>2. PICK d \in Dispatches(waiters["accept"]) :
          IF Head(bus).accepted /\ wallet # None
          THEN StartPermit(Head(bus), d.to)
          ELSE GiveUp(d.to)
    BY <1>5 DEF DeliverAccept, HandleAccept
  <2>3. Head(bus) \in GoodMessage /\ Tail(bus) \in Seq(GoodMessage)
    BY <2>1, HeadTailProperties DEF Ledger
  <2>4. \A r \in Requests : r \in Listeners(d.to) => pc[r] = "decide"
    BY <1>0, Reached, StagesOfTopics
  <2>5. CASE Head(bus).accepted /\ wallet # None
    <3>1. StartPermit(Head(bus), d.to)
      BY <2>2, <2>5
    <3>2. Head(bus).payload \in agreed
      BY <2>1, <2>3, <2>5 DEF GoodMessage
    <3>3. bus' \in Seq(GoodMessage')
      BY <2>1, <2>3, <3>1, MessagesStayGood DEF StartPermit
    <3>4. wallet \in Accounts
      BY <2>5 DEF TypeOK, MaybeAccount
    <3>5. ASSUME NEW r \in Requests
          PROVE  /\ pc'[r] = "permit" => permit'[r].signer \in Accounts
                 /\ pc'[r] \in {"permit", "sign"} \/ permit'[r] # NoPermit \/ metaTx'[r] # "none"
                      => grant'[r] \in agreed'
                 /\ pc'[r] \in Unposted => metaTx'[r] = "none"
                 /\ pc'[r] = "mine" => receipt'[r] # None
      <4>1. CASE r \in Listeners(d.to)
        <5>1. /\ pc'[r] = "permit" /\ grant'[r] = Head(bus).payload
              /\ permit'[r] = [signer |-> wallet, nonce |-> 0]
          BY <1>0, <3>1, <4>1 DEF StartPermit, MoveTo
        <5>2. metaTx[r] = "none"
          BY <2>4, <4>1 DEF Ledger, Unposted
        <5> QED BY <2>1, <3>2, <3>4, <5>1, <5>2
      <4>2. CASE r \notin Listeners(d.to)
        <5>1. pc'[r] = pc[r] /\ grant'[r] = grant[r] /\ permit'[r] = permit[r]
          BY <1>0, <3>1, <4>2 DEF StartPermit, MoveTo
        <5> QED BY <2>1, <5>1 DEF Ledger, SignerKnown
      <4> QED BY <4>1, <4>2
    <3> QED BY <2>1, <3>3, <3>5 DEF Ledger, SignerKnown
  <2>6. CASE ~(Head(bus).accepted /\ wallet # None)
    <3>1. GiveUp(d.to)
      BY <2>2, <2>6
    <3> DEFINE m == [k \in DOMAIN d.to |-> [topic |-> "sign-finalise", tx |-> None]]
    <3>2. m \in [DOMAIN d.to -> Message]
      BY DEF Message
    <3>3. d.to \in Seq(Requests)
      BY <1>0, DispatchUsers
    <3>4. m \in Seq(GoodMessage)
      BY <3>2, <3>3, PlainMessages
    <3>5. bus' \in Seq(GoodMessage)
      BY <2>3, <3>1, <3>4, Joins DEF GiveUp
    <3>6. \A r \in Requests : pc'[r] = pc[r] \/ pc'[r] = "done"
      BY <1>0, <3>1 DEF GiveUp, MoveTo
    <3> QED BY <1>1, <2>1, <3>1, <3>5, <3>6 DEF GiveUp
  <2> QED BY <2>5, <2>6
<1>6. ASSUME NEW r \in Requests, BuildPermit(r) PROVE Ledger'
  <2>1. bus' \in Seq(GoodMessage')
    BY <1>6, MessagesStayGood DEF BuildPermit, Ledger
  <2>2. grant[r] \in agreed /\ metaTx[r] = "none"
    BY <1>6 DEF BuildPermit, Ledger, Unposted
  <2>3. \A q \in Requests \ {r} : pc'[q] = pc[q] /\ permit'[q] = permit[q]
    BY <1>0, <1>6 DEF BuildPermit, TypeOK
  <2>4. pc'[r] = "sign"
    BY <1>0, <1>6 DEF BuildPermit
  <2> QED BY <1>6, <2>1, <2>2, <2>3, <2>4 DEF BuildPermit, Ledger, SignerKnown
<1>7. ASSUME NEW r \in Requests, Sign(r) PROVE Ledger'
  <2>1. /\ pc'[r] = "submit" /\ metaTx'[r] = "posted" /\ metaTx[r] = "none"
        /\ grant[r] \in agreed
    BY <1>0, <1>7 DEF Sign, Ledger, Unposted, TypeOK
  <2>2. \A q \in Requests \ {r} : pc'[q] = pc[q] /\ metaTx'[q] = metaTx[q]
    BY <1>0, <1>7 DEF Sign, TypeOK
  <2>3. \A q \in Requests : metaTx[q] = "mined" => metaTx'[q] = "mined"
    BY <2>1, <2>2
  <2>4. bus' \in Seq(GoodMessage')
    BY <1>7, <2>3, MessagesStayGood DEF Sign, Ledger
  <2>5. \A q \in notices' : metaTx'[q] = "mined"
    BY <1>7, <2>3 DEF Sign, Ledger, TypeOK
  <2> QED BY <1>7, <2>1, <2>2, <2>4, <2>5 DEF Sign, Ledger, SignerKnown, Unposted
<1>8. ASSUME NEW r \in Requests, NotSigned(r) \/ NotConfirmed(r) PROVE Ledger'
  <2>1. Finalise(<<r>>, None) /\ <<r>> \in Seq(Requests)
    BY <1>8 DEF NotSigned, NotConfirmed
  <2>2. bus' \in Seq(GoodMessage)
    BY <2>1, FinaliseNone DEF Ledger
  <2>3. \A q \in Requests : pc'[q] = pc[q] \/ pc'[q] = "done"
    BY <1>0, <2>1 DEF Finalise, MoveTo
  <2> QED BY <1>1, <1>8, <2>2, <2>3 DEF NotSigned, NotConfirmed
<1>9. ASSUME NEW r \in Requests, Submitted(r) PROVE Ledger'
  <2>1. PICK d \in Dispatches(waiters["sign-complete"]) :
          /\ MoveTo(d.to, "mine")
          /\ receipt' = [q \in Requests |-> IF q \in Listeners(d.to) THEN r ELSE receipt[q]]
    BY <1>9 DEF Submitted
  <2>2. bus' \in Seq(GoodMessage')
    BY <1>9, MessagesStayGood DEF Submitted, Ledger
  <2>3. \A q \in Requests : \/ pc'[q] = "mine" /\ receipt'[q] = r
                            \/ pc'[q] = pc[q] /\ receipt'[q] = receipt[q]
    BY <1>0, <2>1 DEF MoveTo
  <2> QED BY <1>0, <1>9, <2>2, <2>3 DEF Submitted, Ledger, SignerKnown, Unposted
<1>10. ASSUME NEW r \in Requests, NotSubmitted(r) PROVE Ledger'
  <2>1. PICK d \in Dispatches(waiters["sign-complete"]) : Finalise(d.to, None)
    BY <1>10 DEF NotSubmitted
  <2>2. bus' \in Seq(GoodMessage)
    BY <1>0, <2>1, DispatchUsers, FinaliseNone DEF Ledger
  <2>3. \A q \in Requests : pc'[q] = pc[q] \/ pc'[q] = "done"
    BY <1>0, <2>1 DEF Finalise, MoveTo
  <2> QED BY <1>1, <1>10, <2>2, <2>3 DEF NotSubmitted
<1>11. ASSUME NEW r \in Requests, Confirmed(r) PROVE Ledger'
  <2>1. receipt[r] \in Requests /\ metaTx[receipt[r]] = "mined" /\ Finalise(<<r>>, receipt[r])
    BY <1>11 DEF Confirmed, Ledger, TypeOK
  <2>2. [topic |-> "sign-finalise", tx |-> receipt[r]] \in GoodMessage
    BY <2>1 DEF GoodMessage, Message
  <2>3. [k \in DOMAIN <<r>> |-> [topic |-> "sign-finalise", tx |-> receipt[r]]] \in Seq(GoodMessage)
    BY <2>2
  <2>4. bus' \in Seq(GoodMessage)
    BY <2>1, <2>3, Joins DEF Finalise, Ledger
  <2>5. \A q \in Requests : pc'[q] = pc[q] \/ pc'[q] = "done"
    BY <1>0, <2>1 DEF Finalise, MoveTo
  <2> QED BY <1>1, <1>11, <2>4, <2>5 DEF Confirmed
<1>12. ASSUME DeliverOpen \/ DeliverAccountsChanged PROVE Ledger'
  <2>1. bus' \in Seq(GoodMessage)
    BY <1>12, HeadTailProperties DEF DeliverOpen, DeliverAccountsChanged, Ledger
  <2> QED BY <1>1, <1>12, <2>1 DEF DeliverOpen, DeliverAccountsChanged
<1>13. ASSUME DeliverFinalise PROVE Ledger'
  <2>1. /\ bus # <<>> /\ Head(bus).topic = "sign-finalise"
        /\ notices' = notices \cup ({Head(bus).tx} \ {None})
        /\ bus' = Tail(bus)
        /\ UNCHANGED <<agreed, pageVars, chainVars>>
    BY <1>13 DEF DeliverFinalise
  <2>2. Head(bus) \in GoodMessage /\ Tail(bus) \in Seq(GoodMessage)
    BY <2>1, HeadTailProperties DEF Ledger
  <2>3. \A r \in notices' : metaTx[r] = "mined"
    BY <2>1, <2>2 DEF Ledger, GoodMessage
  <2>4. bus' \in Seq(GoodMessage')
    BY <2>1, <2>2, MessagesStayGood
  <2> QED BY <2>1, <2>3, <2>4 DEF Ledger, SignerKnown
<1>14. ASSUME Decide PROVE Ledger'
  <2>1. /\ drawer.payload \in Payload
        /\ agreed \subseteq agreed'
        /\ UNCHANGED <<notices, pageVars, chainVars>>
    BY <1>14 DEF Decide, GetGas, Cancel, ButtonsEnabled, TypeOK
  <2>2. Decision(TRUE) \in Message /\ Decision(FALSE) \in Message
    BY <2>1 DEF Decision, Message
  <2>3. PICK m \in GoodMessage' : bus' = Append(bus, m)
    <3>1. CASE GetGas
      <4>1. Decision(TRUE).payload \in agreed' /\ Decision(TRUE).topic = "accept"
        BY <3>1 DEF GetGas, Decision
      <4>2. Decision(TRUE) \in GoodMessage'
        BY <2>2, <4>1 DEF GoodMessage
      <4> QED BY <3>1, <4>2 DEF GetGas
    <3>2. CASE Cancel
      <4>1. ~Decision(FALSE).accepted /\ Decision(FALSE).topic = "accept"
        BY DEF Decision
      <4>2. Decision(FALSE) \in GoodMessage'
        BY <2>2, <4>1 DEF GoodMessage
      <4> QED BY <3>2, <4>2 DEF Cancel
    <3> QED BY <1>14, <3>1, <3>2 DEF Decide
  <2>4. bus \in Seq(GoodMessage')
    BY <2>1, MessagesStayGood DEF Ledger
  <2>5. bus' \in Seq(GoodMessage')
    BY <2>3, <2>4, AppendProperties
  <2> QED BY <2>1, <2>5 DEF Ledger, SignerKnown
<1>15. ASSUME CloseDrawer PROVE Ledger'
  BY <1>1, <1>15 DEF CloseDrawer, Ledger
<1>16. ASSUME NEW s \in Switches, NEW account \in MaybeAccount, Switch(s, account)
       PROVE  Ledger'
  <2>1. \A r \in Requests : pc'[r] = pc[r]
    BY <1>0, <1>16, FacadeAssumption DEF Switch
  <2> QED BY <1>1, <1>16, <2>1 DEF Switch, Ledger
<1>17. ASSUME NEW s \in Switches, Connected(s) PROVE Ledger'
  <2>1. PICK d \in Dispatches(waiters["connect-wallet"]) :
          /\ MoveTo(d.to, "done")
          /\ bus' = bus \o [k \in DOMAIN d.to |->
                     [topic |-> "mm:accountsChanged", account |-> switched[d.to[k]]]]
    BY <1>17 DEF Connected
  <2> DEFINE m == [k \in DOMAIN d.to |->
                     [topic |-> "mm:accountsChanged", account |-> switched[d.to[k]]]]
  <2>2. d.to \in Seq(Switches)
    BY <1>0, DispatchUsers
  <2>3. m \in [DOMAIN d.to -> Message]
    BY <2>2 DEF Message, TypeOK
  <2>4. m \in Seq(GoodMessage)
    <3>1. \A k \in DOMAIN d.to : m[k].topic = "mm:accountsChanged"
      OBVIOUS
    <3> HIDE DEF m
    <3>2. \A k \in DOMAIN d.to :
          m[k].topic \notin {"open", "mm:accountsChanged"} =>
            m[k].topic = "sign-finalise" /\ m[k].tx = None
      BY <3>1
    <3> QED BY <2>2, <2>3, <3>2, PlainMessages
  <2>5. bus' \in Seq(GoodMessage)
    BY <2>1, <2>4, Joins DEF Ledger
  <2>6. \A r \in Requests : pc'[r] = pc[r] \/ pc'[r] = "done"
    BY <1>0, <2>1 DEF MoveTo
  <2> QED BY <1>1, <1>17, <2>5, <2>6 DEF Connected
<1>18. ASSUME NEW s \in Switches, ConnectIgnored(s) PROVE Ledger'
  BY <1>1, <1>18 DEF ConnectIgnored, Ledger
<1>19. ASSUME NEW r \in Requests, Relay(r) \/ ChainStep(r) PROVE Ledger'
  <2>1. /\ metaTx[r] \in {"posted", "pending"}
        /\ metaTx'[r] # "none"
        /\ \A q \in Requests \ {r} : metaTx'[q] = metaTx[q]
        /\ UNCHANGED <<bus, pageVars, uiVars>>
    BY <1>19 DEF Relay, ChainStep, Mine, Revert, TypeOK
  <2>2. \A q \in Requests : metaTx[q] = "mined" => metaTx'[q] = "mined"
    BY <2>1
  <2>3. bus' \in Seq(GoodMessage')
    BY <2>1, <2>2, MessagesStayGood DEF Ledger
  <2>4. \A q \in notices' : metaTx'[q] = "mined"
    BY <2>1, <2>2 DEF Ledger, TypeOK
  <2>5. \A q \in Requests : /\ metaTx'[q] # "none" => metaTx[q] # "none"
                            /\ metaTx[q] = "none" => metaTx'[q] = "none"
    BY <2>1
  <2> QED BY <2>1, <2>3, <2>4, <2>5 DEF Ledger, SignerKnown
<1>20. ASSUME UNCHANGED vars PROVE Ledger'
  BY <1>1, <1>20 DEF vars, Ledger
<1> QED
  BY <1>2, <1>3, <1>4, <1>5, <1>6, <1>7, <1>8, <1>9, <1>10, <1>11, <1>12, <1>13, <1>14,
     <1>15, <1>16, <1>17, <1>18, <1>19, <1>20
  DEF Next, Deliver, PermitStep, SubmitAnswer, MineAnswer

-----------------------------------------------------------------------------
(* Calls.                                                                  *)

\* The stages of a request before it asks a question.
Before(t) ==
  CASE t = "tx-validate" -> {"new"}
    [] t = "tx-simulate" -> {"new", "validate"}
    [] t = "sign-complete" -> {"new", "validate", "simulate", "decide", "permit", "sign"}

\* A request asks each question once, so its call is not under way already when
\* it joins the calls of a topic.
AskedOnce == \A t \in Replies, r \in Requests : r \in calls[t] => pc[r] \notin Before(t)

CallsOK == AskedOnce /\ NoLostWaiter

\* A request's stage never goes back to one before a question.
Forward ==
  \A t \in Replies, r \in Requests : pc[r] \notin Before(t) => pc'[r] \notin Before(t)

LEMMA Stagings ==
  /\ Before("tx-validate") = {"new"}
  /\ Before("tx-simulate") = {"new", "validate"}
  /\ Before("sign-complete") = {"new", "validate", "simulate", "decide", "permit", "sign"}
BY DEF Before

\* The steps a request's stage can take.
LEMMA MovesForward ==
  ASSUME \A r \in Requests :
           \/ pc'[r] \in {pc[r], "done", "mine"}
           \/ pc[r] = "new" /\ pc'[r] = "validate"
           \/ pc[r] = "validate" /\ pc'[r] = "simulate"
           \/ pc[r] = "simulate" /\ pc'[r] = "decide"
           \/ pc[r] = "decide" /\ pc'[r] = "permit"
           \/ pc[r] = "permit" /\ pc'[r] = "sign"
           \/ pc[r] = "sign" /\ pc'[r] = "submit"
  PROVE  Forward
BY Stagings DEF Forward, Replies

LEMMA FiniteCalls ==
  ASSUME TypeOK, NEW t \in Replies
  PROVE  /\ IsFiniteSet(calls[t]) /\ calls[t] \subseteq Requests
         /\ waiters[t] \in Seq(Requests)
<1>1. calls[t] \subseteq Requests /\ waiters[t] \in Seq(Requests)
  BY DEF TypeOK, Topics, Replies, Users
<1> QED BY <1>1, FS_Subset, FacadeAssumption

\* Topics whose handlers and calls stay as they are.
LEMMA CallsStay ==
  ASSUME CallsOK, Forward, UNCHANGED calls,
         \A t \in Replies : waiters'[t] = waiters[t]
  PROVE  CallsOK'
BY DEF CallsOK, AskedOnce, NoLostWaiter, Forward

\* A request registers for an answer and asks.
LEMMA CallMade ==
  ASSUME TypeOK, CallsOK, Forward, NEW t \in Replies, NEW r \in Requests, Ask(t, <<r>>),
         pc[r] \in Before(t), pc'[r] \notin Before(t)
  PROVE  CallsOK'
<1>1. /\ waiters'[t] = waiters[t] \o <<r>> /\ calls'[t] = calls[t] \cup {r}
      /\ \A u \in Replies \ {t} : waiters'[u] = waiters[u] /\ calls'[u] = calls[u]
  BY DEF Ask, TypeOK, Topics, Replies, Listeners
<1>2. r \notin calls[t]
  BY DEF CallsOK, AskedOnce
<1>3. Len(waiters'[t]) = Len(waiters[t]) + 1
  BY <1>1, FiniteCalls
<1>4. Cardinality(calls'[t]) = Cardinality(calls[t]) + 1
  BY <1>1, <1>2, FiniteCalls, FS_AddElement
<1>5. Len(waiters[t]) \in Nat /\ Cardinality(calls[t]) \in Nat
  BY FiniteCalls, FS_CardinalityType
<1>6. Len(waiters'[t]) <= Cardinality(calls'[t])
  BY <1>3, <1>4, <1>5 DEF CallsOK, NoLostWaiter
<1>7. NoLostWaiter'
  BY <1>1, <1>6 DEF CallsOK, NoLostWaiter
<1>8. AskedOnce'
  BY <1>1 DEF CallsOK, AskedOnce, Forward
<1> QED BY <1>7, <1>8 DEF CallsOK

\* A call is answered: the queue gets shorter by one handler at least, if there is
\* one, and the calls by one.
LEMMA CallOver ==
  ASSUME TypeOK, NoStaleHandler, NoLostWaiter, NEW t \in Replies, NEW r \in calls[t],
         NEW d \in Dispatches(waiters[t])
  PROVE  Len(d.left) <= Cardinality(calls[t] \ {r})
<1>1. waiters[t] \in Seq(Requests) /\ Distinct(waiters[t]) /\ IsFiniteSet(calls[t])
  BY FiniteCalls DEF NoStaleHandler, Distinct, Topics
<1>2. /\ waiters[t] # <<>> => Len(d.left) < Len(waiters[t])
      /\ waiters[t] = <<>> => d.left = <<>>
  BY <1>1, DispatchSplits
<1>3. d.left \in Seq(Requests)
  BY <1>1, DispatchType
<1>4. Cardinality(calls[t] \ {r}) = Cardinality(calls[t]) - 1
  BY <1>1, FS_RemoveElement
<1>5. /\ Cardinality(calls[t] \ {r}) \in Nat /\ Cardinality(calls[t]) \in Nat
  BY <1>1, FS_RemoveElement, FS_CardinalityType
<1>6. Len(waiters[t]) \in Nat /\ Len(d.left) \in Nat
  BY <1>1, <1>3
<1>7. Len(waiters[t]) <= Cardinality(calls[t])
  BY DEF NoLostWaiter
<1>8. CASE waiters[t] = <<>>
  <2>1. Len(d.left) = 0
    BY <1>2, <1>8
  <2> QED BY <1>5, <2>1
<1>9. CASE waiters[t] # <<>>
  BY <1>2, <1>4, <1>5, <1>6, <1>7, <1>9
<1> QED BY <1>8, <1>9

\* An answer whose handlers ask nothing more.
LEMMA CallAnswered ==
  ASSUME TypeOK, NoStaleHandler, CallsOK, Forward, NEW t \in Replies, NEW r \in calls[t],
         NEW d \in Dispatches(waiters[t]),
         waiters'[t] = d.left, calls'[t] = calls[t] \ {r},
         \A u \in Replies \ {t} : waiters'[u] = waiters[u] /\ calls'[u] = calls[u]
  PROVE  CallsOK'
<1>1. Len(d.left) <= Cardinality(calls[t] \ {r})
  BY CallOver DEF CallsOK
<1>2. NoLostWaiter'
  BY <1>1 DEF CallsOK, NoLostWaiter
<1>3. AskedOnce'
  BY DEF CallsOK, AskedOnce, Forward
<1> QED BY <1>2, <1>3 DEF CallsOK

\* As many calls are made for a queue of handlers as it has handlers.
LEMMA CallsOfQueue ==
  ASSUME NEW s \in Seq(Requests), Distinct(s)
  PROVE  Cardinality(Listeners(s)) = Len(s) /\ IsFiniteSet(Listeners(s))
<1>1. /\ Len(s) \in Nat /\ DOMAIN s = 1 .. Len(s) /\ s = [k \in 1 .. Len(s) |-> s[k]]
  OBVIOUS
<1>2. s \in Bijection(1 .. Len(s), Listeners(s))
  <2>1. s \in [1 .. Len(s) -> Listeners(s)]
    BY <1>1 DEF Listeners
  <2>2. \A k, l \in 1 .. Len(s) : s[k] = s[l] => k = l
    BY <1>1 DEF Distinct
  <2>3. \A x \in Listeners(s) : \E k \in 1 .. Len(s) : s[k] = x
    BY <1>1 DEF Listeners
  <2> QED BY <2>1, <2>2, <2>3, Fun_IsBij
<1>3. IsFiniteSet(1 .. Len(s)) /\ Cardinality(1 .. Len(s)) = Len(s)
  <2>1. 1 \in Int /\ Len(s) \in Int
    BY <1>1
  <2>2. /\ IsFiniteSet(1 .. Len(s))
        /\ Cardinality(1 .. Len(s)) = IF 1 > Len(s) THEN 0 ELSE Len(s) - 1 + 1
    BY <2>1, FS_Interval
  <2>3. PICK n : n = Cardinality(1 .. Len(s))
    OBVIOUS
  <2>4. n = Len(s)
    BY <1>1, <2>2, <2>3
  <2> QED BY <2>2, <2>3, <2>4
<1>4. ExistsBijection(1 .. Len(s), Listeners(s))
  BY <1>2, Fun_ExistsBij
<1> QED BY <1>3, <1>4, FS_Bijection

\* A queue and its calls grow by the handlers that join and the calls they make.
LEMMA QueuesGrow ==
  ASSUME NEW s \in Seq(Requests), NEW t \in Seq(Requests), Distinct(t),
         NEW c, IsFiniteSet(c), Len(s) <= Cardinality(c), c \cap Listeners(t) = {}
  PROVE  Len(s \o t) <= Cardinality(c \cup Listeners(t))
<1>1. IsFiniteSet(Listeners(t)) /\ Cardinality(Listeners(t)) = Len(t)
  BY CallsOfQueue
<1>2. Cardinality(c \cup Listeners(t))
        = Cardinality(c) + Cardinality(Listeners(t)) - Cardinality({})
  BY <1>1, FS_Union
<1>3. Cardinality({}) = 0 /\ Cardinality(c) \in Nat
  BY FS_EmptySet, FS_CardinalityType
<1>4. Len(s \o t) = Len(s) + Len(t) /\ Len(s) \in Nat /\ Len(t) \in Nat
  BY ConcatProperties
<1> QED BY <1>1, <1>2, <1>3, <1>4

\* The answer to a validation: its handlers ask for a simulation.
LEMMA CallsMove ==
  ASSUME TypeOK, NoStaleHandler, CallsOK, Forward, NEW r \in calls["tx-validate"],
         NEW d \in Dispatches(waiters["tx-validate"]), MoveTo(d.to, "simulate"),
         Answered("tx-validate", r, d, "tx-simulate")
  PROVE  CallsOK'
<1>0. /\ "tx-validate" \in Replies /\ "tx-simulate" \in Replies /\ Replies \subseteq Topics
      /\ Requests \subseteq Ids
  BY DEF Replies, Topics, Ids
<1> DEFINE s == waiters["tx-simulate"]
           c == calls["tx-simulate"]
<1>1. /\ waiters'["tx-validate"] = d.left /\ calls'["tx-validate"] = calls["tx-validate"] \ {r}
      /\ waiters'["tx-simulate"] = s \o d.to /\ calls'["tx-simulate"] = c \cup Listeners(d.to)
      /\ waiters'["sign-complete"] = waiters["sign-complete"]
      /\ calls'["sign-complete"] = calls["sign-complete"]
  BY DEF Answered, TypeOK, Topics, Replies
<1>2. d.to \in Seq(Requests)
  BY <1>0, FiniteCalls, DispatchType
<1>3. Distinct(d.to) /\ \A q \in Listeners(d.to) : pc[q] = "validate"
  BY <1>0, Reached, StagesOfTopics
<1>4. /\ \A q \in Listeners(d.to) : q \in Requests /\ q \notin c
      /\ \A q \in Listeners(d.to) : pc'[q] = "simulate"
  BY <1>0, <1>2, <1>3, Stagings DEF Listeners, CallsOK, AskedOnce, MoveTo
<1>5. Len(s \o d.to) <= Cardinality(c \cup Listeners(d.to))
  <2>1. IsFiniteSet(c) /\ Len(s) <= Cardinality(c) /\ s \in Seq(Requests)
    BY <1>0, FiniteCalls DEF CallsOK, NoLostWaiter
  <2>2. c \cap Listeners(d.to) = {}
    BY <1>4
  <2> HIDE DEF s, c
  <2> QED BY <1>2, <1>3, <2>1, <2>2, QueuesGrow
<1>6. Len(d.left) <= Cardinality(calls["tx-validate"] \ {r})
  BY <1>0, CallOver DEF CallsOK
<1> HIDE DEF s, c
<1>7. NoLostWaiter'
  BY <1>1, <1>5, <1>6 DEF CallsOK, NoLostWaiter, Replies
<1>8. AskedOnce'
  <2> SUFFICES ASSUME NEW t \in Replies, NEW q \in Requests, q \in calls'[t]
               PROVE  pc'[q] \notin Before(t)
    BY DEF AskedOnce
  <2>1. CASE q \in calls[t]
    BY <2>1 DEF CallsOK, AskedOnce, Forward
  <2>2. CASE q \notin calls[t]
    <3>1. t = "tx-simulate" /\ q \in Listeners(d.to)
      BY <1>1, <2>2 DEF Replies, c
    <3> QED BY <1>4, <3>1, Stagings
  <2> QED BY <2>1, <2>2
<1> QED BY <1>7, <1>8 DEF CallsOK

LEMMA CallsStep ==
  ASSUME TypeOK, NoStaleHandler, CallsOK, [Next]_vars
  PROVE  CallsOK'
<1> USE DEF uiVars, chainVars, walletVars, pageVars
<1>0. /\ Replies \subseteq Topics /\ "accept" \in Topics /\ "connect-wallet" \in Topics
      /\ {"tx-validate", "tx-simulate", "sign-complete"} = Replies
      /\ Requests \subseteq Ids /\ Switches \subseteq Ids /\ pc \in [Ids -> Stages]
      /\ waiters \in [Topics -> Seq(Ids)] /\ calls \in [Topics -> SUBSET Ids]
      /\ Requests \cap Switches = {}
  BY FacadeAssumption DEF Topics, Replies, Ids, TypeOK
\* Steps that answer no call and make none.
<1>1. ASSUME UNCHANGED <<waiters, calls>>,
             \A r \in Requests : \/ pc'[r] \in {pc[r], "done"}
                                 \/ pc[r] = "permit" /\ pc'[r] = "sign"
      PROVE  CallsOK'
  BY <1>1, MovesForward, CallsStay
<1>2. ASSUME NEW r \in Requests, PassThrough(r) PROVE CallsOK'
  BY <1>0, <1>1, <1>2 DEF PassThrough
<1>3. ASSUME NEW r \in Requests, Intercept(r) PROVE CallsOK'
  <2>1. /\ pc[r] = "new" /\ pc'[r] = "validate" /\ Ask("tx-validate", <<r>>)
        /\ \A q \in Requests \ {r} : pc'[q] = pc[q]
    BY <1>0, <1>3 DEF Intercept
  <2>2. Forward
    BY <2>1, MovesForward
  <2> QED BY <1>0, <2>1, <2>2, Stagings, CallMade
<1>4. ASSUME NEW r \in Requests, Validated(r) PROVE CallsOK'
  <2>1. PICK d \in Dispatches(waiters["tx-validate"]) :
          MoveTo(d.to, "simulate") /\ Answered("tx-validate", r, d, "tx-simulate")
    BY <1>4 DEF Validated
  <2>2. \A i \in Listeners(d.to) : pc[i] = "validate"
    BY <1>0, Reached, StagesOfTopics
  <2>3. Forward
    BY <1>0, <2>1, <2>2, MovesForward DEF MoveTo
  <2> QED BY <1>4, <2>1, <2>3, CallsMove DEF Validated
\* An answer after which the handlers of d.to are in the next stage.
<1>5. ASSUME NEW t \in Replies, NEW r \in calls[t], NEW d \in Dispatches(waiters[t]),
             NEW stage, MoveTo(d.to, stage),
             waiters'[t] = d.left, calls'[t] = calls[t] \ {r},
             \A u \in Replies \ {t} : waiters'[u] = waiters[u] /\ calls'[u] = calls[u],
             stage \in {"done", "mine"} \/ (t = "tx-simulate" /\ stage = "decide")
      PROVE  CallsOK'
  <2>1. \A i \in Listeners(d.to) : pc[i] = StageOf(t)
    BY <1>0, Reached
  <2>2. Forward
    BY <1>0, <1>5, <2>1, StagesOfTopics, MovesForward DEF MoveTo
  <2> QED BY <1>5, <2>2, CallAnswered
<1>6. ASSUME NEW r \in Requests, NotValid(r) PROVE CallsOK'
  <2>1. PICK d \in Dispatches(waiters["tx-validate"]) :
          MoveTo(d.to, "done") /\ AnsweredOnly("tx-validate", r, d)
    BY <1>6 DEF NotValid
  <2> QED BY <1>0, <1>5, <1>6, <2>1 DEF AnsweredOnly, NotValid
<1>7. ASSUME NEW r \in Requests, SimulateAnswer(r) PROVE CallsOK'
  <2>1. PICK d \in Dispatches(waiters["tx-simulate"]) : AwaitDecision(r, d)
    BY <1>7 DEF SimulateAnswer, Simulated, NotSimulated
  <2>2. r \in calls["tx-simulate"]
    BY <1>7 DEF SimulateAnswer, Simulated, NotSimulated
  <2>3. "accept" \notin Replies
    BY DEF Replies
  <2> QED BY <1>0, <1>5, <2>1, <2>2, <2>3 DEF AwaitDecision
<1>8. ASSUME DeliverAccept PROVE CallsOK'
  <2>1. PICK d \in Dispatches(waiters["accept"]) :
          /\ waiters' = [waiters EXCEPT !["accept"] = d.left]
          /\ \/ MoveTo(d.to, "permit")
             \/ MoveTo(d.to, "done")
    BY <1>8 DEF DeliverAccept, HandleAccept, StartPermit, GiveUp
  <2>2. \A i \in Listeners(d.to) : pc[i] = "decide"
    BY <1>0, Reached, StagesOfTopics
  <2>3. Forward
    BY <1>0, <2>1, <2>2, MovesForward DEF MoveTo
  <2>4. \A t \in Replies : waiters'[t] = waiters[t]
    BY <1>0, <2>1
  <2> QED BY <1>8, <2>3, <2>4, CallsStay DEF DeliverAccept
<1>9. ASSUME NEW r \in Requests, BuildPermit(r) PROVE CallsOK'
  BY <1>0, <1>1, <1>9 DEF BuildPermit
<1>10. ASSUME NEW r \in Requests, Sign(r) PROVE CallsOK'
  <2>1. /\ pc[r] = "sign" /\ pc'[r] = "submit" /\ Ask("sign-complete", <<r>>)
        /\ \A q \in Requests \ {r} : pc'[q] = pc[q]
    BY <1>0, <1>10 DEF Sign
  <2>2. Forward
    BY <2>1, MovesForward
  <2> QED BY <1>0, <2>1, <2>2, Stagings, CallMade
<1>11. ASSUME NEW r \in Requests, NotSigned(r) \/ MineAnswer(r) PROVE CallsOK'
  <2>1. \A q \in Requests : pc'[q] \in {pc[q], "done"}
    BY <1>0, <1>11 DEF NotSigned, MineAnswer, Confirmed, NotConfirmed, Finalise, MoveTo
  <2> QED BY <1>1, <1>11, <2>1 DEF NotSigned, MineAnswer, Confirmed, NotConfirmed
<1>12. ASSUME NEW r \in Requests, SubmitAnswer(r) PROVE CallsOK'
  <2>1. PICK d \in Dispatches(waiters["sign-complete"]), stage \in {"done", "mine"} :
          MoveTo(d.to, stage) /\ AnsweredOnly("sign-complete", r, d)
    BY <1>12 DEF SubmitAnswer, Submitted, NotSubmitted, Finalise
  <2>2. r \in calls["sign-complete"]
    BY <1>12 DEF SubmitAnswer, Submitted, NotSubmitted
  <2> QED BY <1>0, <1>5, <2>1, <2>2 DEF AnsweredOnly
<1>13. ASSUME NEW s \in Switches, NEW account \in MaybeAccount, Switch(s, account)
       PROVE  CallsOK'
  <2>1. \A r \in Requests : pc'[r] = pc[r]
    BY <1>0, <1>13 DEF Switch
  <2>2. \A t \in Replies : waiters'[t] = waiters[t] /\ calls'[t] = calls[t]
    BY <1>0, <1>13 DEF Switch, Ask, Replies
  <2> QED BY <2>1, <2>2 DEF CallsOK, AskedOnce, NoLostWaiter
<1>14. ASSUME NEW s \in Switches, Connected(s) \/ ConnectIgnored(s) PROVE CallsOK'
  <2>1. \A t \in Replies : waiters'[t] = waiters[t] /\ calls'[t] = calls[t]
    BY <1>0, <1>14 DEF Connected, ConnectIgnored, AnsweredOnly, Replies
  <2>2. \A r \in Requests : pc'[r] \in {pc[r], "done"}
    BY <1>0, <1>14 DEF Connected, ConnectIgnored, MoveTo
  <2>3. Forward
    BY <2>2, MovesForward
  <2> QED BY <2>1, <2>3 DEF CallsOK, AskedOnce, NoLostWaiter, Forward
<1>15. ASSUME UNCHANGED <<pc, waiters, calls>> PROVE CallsOK'
  BY <1>1, <1>15
<1>16. ASSUME NEW r \in Requests, Relay(r) \/ ChainStep(r) PROVE CallsOK'
  BY <1>15, <1>16 DEF Relay, ChainStep, Mine, Revert
<1>17. ASSUME \/ DeliverOpen \/ DeliverFinalise \/ DeliverAccountsChanged
              \/ Decide \/ CloseDrawer
       PROVE  CallsOK'
  BY <1>15, <1>17
  DEF DeliverOpen, DeliverFinalise, DeliverAccountsChanged, Decide, GetGas, Cancel, CloseDrawer
<1>18. ASSUME UNCHANGED vars PROVE CallsOK'
  BY <1>15, <1>18 DEF vars
<1> QED
  BY <1>2, <1>3, <1>4, <1>6, <1>7, <1>8, <1>9, <1>10, <1>11, <1>12, <1>13, <1>14, <1>16,
     <1>17, <1>18
  DEF Next, Deliver, ValidateAnswer, PermitStep

-----------------------------------------------------------------------------
(* The drawer.                                                             *)

\* A message of the bus b behind the place k closes the drawer.
Closing(b, k) == \E l \in DOMAIN b : l > k /\ b[l].topic = "sign-finalise"

\* The requests a drawer may be open for.
Live == {r \in Requests : pc[r] \in {"decide", "permit", "sign", "submit", "mine"}}

\* A drawer that is open, or will be, is open for a live request or gets closed.
Kept(d, b, live) ==
  /\ d.opened => d.payload # None /\ (d.payload.tx \in live \/ Closing(b, 0))
  /\ \A k \in DOMAIN b : b[k].topic = "open" => b[k].payload.tx \in live \/ Closing(b, k)

DrawerOK == Kept(drawer, bus, Live)

\* More messages come; where a request ends, one of them closes the drawer.
LEMMA KeptExtended ==
  ASSUME NEW d, NEW b \in Seq(Message), NEW m \in Seq(Message), NEW live, NEW later,
         Kept(d, b, live), live \subseteq later \/ Closing(m, 0),
         \A k \in DOMAIN m : m[k].topic = "open" => m[k].payload.tx \in later
  PROVE  Kept(d, b \o m, later)
<1>1. /\ Len(b) \in Nat /\ Len(m) \in Nat /\ DOMAIN b = 1 .. Len(b) /\ DOMAIN m = 1 .. Len(m)
      /\ DOMAIN (b \o m) = 1 .. (Len(b) + Len(m))
      /\ \A k \in 1 .. Len(b) : (b \o m)[k] = b[k]
      /\ \A k \in 1 .. Len(m) : (b \o m)[Len(b) + k] = m[k]
  OBVIOUS
<1>2. PICK c : c = b \o m
  OBVIOUS
<1>3. \A k \in DOMAIN b \cup {0} : Closing(b, k) => Closing(c, k)
  BY <1>1, <1>2 DEF Closing
<1>4. Closing(m, 0) => \A k \in DOMAIN b \cup {0} : Closing(c, k)
  <2> SUFFICES ASSUME NEW l \in DOMAIN m, m[l].topic = "sign-finalise", NEW k \in DOMAIN b \cup {0}
               PROVE  Closing(c, k)
    BY DEF Closing
  <2>1. Len(b) + l \in DOMAIN c /\ c[Len(b) + l] = m[l] /\ Len(b) + l > k
    BY <1>1, <1>2
  <2> QED BY <2>1 DEF Closing
<1>5. ASSUME NEW k \in DOMAIN c, c[k].topic = "open"
      PROVE  c[k].payload.tx \in later \/ Closing(c, k)
  <2>1. CASE k \in DOMAIN b
    BY <1>1, <1>2, <1>3, <1>4, <1>5, <2>1 DEF Kept
  <2>2. CASE k \notin DOMAIN b
    <3>1. k - Len(b) \in DOMAIN m /\ c[k] = m[k - Len(b)]
      <4>1. k - Len(b) \in 1 .. Len(m) /\ k = Len(b) + (k - Len(b))
        BY <1>1, <1>2, <2>2
      <4> QED BY <1>1, <1>2, <4>1
    <3> QED BY <1>5, <3>1
  <2> QED BY <2>1, <2>2
<1>6. d.opened => d.payload # None /\ (d.payload.tx \in later \/ Closing(c, 0))
  BY <1>3, <1>4 DEF Kept
<1> QED BY <1>2, <1>5, <1>6 DEF Kept

\* The first message is taken off the bus.
LEMMA KeptDelivered ==
  ASSUME NEW d, NEW b \in Seq(Message), b # <<>>, NEW live, Kept(d, b, live)
  PROVE  /\ Head(b).topic # "sign-finalise" => Kept(d, Tail(b), live)
         /\ \A e : ~e.opened => Kept(e, Tail(b), live)
         /\ Head(b).topic = "open" =>
              Head(b).payload.tx \in live \/ Closing(Tail(b), 0)
<1>1. PICK c : c = Tail(b)
  OBVIOUS
<1>2. /\ Len(b) \in Nat \ {0} /\ DOMAIN b = 1 .. Len(b) /\ Head(b) = b[1]
      /\ DOMAIN c = 1 .. (Len(b) - 1) /\ \A k \in 1 .. (Len(b) - 1) : c[k] = b[k + 1]
  BY <1>1
<1>3. ASSUME NEW k \in DOMAIN c \cup {0}, Closing(b, k + 1)
      PROVE  Closing(c, k)
  <2>1. PICK l \in DOMAIN b : l > k + 1 /\ b[l].topic = "sign-finalise"
    BY <1>3 DEF Closing
  <2>2. l - 1 \in DOMAIN c /\ l - 1 > k /\ c[l - 1] = b[l]
    BY <1>2, <2>1
  <2> QED BY <2>1, <2>2 DEF Closing
<1>4. \A k \in DOMAIN c : c[k].topic = "open" => c[k].payload.tx \in live \/ Closing(c, k)
  <2> SUFFICES ASSUME NEW k \in DOMAIN c, c[k].topic = "open"
               PROVE  c[k].payload.tx \in live \/ Closing(c, k)
    OBVIOUS
  <2>1. k + 1 \in DOMAIN b /\ c[k] = b[k + 1]
    BY <1>2
  <2> QED BY <1>3, <2>1 DEF Kept
<1>5. Head(b).topic # "sign-finalise" /\ Closing(b, 0) => Closing(c, 0)
  <2> SUFFICES ASSUME Head(b).topic # "sign-finalise", Closing(b, 0)
               PROVE  Closing(c, 0)
    OBVIOUS
  <2>1. Closing(b, 1)
    BY <1>2 DEF Closing
  <2> QED BY <1>3, <2>1
<1>6. Head(b).topic = "open" => Head(b).payload.tx \in live \/ Closing(c, 0)
  <2> SUFFICES ASSUME Head(b).topic = "open"
               PROVE  Head(b).payload.tx \in live \/ Closing(c, 0)
    OBVIOUS
  <2>1. Head(b).payload.tx \in live \/ Closing(b, 1)
    BY <1>2 DEF Kept
  <2> QED BY <1>3, <2>1
<1> QED BY <1>1, <1>4, <1>5, <1>6 DEF Kept

\* A drawer that closes, or goes on showing the same request.
LEMMA KeptShowing ==
  ASSUME NEW d, NEW e, NEW b, NEW live, Kept(d, b, live),
         e.opened => d.opened /\ (d.payload # None => e.payload # None /\ e.payload.tx = d.payload.tx)
  PROVE  Kept(e, b, live)
BY DEF Kept

\* One message for every handler of a queue.
LEMMA Posted ==
  ASSUME NEW S, NEW ids \in Seq(S), NEW m, m = [k \in DOMAIN ids |-> m[k]],
         \A k \in DOMAIN ids : m[k] \in Message
  PROVE  m \in Seq(Message) /\ DOMAIN m = DOMAIN ids
<1>1. DOMAIN ids = 1 .. Len(ids) /\ Len(ids) \in Nat
  OBVIOUS
<1> QED BY <1>1

\* The messages that close the drawer for the requests of a queue.
LEMMA ClosingMessages ==
  ASSUME NEW ids \in Seq(Requests), NEW tx \in Requests \cup {None}, NEW m,
         m = [k \in DOMAIN ids |-> [topic |-> "sign-finalise", tx |-> tx]]
  PROVE  /\ m \in Seq(Message) /\ \A k \in DOMAIN m : m[k].topic # "open"
         /\ Listeners(ids) # {} => Closing(m, 0)
<1>1. DOMAIN ids = 1 .. Len(ids) /\ Len(ids) \in Nat
  OBVIOUS
<1>2. [topic |-> "sign-finalise", tx |-> tx] \in Message
  BY DEF Message
<1>3. m \in Seq(Message)
  BY <1>1, <1>2
<1>4. ASSUME Listeners(ids) # {}
      PROVE  Closing(m, 0)
  <2>1. PICK k \in DOMAIN ids : TRUE
    BY <1>4 DEF Listeners
  <2> QED BY <1>1, <2>1 DEF Closing
<1> QED BY <1>3, <1>4

\* The handlers of a queue are done, and say so.
LEMMA FinaliseKeeps ==
  ASSUME NEW d, NEW b \in Seq(Message), Kept(d, b, Live), NEW ids \in Seq(Requests),
         NEW tx \in Requests \cup {None}, MoveTo(ids, "done"), pc \in [Ids -> Stages],
         NEW c, c = b \o [k \in DOMAIN ids |-> [topic |-> "sign-finalise", tx |-> tx]]
  PROVE  Kept(d, c, Live')
<1>1. PICK m : m = [k \in DOMAIN ids |-> [topic |-> "sign-finalise", tx |-> tx]]
  OBVIOUS
<1>2. /\ m \in Seq(Message) /\ \A k \in DOMAIN m : m[k].topic # "open"
      /\ Listeners(ids) # {} => Closing(m, 0)
  BY <1>1, ClosingMessages
<1>3. Listeners(ids) = {} => Live \subseteq Live'
  BY DEF MoveTo, Live, Ids
<1> QED BY <1>1, <1>2, <1>3, KeptExtended

LEMMA DrawerStep ==
  ASSUME TypeOK, NoStaleHandler, DrawerOK, [Next]_vars
  PROVE  DrawerOK'
<1> USE DEF uiVars, chainVars, walletVars, pageVars
<1>0. /\ Replies \subseteq Topics /\ "accept" \in Topics /\ "connect-wallet" \in Topics
      /\ {"tx-validate", "tx-simulate", "sign-complete"} = Replies
      /\ Users("tx-validate") = Requests /\ Users("tx-simulate") = Requests
      /\ Users("accept") = Requests /\ Users("sign-complete") = Requests
      /\ Users("connect-wallet") = Switches
      /\ Requests \subseteq Ids /\ Switches \subseteq Ids /\ pc \in [Ids -> Stages]
      /\ bus \in Seq(Message) /\ Requests \cap Switches = {} /\ None \notin Payload
  BY FacadeAssumption DEF Topics, Replies, Ids, Users, TypeOK
\* Steps that send nothing, and end no request that was shown.
<1>1. ASSUME UNCHANGED <<drawer, bus>>, Live \subseteq Live'
      PROVE  DrawerOK'
  BY <1>1 DEF DrawerOK, Kept
<1>2. ASSUME NEW r \in Requests, PassThrough(r) \/ Intercept(r) PROVE DrawerOK'
  <2>1. Live \subseteq Live'
    BY <1>0, <1>2 DEF PassThrough, Intercept, Live
  <2> QED BY <1>1, <1>2, <2>1 DEF PassThrough, Intercept
<1>3. ASSUME NEW r \in Requests, ValidateAnswer(r) PROVE DrawerOK'
  <2>1. PICK d \in Dispatches(waiters["tx-validate"]) :
          MoveTo(d.to, "simulate") \/ MoveTo(d.to, "done")
    BY <1>3 DEF ValidateAnswer, Validated, NotValid
  <2>2. \A i \in Listeners(d.to) : pc[i] = "validate"
    BY <1>0, Reached, StagesOfTopics
  <2>3. Live \subseteq Live'
    BY <1>0, <2>1, <2>2 DEF MoveTo, Live
  <2> QED BY <1>1, <1>3, <2>3 DEF ValidateAnswer, Validated, NotValid
<1>4. ASSUME NEW r \in Requests, SimulateAnswer(r) PROVE DrawerOK'
  <2>1. PICK d \in Dispatches(waiters["tx-simulate"]) :
          /\ AwaitDecision(r, d)
          /\ \/ bus' = bus
             \/ bus' = bus \o [k \in DOMAIN d.to |-> OpenMessage(d.to[k], r)]
    BY <1>4 DEF SimulateAnswer, Simulated, NotSimulated
  <2>2. Live \subseteq Live' /\ UNCHANGED drawer
    BY <1>0, <1>4, <2>1 DEF AwaitDecision, MoveTo, Live, SimulateAnswer, Simulated, NotSimulated
  <2>3. PICK m : m = [k \in DOMAIN d.to |-> OpenMessage(d.to[k], r)]
    OBVIOUS
  <2>4. d.to \in Seq(Requests)
    BY <1>0, DispatchUsers
  <2>5. \A k \in DOMAIN m : /\ m[k] \in Message
                            /\ m[k].payload.tx \in Live'
    <3> SUFFICES ASSUME NEW k \in DOMAIN d.to
                 PROVE  m[k] \in Message /\ m[k].payload.tx \in Live'
      BY <2>3
    <3>1. d.to[k] \in Requests /\ d.to[k] \in Listeners(d.to)
      BY <2>4 DEF Listeners
    <3>2. d.to[k] \in Live'
      BY <1>0, <2>1, <3>1 DEF AwaitDecision, MoveTo, Live
    <3>3. m[k] = OpenMessage(d.to[k], r) /\ OpenMessage(d.to[k], r) \in Message
      BY <2>3, <3>1 DEF OpenMessage, Message, Payload, TypeOK
    <3> QED BY <3>2, <3>3 DEF OpenMessage
  <2>6. m \in Seq(Message)
    <3>1. DOMAIN m = DOMAIN d.to /\ m = [k \in DOMAIN d.to |-> m[k]]
      BY <2>3
    <3> QED BY <2>4, <2>5, <3>1, Posted
  <2>7. Kept(drawer, bus \o m, Live')
    BY <1>0, <2>2, <2>5, <2>6, KeptExtended DEF DrawerOK
  <2>8. bus' = bus => DrawerOK'
    BY <1>1, <2>2
  <2> QED BY <2>1, <2>2, <2>3, <2>7, <2>8 DEF DrawerOK
<1>5. ASSUME DeliverAccept PROVE DrawerOK'
  <2>1. bus # <<>> /\ Head(bus).topic = "accept" /\ UNCHANGED drawer
    BY <1>5 DEF DeliverAccept
  <2>2. PICK d \in Dispatches(waiters["accept"]) :
          StartPermit(Head(bus), d.to) \/ GiveUp(d.to)
    BY <1>5 DEF DeliverAccept, HandleAccept
  <2>3. Kept(drawer, Tail(bus), Live) /\ Tail(bus) \in Seq(Message)
    BY <1>0, <2>1, KeptDelivered DEF DrawerOK
  <2>4. CASE StartPermit(Head(bus), d.to)
    <3>1. Live \subseteq Live' /\ bus' = Tail(bus)
      BY <1>0, <2>4 DEF StartPermit, MoveTo, Live
    <3> QED BY <2>1, <2>3, <3>1 DEF DrawerOK, Kept
  <2>5. CASE GiveUp(d.to)
    <3>1. d.to \in Seq(Requests)
      BY <1>0, DispatchUsers
    <3>2. Kept(drawer, bus', Live')
      BY <1>0, <2>3, <2>5, <3>1, FinaliseKeeps DEF GiveUp
    <3> QED BY <2>1, <3>2 DEF DrawerOK
  <2> QED BY <2>2, <2>4, <2>5
<1>6. ASSUME NEW r \in Requests, BuildPermit(r) \/ Sign(r) PROVE DrawerOK'
  <2>1. Live \subseteq Live'
    BY <1>0, <1>6 DEF BuildPermit, Sign, Live
  <2> QED BY <1>1, <1>6, <2>1 DEF BuildPermit, Sign
<1>7. ASSUME NEW ids \in Seq(Requests), NEW tx \in Requests \cup {None}, Finalise(ids, tx),
             UNCHANGED drawer
      PROVE  DrawerOK'
  <2>1. Kept(drawer, bus', Live')
    BY <1>0, <1>7, FinaliseKeeps DEF Finalise, DrawerOK
  <2> QED BY <1>7, <2>1 DEF DrawerOK
<1>8. ASSUME NEW r \in Requests, NotSigned(r) \/ MineAnswer(r) PROVE DrawerOK'
  <2>1. <<r>> \in Seq(Requests) /\ receipt[r] \in Requests \cup {None}
    BY DEF TypeOK
  <2> QED BY <1>7, <1>8, <2>1 DEF NotSigned, MineAnswer, Confirmed, NotConfirmed
<1>9. ASSUME NEW r \in Requests, Submitted(r) PROVE DrawerOK'
  <2>1. PICK d \in Dispatches(waiters["sign-complete"]) : MoveTo(d.to, "mine")
    BY <1>9 DEF Submitted
  <2>2. Live \subseteq Live'
    BY <1>0, <2>1 DEF MoveTo, Live
  <2> QED BY <1>1, <1>9, <2>2 DEF Submitted
<1>10. ASSUME NEW r \in Requests, NotSubmitted(r) PROVE DrawerOK'
  <2>1. PICK d \in Dispatches(waiters["sign-complete"]) : Finalise(d.to, None)
    BY <1>10 DEF NotSubmitted
  <2>2. d.to \in Seq(Requests)
    BY <1>0, DispatchUsers
  <2> QED BY <1>7, <1>10, <2>1, <2>2 DEF NotSubmitted
<1>11. ASSUME DeliverOpen PROVE DrawerOK'
  <2>1. /\ bus # <<>> /\ Head(bus).topic = "open" /\ bus' = Tail(bus) /\ Live' = Live
        /\ drawer' = [drawer EXCEPT !.opened = TRUE,
                                    !.payload = AtAccount(Head(bus).payload, newAccount)]
    BY <1>11 DEF DeliverOpen, Live
  <2>2. /\ Kept(drawer, Tail(bus), Live)
        /\ Head(bus).payload.tx \in Live \/ Closing(Tail(bus), 0)
    BY <1>0, <2>1, KeptDelivered DEF DrawerOK
  <2>3. Head(bus).payload \in Payload
    BY <2>1, FirstMessage
  <2>4. /\ AtAccount(Head(bus).payload, newAccount) \in Payload
        /\ AtAccount(Head(bus).payload, newAccount).tx = Head(bus).payload.tx
    BY <2>3 DEF AtAccount, Payload, TypeOK
  <2>5. drawer'.payload # None /\ drawer'.payload.tx = Head(bus).payload.tx
    BY <1>0, <2>1, <2>4 DEF TypeOK
  <2> QED BY <2>1, <2>2, <2>5 DEF DrawerOK, Kept
<1>12. ASSUME DeliverFinalise PROVE DrawerOK'
  <2>1. bus # <<>> /\ bus' = Tail(bus) /\ Live' = Live /\ ~drawer'.opened
    BY <1>12 DEF DeliverFinalise, Live, TypeOK
  <2> QED BY <1>0, <2>1, KeptDelivered DEF DrawerOK
<1>13. ASSUME DeliverAccountsChanged PROVE DrawerOK'
  <2>1. /\ bus # <<>> /\ Head(bus).topic = "mm:accountsChanged" /\ bus' = Tail(bus)
        /\ Live' = Live
        /\ drawer' = IF drawer.payload = None THEN drawer
                     ELSE [drawer EXCEPT !.payload = AtAccount(@, Head(bus).account)]
    BY <1>13 DEF DeliverAccountsChanged, Live
  <2>2. Kept(drawer, Tail(bus), Live)
    BY <1>0, <2>1, KeptDelivered DEF DrawerOK
  <2>3. Head(bus).account \in MaybeAccount
    BY <2>1, FirstMessage
  <2>4. /\ drawer'.opened = drawer.opened
        /\ drawer.payload # None => drawer'.payload # None /\ drawer'.payload.tx = drawer.payload.tx
    <3>1. CASE drawer.payload = None
      BY <2>1, <3>1
    <3>2. CASE drawer.payload # None
      <4>1. /\ drawer.payload \in Payload
            /\ drawer' = [drawer EXCEPT !.payload = AtAccount(drawer.payload, Head(bus).account)]
        BY <2>1, <3>2 DEF TypeOK
      <4>2. /\ AtAccount(drawer.payload, Head(bus).account) \in Payload
            /\ AtAccount(drawer.payload, Head(bus).account).tx = drawer.payload.tx
        BY <2>3, <4>1 DEF AtAccount, Payload
      <4> QED BY <1>0, <4>1, <4>2 DEF TypeOK
    <3> QED BY <3>1, <3>2
  <2>5. Kept(drawer', Tail(bus), Live)
    BY <2>2, <2>4, KeptShowing
  <2> QED BY <2>1, <2>5 DEF DrawerOK
<1>14. ASSUME Decide PROVE DrawerOK'
  <2>1. /\ drawer.payload \in Payload /\ Live' = Live
        /\ drawer'.opened => drawer.opened /\ drawer'.payload = drawer.payload
    BY <1>14 DEF Decide, GetGas, Cancel, ButtonsEnabled, TypeOK, Live
  <2>2. PICK m \in {Decision(TRUE), Decision(FALSE)} : bus' = Append(bus, m)
    BY <1>14 DEF Decide, GetGas, Cancel
  <2>3. m \in Message /\ m.topic = "accept"
    <3>1. Decision(TRUE) \in Message /\ Decision(FALSE) \in Message
      BY <2>1 DEF Decision, Message
    <3>2. Decision(TRUE).topic = "accept" /\ Decision(FALSE).topic = "accept"
      BY DEF Decision
    <3> QED BY Zenon, <2>2, <3>1, <3>2
  <2>4. bus' = bus \o <<m>> /\ <<m>> \in Seq(Message)
    BY <1>0, <2>2, <2>3, AppendIsConcat
  <2>5. Kept(drawer', bus, Live)
    BY <2>1, KeptShowing DEF DrawerOK
  <2>6. Kept(drawer', bus \o <<m>>, Live)
    <3>1. \A k \in DOMAIN <<m>> : <<m>>[k].topic # "open"
      BY <2>3
    <3>2. PICK n : n = <<m>>
      OBVIOUS
    <3> QED BY <1>0, <2>4, <2>5, <3>1, <3>2, KeptExtended
  <2> QED BY <2>1, <2>4, <2>6 DEF DrawerOK
<1>15. ASSUME CloseDrawer PROVE DrawerOK'
  <2>1. ~drawer'.opened /\ UNCHANGED bus /\ Live' = Live
    BY <1>15 DEF CloseDrawer, TypeOK, Live
  <2> QED BY <2>1 DEF DrawerOK, Kept
<1>16. ASSUME NEW s \in Switches, NEW account \in MaybeAccount, Switch(s, account)
       PROVE  DrawerOK'
  <2>1. Live \subseteq Live'
    BY <1>0, <1>16 DEF Switch, Live
  <2> QED BY <1>1, <1>16, <2>1 DEF Switch
<1>17. ASSUME NEW s \in Switches, Connected(s) PROVE DrawerOK'
  <2>1. PICK d \in Dispatches(waiters["connect-wallet"]) :
          /\ MoveTo(d.to, "done")
          /\ bus' = bus \o [k \in DOMAIN d.to |->
                     [topic |-> "mm:accountsChanged", account |-> switched[d.to[k]]]]
    BY <1>17 DEF Connected
  <2>2. PICK m : m = [k \in DOMAIN d.to |->
                     [topic |-> "mm:accountsChanged", account |-> switched[d.to[k]]]]
    OBVIOUS
  <2>3. d.to \in Seq(Switches)
    BY <1>0, DispatchUsers
  <2>4. \A k \in DOMAIN m : m[k] \in Message /\ m[k].topic # "open"
    BY <2>2, <2>3 DEF Message, TypeOK
  <2>5. m \in Seq(Message)
    <3>1. DOMAIN m = DOMAIN d.to /\ m = [k \in DOMAIN d.to |-> m[k]]
      BY <2>2
    <3> QED BY <2>3, <2>4, <3>1, Posted
  <2>6. Live \subseteq Live' /\ UNCHANGED drawer
    <3>1. \A i \in Listeners(d.to) : i \in Switches
      BY <2>3 DEF Listeners
    <3>2. \A r \in Requests : r \in Ids /\ r \notin Listeners(d.to)
      BY <1>0, <3>1
    <3>3. Live \subseteq Live'
      BY <2>1, <3>2 DEF MoveTo, Live
    <3> QED BY <1>17, <3>3 DEF Connected
  <2>7. Kept(drawer, bus \o m, Live')
    BY <1>0, <2>4, <2>5, <2>6, KeptExtended DEF DrawerOK
  <2> QED BY <2>1, <2>2, <2>6, <2>7 DEF DrawerOK
<1>18. ASSUME UNCHANGED <<pc, drawer, bus>> PROVE DrawerOK'
  BY <1>1, <1>18 DEF Live
<1>19. ASSUME NEW s \in Switches, ConnectIgnored(s) PROVE DrawerOK'
  BY <1>18, <1>19 DEF ConnectIgnored
<1>20. ASSUME NEW r \in Requests, Relay(r) \/ ChainStep(r) PROVE DrawerOK'
  BY <1>18, <1>20 DEF Relay, ChainStep, Mine, Revert
<1>21. ASSUME UNCHANGED vars PROVE DrawerOK'
  BY <1>18, <1>21 DEF vars
<1> QED
  BY <1>2, <1>3, <1>4, <1>5, <1>6, <1>8, <1>9, <1>10, <1>11, <1>12, <1>13, <1>14, <1>15,
     <1>16, <1>17, <1>19, <1>20, <1>21
  DEF Next, Deliver, PermitStep, SubmitAnswer

-----------------------------------------------------------------------------
(* The inductive invariant, and what follows from it.                      *)

IInv == TypeOK /\ NoStaleHandler /\ Ledger

LEMMA Invariance == Spec => []IInv
<1>1. Init => IInv
  <2> SUFFICES ASSUME Init PROVE IInv
    OBVIOUS
  <2>1. TypeOK
    BY DEF Init, TypeOK, Ids, Users, Topics, Replies, Stages, MaybeAccount, Permit, NoPermit, OnChain
  <2>2. NoStaleHandler
    BY DEF Init, NoStaleHandler
  <2>3. Ledger
    BY DEF Init, Ledger, SignerKnown, Ids
  <2> QED BY <2>1, <2>2, <2>3 DEF IInv
<1>2. IInv /\ [Next]_vars => IInv'
  BY TypeStep, HandlerStep, LedgerStep DEF IInv, Ledger
<1> QED BY <1>1, <1>2, PTL DEF Spec

\* The state keeps its shape, for any number of requests, events and accounts.
THEOREM TypeCorrect == Spec => []TypeOK
<1>1. IInv => TypeOK
  BY DEF IInv
<1> QED BY <1>1, Invariance, PTL

\* Nothing is signed or submitted without the user's consent to that payload.
THEOREM ConsentGiven == Spec => []Consent
<1>1. IInv => Consent
  BY DEF IInv, Ledger, Consent
<1> QED BY <1>1, Invariance, PTL

\* No deposit is announced that was not mined.
THEOREM AnnouncedDepositsMined == Spec => []DepositAnnounced
<1>1. IInv => DepositAnnounced
  BY DEF IInv, Ledger, DepositAnnounced
<1> QED BY <1>1, Invariance, PTL

\* Every registered handler belongs to a request that waits for that topic.
THEOREM HandlersAlive == Spec => []NoStaleHandler
<1>1. IInv => NoStaleHandler
  BY DEF IInv
<1> QED BY <1>1, Invariance, PTL

\* No promise of busPromise waits for nothing: whichever of the handlers an answer
\* resolves, the calls still under way are at least as many as the handlers left
\* (busPromise of RPCProviderFacade.ts, the relays of contents/scoped.ts).
THEOREM NobodyLost == Spec => []NoLostWaiter
<1>1. Init => CallsOK
  <2> SUFFICES ASSUME Init PROVE CallsOK
    OBVIOUS
  <2>1. \A t \in Replies : waiters[t] = <<>> /\ calls[t] = {}
    BY DEF Init, Topics
  <2>2. Cardinality({}) = 0
    BY FS_EmptySet
  <2>3. NoLostWaiter
    <3>1. Len(<<>>) <= 0
      OBVIOUS
    <3>2. \A t \in Replies : Len(waiters[t]) <= Cardinality(calls[t])
      BY Zenon, <2>1, <2>2, <3>1
    <3> QED BY <3>2 DEF NoLostWaiter
  <2> QED BY <2>1, <2>3 DEF CallsOK, AskedOnce
<1>2. IInv /\ CallsOK /\ [Next]_vars => CallsOK'
  BY CallsStep DEF IInv
<1>3. CallsOK => NoLostWaiter
  BY DEF CallsOK
<1> QED BY <1>1, <1>2, <1>3, Invariance, PTL DEF Spec

\* An open drawer is open for a request under way, or a message that closes it is
\* on its way, whichever way the request ends (the sign-finalise of both branches
\* of waitForSignature, and the drawer's listeners in Notification.tsx).
THEOREM DrawerNotLeftBehind == Spec => []OpenDrawerAlive
<1>1. Init => DrawerOK
  BY DEF Init, DrawerOK, Kept
<1>2. IInv /\ DrawerOK /\ [Next]_vars => DrawerOK'
  BY DrawerStep DEF IInv
<1>3. DrawerOK => OpenDrawerAlive
  BY DEF DrawerOK, Kept, Live, Closing, OpenDrawerAlive, Active, Stages
<1> QED BY <1>1, <1>2, <1>3, Invariance, PTL DEF Spec

-----------------------------------------------------------------------------
(* One call at a time.                                                     *)

OneActive == \A q, r \in Requests : pc[q] \in Active /\ pc[r] \in Active => q = r

\* A call is made for a handler that waits for it.
CallsOwn == \A t \in Replies, r \in Requests : r \in calls[t] => r \in Listeners(waiters[t])

Single == OneActive /\ CallsOwn

LEMMA ActiveStages ==
  /\ \A t \in Topics : StageOf(t) \in Active
  /\ {"permit", "sign", "mine", "decide", "simulate", "submit"} \subseteq Active
  /\ "new" \notin Active /\ "done" \notin Active
BY StagesOfTopics DEF Active, Stages, Topics, Replies

\* The one call of a topic is made for the one handler that waits for it.
LEMMA SoleHandler ==
  ASSUME TypeOK, NoStaleHandler, Single, NEW t \in Replies, NEW r \in calls[t],
         NEW d \in Dispatches(waiters[t])
  PROVE  /\ calls[t] = {r} /\ r \in Requests
         /\ \A k \in DOMAIN d.to : d.to[k] = r
         /\ \A k, l \in DOMAIN d.to : k = l
         /\ d.to \in Seq(Requests)
<1>1. t \in Topics /\ waiters[t] \in Seq(Requests) /\ calls[t] \subseteq Requests
  BY FiniteCalls DEF Topics
<1>2. \A q \in Listeners(waiters[t]) : q \in Requests /\ pc[q] = StageOf(t)
  BY <1>1 DEF NoStaleHandler, Listeners
<1>3. pc[r] = StageOf(t) /\ StageOf(t) \in Active
  BY <1>1, <1>2, ActiveStages DEF Single, CallsOwn
<1>4. \A q \in calls[t] : q = r
  BY <1>1, <1>2, <1>3 DEF Single, CallsOwn, OneActive
<1>5. d.to \in Seq(Requests) /\ Distinct(d.to)
  BY <1>1, Reached, DispatchType
<1>6. \A k \in DOMAIN d.to : d.to[k] \in Requests /\ pc[d.to[k]] = StageOf(t)
  BY <1>1, <1>5, Reached DEF Listeners
<1>7. \A k \in DOMAIN d.to : d.to[k] = r
  BY <1>1, <1>3, <1>6 DEF Single, OneActive
<1> QED BY <1>1, <1>4, <1>5, <1>7 DEF Distinct

LEMMA SingleStay ==
  ASSUME Single, \A r \in Requests : pc'[r] \in Active => pc[r] \in Active,
         \A t \in Replies : waiters'[t] = waiters[t] /\ calls'[t] = calls[t]
  PROVE  Single'
BY DEF Single, OneActive, CallsOwn

\* A request registers and asks.
LEMMA SingleAsks ==
  ASSUME TypeOK, Single, NEW t \in Replies, NEW r \in Requests, Ask(t, <<r>>), OneActive'
  PROVE  Single'
<1>1. /\ waiters'[t] = waiters[t] \o <<r>> /\ calls'[t] = calls[t] \cup {r}
      /\ \A u \in Replies \ {t} : waiters'[u] = waiters[u] /\ calls'[u] = calls[u]
  BY DEF Ask, TypeOK, Topics, Replies, Listeners
<1>2. waiters[t] \in Seq(Requests)
  BY FiniteCalls
<1>3. \A q : q \in Listeners(waiters[t]) \/ q = r => q \in Listeners(waiters[t] \o <<r>>)
  <2>1. PICK s : s = waiters[t]
    OBVIOUS
  <2>2. /\ Len(s) \in Nat /\ DOMAIN s = 1 .. Len(s) /\ DOMAIN (s \o <<r>>) = 1 .. (Len(s) + 1)
        /\ \A k \in 1 .. Len(s) : (s \o <<r>>)[k] = s[k]
        /\ (s \o <<r>>)[Len(s) + 1] = r
    BY <1>2, <2>1
  <2>3. \A k \in DOMAIN s : k \in DOMAIN (s \o <<r>>)
    BY <2>2
  <2>4. Len(s) + 1 \in DOMAIN (s \o <<r>>)
    BY <2>2
  <2>5. \A q \in Listeners(s) : q \in Listeners(s \o <<r>>)
    BY <2>2, <2>3 DEF Listeners
  <2>6. r \in Listeners(s \o <<r>>)
    BY <2>2, <2>4 DEF Listeners
  <2> QED BY <2>1, <2>5, <2>6
<1>4. CallsOwn'
  <2> SUFFICES ASSUME NEW u \in Replies, NEW q \in Requests, q \in calls'[u]
               PROVE  q \in Listeners(waiters'[u])
    BY DEF CallsOwn, Listeners
  <2>1. CASE u = t
    BY <1>1, <1>3, <2>1 DEF Single, CallsOwn
  <2>2. CASE u # t
    BY <1>1, <2>2 DEF Single, CallsOwn
  <2> QED BY <2>1, <2>2
<1> QED BY <1>4 DEF Single

\* A call is answered, and at most the request it was made for goes on.
LEMMA SingleAnswered ==
  ASSUME TypeOK, NoStaleHandler, Single, NEW t \in Replies, NEW r \in calls[t],
         \A q \in Requests : pc'[q] \in Active => pc[q] \in Active,
         calls'[t] = calls[t] \ {r},
         \A u \in Replies \ {t} : waiters'[u] = waiters[u] /\ calls'[u] = calls[u]
  PROVE  Single'
<1>1. PICK d : d \in Dispatches(waiters[t])
  BY DEF Dispatches
<1>2. calls'[t] = {}
  BY <1>1, SoleHandler
<1> QED BY <1>2 DEF Single, OneActive, CallsOwn

\* The answer to a validation: the request goes on and asks for a simulation.
LEMMA SingleMoves ==
  ASSUME TypeOK, NoStaleHandler, Single, NEW r \in calls["tx-validate"],
         NEW d \in Dispatches(waiters["tx-validate"]),
         \A q \in Requests : pc'[q] \in Active => pc[q] \in Active,
         Answered("tx-validate", r, d, "tx-simulate")
  PROVE  Single'
<1>0. "tx-validate" \in Replies /\ "tx-simulate" \in Replies
  BY DEF Replies
<1>1. /\ calls["tx-validate"] = {r} /\ d.to \in Seq(Requests)
  BY <1>0, SoleHandler
<1>2. PICK s : s = waiters["tx-simulate"]
  OBVIOUS
<1>3. s \in Seq(Requests)
  BY <1>0, <1>2, FiniteCalls
<1>4. /\ calls'["tx-validate"] = {} /\ waiters'["tx-simulate"] = s \o d.to
      /\ calls'["tx-simulate"] = calls["tx-simulate"] \cup Listeners(d.to)
      /\ waiters'["sign-complete"] = waiters["sign-complete"]
      /\ calls'["sign-complete"] = calls["sign-complete"]
  BY <1>1, <1>2 DEF Answered, TypeOK, Topics, Replies
<1>5. \A q \in Listeners(s) \cup Listeners(d.to) : q \in Listeners(s \o d.to)
  <2>1. /\ Len(s) \in Nat /\ Len(d.to) \in Nat /\ DOMAIN s = 1 .. Len(s)
        /\ DOMAIN d.to = 1 .. Len(d.to) /\ DOMAIN (s \o d.to) = 1 .. (Len(s) + Len(d.to))
        /\ \A k \in 1 .. Len(s) : (s \o d.to)[k] = s[k]
        /\ \A k \in 1 .. Len(d.to) : (s \o d.to)[Len(s) + k] = d.to[k]
    BY <1>1, <1>3
  <2>2. /\ \A k \in DOMAIN s : k \in DOMAIN (s \o d.to)
        /\ \A k \in DOMAIN d.to : Len(s) + k \in DOMAIN (s \o d.to)
    BY <2>1
  <2> QED BY <2>1, <2>2 DEF Listeners
<1>6. CallsOwn'
  <2> SUFFICES ASSUME NEW u \in Replies, NEW q \in Requests, q \in calls'[u]
               PROVE  q \in Listeners(waiters'[u])
    BY DEF CallsOwn, Listeners
  <2>1. CASE u = "tx-simulate"
    BY <1>0, <1>2, <1>4, <1>5, <2>1 DEF Single, CallsOwn
  <2>2. CASE u # "tx-simulate"
    BY <1>4, <2>2 DEF Single, CallsOwn, Replies
  <2> QED BY <2>1, <2>2
<1> QED BY <1>6 DEF Single, OneActive

LEMMA SingleStep ==
  ASSUME MaxActive = 1, TypeOK, NoStaleHandler, Single, [Next]_vars
  PROVE  Single'
<1> USE DEF uiVars, chainVars, walletVars, pageVars
<1>0. /\ Replies \subseteq Topics /\ "accept" \in Topics /\ "connect-wallet" \in Topics
      /\ {"tx-validate", "tx-simulate", "sign-complete"} = Replies
      /\ "accept" \notin Replies /\ "connect-wallet" \notin Replies
      /\ Requests \subseteq Ids /\ Switches \subseteq Ids /\ pc \in [Ids -> Stages]
      /\ waiters \in [Topics -> Seq(Ids)] /\ calls \in [Topics -> SUBSET Ids]
      /\ Requests \cap Switches = {}
  BY FacadeAssumption DEF Topics, Replies, Ids, TypeOK
\* The handlers of a dispatch were active, so it makes nobody active.
<1>1. ASSUME NEW t \in Topics, NEW d \in Dispatches(waiters[t]), NEW stage, MoveTo(d.to, stage)
      PROVE  \A r \in Requests : pc'[r] \in Active => pc[r] \in Active
  <2>1. \A i \in Listeners(d.to) : pc[i] \in Active
    BY Reached, ActiveStages
  <2> QED BY <1>0, <1>1, <2>1 DEF MoveTo
<1>2. ASSUME UNCHANGED <<waiters, calls>>,
             \A r \in Requests : pc'[r] \in {pc[r], "done"} \/ pc[r] \in Active
      PROVE  Single'
  BY <1>2, ActiveStages, SingleStay
<1>3. ASSUME NEW r \in Requests, PassThrough(r) PROVE Single'
  BY <1>0, <1>2, <1>3 DEF PassThrough
<1>4. ASSUME NEW r \in Requests, Intercept(r) PROVE Single'
  <2> DEFINE A == {q \in Requests : pc[q] \in Active}
  <2>1. A = {}
    <3>1. Cardinality(A) < 1
      BY <1>4 DEF Intercept
    <3>2. IsFiniteSet(A)
      BY FS_Subset, FacadeAssumption
    <3> HIDE DEF A
    <3>3. Cardinality(A) \in Nat
      BY <3>2, FS_CardinalityType
    <3>4. Cardinality(A) = 0
      BY <3>1, <3>3
    <3> QED BY <3>2, <3>4, FS_EmptySet
  <2>2. /\ Ask("tx-validate", <<r>>)
        /\ \A q \in Requests \ {r} : pc'[q] = pc[q]
    BY <1>0, <1>4 DEF Intercept
  <2>3. OneActive'
    BY <2>1, <2>2 DEF OneActive
  <2> QED BY <1>0, <2>2, <2>3, SingleAsks
<1>5. ASSUME NEW r \in Requests, Validated(r) PROVE Single'
  <2>1. PICK d \in Dispatches(waiters["tx-validate"]) :
          MoveTo(d.to, "simulate") /\ Answered("tx-validate", r, d, "tx-simulate")
    BY <1>5 DEF Validated
  <2> QED BY <1>0, <1>1, <1>5, <2>1, SingleMoves DEF Validated
<1>6. ASSUME NEW r \in Requests, NotValid(r) PROVE Single'
  <2>1. PICK d \in Dispatches(waiters["tx-validate"]) :
          MoveTo(d.to, "done") /\ AnsweredOnly("tx-validate", r, d)
    BY <1>6 DEF NotValid
  <2> QED BY <1>0, <1>1, <1>6, <2>1, SingleAnswered DEF AnsweredOnly, NotValid
<1>7. ASSUME NEW r \in Requests, SimulateAnswer(r) PROVE Single'
  <2>1. PICK d \in Dispatches(waiters["tx-simulate"]) : AwaitDecision(r, d)
    BY <1>7 DEF SimulateAnswer, Simulated, NotSimulated
  <2>2. r \in calls["tx-simulate"]
    BY <1>7 DEF SimulateAnswer, Simulated, NotSimulated
  <2>3. \A q \in Requests : pc'[q] \in Active => pc[q] \in Active
    BY <1>0, <1>1, <2>1 DEF AwaitDecision
  <2> QED BY <1>0, <2>1, <2>2, <2>3, SingleAnswered DEF AwaitDecision
<1>8. ASSUME DeliverAccept PROVE Single'
  <2>1. PICK d \in Dispatches(waiters["accept"]) :
          /\ waiters' = [waiters EXCEPT !["accept"] = d.left]
          /\ \/ MoveTo(d.to, "permit")
             \/ MoveTo(d.to, "done")
    BY <1>8 DEF DeliverAccept, HandleAccept, StartPermit, GiveUp
  <2>2. \A t \in Replies : waiters'[t] = waiters[t]
    BY <1>0, <2>1
  <2> QED BY <1>0, <1>1, <1>8, <2>1, <2>2, SingleStay DEF DeliverAccept
<1>9. ASSUME NEW r \in Requests, BuildPermit(r) PROVE Single'
  BY <1>0, <1>2, <1>9, ActiveStages DEF BuildPermit
<1>10. ASSUME NEW r \in Requests, Sign(r) PROVE Single'
  <2>1. /\ pc[r] \in Active /\ Ask("sign-complete", <<r>>)
        /\ \A q \in Requests \ {r} : pc'[q] = pc[q]
    BY <1>0, <1>10, ActiveStages DEF Sign
  <2>2. OneActive'
    BY <2>1 DEF Single, OneActive
  <2> QED BY <1>0, <2>1, <2>2, SingleAsks
<1>11. ASSUME NEW r \in Requests, NotSigned(r) \/ MineAnswer(r) PROVE Single'
  <2>1. \A q \in Requests : pc'[q] \in {pc[q], "done"}
    BY <1>0, <1>11 DEF NotSigned, MineAnswer, Confirmed, NotConfirmed, Finalise, MoveTo
  <2> QED BY <1>2, <1>11, <2>1 DEF NotSigned, MineAnswer, Confirmed, NotConfirmed
<1>12. ASSUME NEW r \in Requests, SubmitAnswer(r) PROVE Single'
  <2>1. PICK d \in Dispatches(waiters["sign-complete"]), stage \in {"done", "mine"} :
          MoveTo(d.to, stage) /\ AnsweredOnly("sign-complete", r, d)
    BY <1>12 DEF SubmitAnswer, Submitted, NotSubmitted, Finalise
  <2>2. r \in calls["sign-complete"]
    BY <1>12 DEF SubmitAnswer, Submitted, NotSubmitted
  <2> QED BY <1>0, <1>1, <2>1, <2>2, SingleAnswered DEF AnsweredOnly
<1>13. ASSUME NEW s \in Switches, NEW account \in MaybeAccount, Switch(s, account)
       PROVE  Single'
  <2>1. \A r \in Requests : pc'[r] = pc[r]
    BY <1>0, <1>13 DEF Switch
  <2>2. \A t \in Replies : waiters'[t] = waiters[t] /\ calls'[t] = calls[t]
    BY <1>0, <1>13 DEF Switch, Ask, Replies
  <2> QED BY <2>1, <2>2, SingleStay
<1>14. ASSUME NEW s \in Switches, Connected(s) \/ ConnectIgnored(s) PROVE Single'
  <2>1. \A t \in Replies : waiters'[t] = waiters[t] /\ calls'[t] = calls[t]
    BY <1>0, <1>14 DEF Connected, ConnectIgnored, AnsweredOnly, Replies
  <2>2. \A r \in Requests : pc'[r] \in {pc[r], "done"}
    BY <1>0, <1>14 DEF Connected, ConnectIgnored, MoveTo
  <2> QED BY <2>1, <2>2, SingleStay, ActiveStages
<1>15. ASSUME UNCHANGED <<pc, waiters, calls>> PROVE Single'
  BY <1>2, <1>15
<1>16. ASSUME NEW r \in Requests, Relay(r) \/ ChainStep(r) PROVE Single'
  BY <1>15, <1>16 DEF Relay, ChainStep, Mine, Revert
<1>17. ASSUME \/ DeliverOpen \/ DeliverFinalise \/ DeliverAccountsChanged
              \/ Decide \/ CloseDrawer
       PROVE  Single'
  BY <1>15, <1>17
  DEF DeliverOpen, DeliverFinalise, DeliverAccountsChanged, Decide, GetGas, Cancel, CloseDrawer
<1>18. ASSUME UNCHANGED vars PROVE Single'
  BY <1>15, <1>18 DEF vars
<1> QED
  BY <1>3, <1>4, <1>5, <1>6, <1>7, <1>8, <1>9, <1>10, <1>11, <1>12, <1>13, <1>14, <1>16,
     <1>17, <1>18
  DEF Next, Deliver, ValidateAnswer, PermitStep

-----------------------------------------------------------------------------
(* With one call at a time there is one prompt, which is on its way to the  *)
(* drawer, in front of the user, or decided and on its way back.           *)

Prompts(b) == {k \in DOMAIN b : b[k].topic \in {"open", "accept"}}
Enabled(d) == d.opened /\ ~d.loading
OwnQuote(p) == p.sim = p.tx

\* who: the requests that wait for a decision.
OnePrompt(d, b, who) ==
  /\ \A k, l \in Prompts(b) : k = l
  /\ \A k \in Prompts(b) : OwnQuote(b[k].payload) /\ b[k].payload.tx \in who
  /\ Enabled(d) => Prompts(b) = {} /\ d.payload # None /\ d.payload.tx \in who
  /\ d.payload # None => OwnQuote(d.payload)

Deciding == {r \in Requests : pc[r] = "decide"}

\* Other messages are posted; the drawer shows the same prompt or closes.
LEMMA PromptStays ==
  ASSUME NEW d, NEW e, NEW b \in Seq(Message), NEW m \in Seq(Message), NEW who, NEW later,
         OnePrompt(d, b, who), who \subseteq later,
         \A k \in DOMAIN m : m[k].topic \notin {"open", "accept"},
         Enabled(e) => Enabled(d),
         d.payload = None => e.payload = None,
         d.payload # None => /\ e.payload # None /\ e.payload.tx = d.payload.tx
                             /\ e.payload.sim = d.payload.sim
  PROVE  OnePrompt(e, b \o m, later)
<1>1. PICK c : c = b \o m
  OBVIOUS
<1>2. /\ Len(b) \in Nat /\ Len(m) \in Nat /\ DOMAIN b = 1 .. Len(b) /\ DOMAIN m = 1 .. Len(m)
      /\ DOMAIN c = 1 .. (Len(b) + Len(m))
      /\ \A k \in 1 .. Len(b) : c[k] = b[k]
      /\ \A k \in 1 .. Len(m) : c[Len(b) + k] = m[k]
  BY <1>1
<1>3. ASSUME NEW k \in Prompts(c)
      PROVE  k \in Prompts(b) /\ c[k] = b[k]
  <2>1. CASE k \in DOMAIN b
    BY <1>2, <2>1 DEF Prompts
  <2>2. CASE k \notin DOMAIN b
    <3>1. k - Len(b) \in 1 .. Len(m) /\ k = Len(b) + (k - Len(b))
      BY <1>2, <2>2 DEF Prompts
    <3>2. c[k] = m[k - Len(b)]
      BY <1>2, <3>1
    <3> QED BY <1>2, <3>1, <3>2 DEF Prompts
  <2> QED BY <2>1, <2>2
<1>4. Enabled(e) => Prompts(c) = {} /\ e.payload # None /\ e.payload.tx \in later
  BY <1>3 DEF OnePrompt
<1>5. e.payload # None => OwnQuote(e.payload)
  BY DEF OnePrompt, OwnQuote
<1>6. \A k \in Prompts(c) : OwnQuote(c[k].payload) /\ c[k].payload.tx \in later
  BY <1>3 DEF OnePrompt
<1>7. \A k, l \in Prompts(c) : k = l
  BY <1>3 DEF OnePrompt
<1> QED BY <1>1, <1>4, <1>5, <1>6, <1>7 DEF OnePrompt

\* The prompt is posted, when there is none.
LEMMA PromptPosted ==
  ASSUME NEW d, NEW b \in Seq(Message), NEW m \in Seq(Message), NEW who,
         Prompts(b) = {}, ~Enabled(d), d.payload # None => OwnQuote(d.payload),
         \A k, l \in DOMAIN m : k = l,
         \A k \in DOMAIN m : OwnQuote(m[k].payload) /\ m[k].payload.tx \in who
  PROVE  OnePrompt(d, b \o m, who)
<1>1. PICK c : c = b \o m
  OBVIOUS
<1>2. /\ Len(b) \in Nat /\ Len(m) \in Nat /\ DOMAIN b = 1 .. Len(b) /\ DOMAIN m = 1 .. Len(m)
      /\ DOMAIN c = 1 .. (Len(b) + Len(m))
      /\ \A k \in 1 .. Len(b) : c[k] = b[k]
      /\ \A k \in 1 .. Len(m) : c[Len(b) + k] = m[k]
  BY <1>1
<1>3. ASSUME NEW k \in Prompts(c)
      PROVE  k - Len(b) \in DOMAIN m /\ c[k] = m[k - Len(b)] /\ k \in Int
  <2>1. k \notin DOMAIN b
    BY <1>2 DEF Prompts
  <2>2. k - Len(b) \in 1 .. Len(m) /\ k = Len(b) + (k - Len(b)) /\ k \in Int
    BY <1>2, <2>1 DEF Prompts
  <2>3. c[k] = m[k - Len(b)]
    BY <1>2, <2>2
  <2> QED BY <1>2, <2>2, <2>3
<1>4. ASSUME NEW k \in Prompts(c), NEW l \in Prompts(c)
      PROVE  k = l
  <2>1. k - Len(b) = l - Len(b)
    BY <1>3
  <2> QED BY <1>2, <1>3, <2>1
<1>5. \A k \in Prompts(c) : OwnQuote(c[k].payload) /\ c[k].payload.tx \in who
  BY <1>3
<1> QED BY <1>1, <1>4, <1>5 DEF OnePrompt

\* The first message is taken off the bus: the prompt, or another one.
LEMMA PromptTaken ==
  ASSUME NEW d, NEW b \in Seq(Message), b # <<>>, NEW who, OnePrompt(d, b, who)
  PROVE  /\ Head(b).topic \in {"open", "accept"} =>
              /\ Prompts(Tail(b)) = {} /\ ~Enabled(d)
              /\ OwnQuote(Head(b).payload) /\ Head(b).payload.tx \in who
         /\ Head(b).topic \notin {"open", "accept"} => OnePrompt(d, Tail(b), who)
<1>1. PICK c : c = Tail(b)
  OBVIOUS
<1>2. /\ Len(b) \in Nat \ {0} /\ DOMAIN b = 1 .. Len(b) /\ Head(b) = b[1]
      /\ DOMAIN c = 1 .. (Len(b) - 1) /\ \A k \in 1 .. (Len(b) - 1) : c[k] = b[k + 1]
  BY <1>1
<1>3. ASSUME NEW k \in Prompts(c)
      PROVE  k + 1 \in Prompts(b) /\ c[k] = b[k + 1] /\ k \in Nat \ {0}
  <2>1. k \in 1 .. (Len(b) - 1) /\ c[k] = b[k + 1] /\ k + 1 \in 1 .. Len(b)
    BY <1>2 DEF Prompts
  <2> QED BY <1>2, <2>1 DEF Prompts
<1>4. ASSUME Head(b).topic \in {"open", "accept"}
      PROVE  /\ Prompts(c) = {} /\ ~Enabled(d)
             /\ OwnQuote(Head(b).payload) /\ Head(b).payload.tx \in who
  <2>1. 1 \in Prompts(b)
    BY <1>2, <1>4 DEF Prompts
  <2>2. \A k \in Prompts(c) : k + 1 = 1 /\ k \in Nat \ {0}
    BY <1>3, <2>1 DEF OnePrompt
  <2>3. Prompts(c) = {}
    BY <2>2
  <2> QED BY <1>2, <2>1, <2>3 DEF OnePrompt
<1>5. OnePrompt(d, c, who)
  <2>1. ASSUME NEW k \in Prompts(c), NEW l \in Prompts(c)
        PROVE  k = l
    <3>1. k + 1 = l + 1
      BY <1>3 DEF OnePrompt
    <3> QED BY <1>3, <3>1
  <2>2. \A k \in Prompts(c) : OwnQuote(c[k].payload) /\ c[k].payload.tx \in who
    BY <1>3 DEF OnePrompt
  <2>3. Enabled(d) => Prompts(c) = {}
    BY <1>3 DEF OnePrompt
  <2> QED BY <2>1, <2>2, <2>3 DEF OnePrompt
<1> QED BY <1>1, <1>4, <1>5

\* Without a prompt it does not matter who waits for a decision.
LEMMA NoPrompt ==
  ASSUME NEW d, NEW b, NEW who, Prompts(b) = {}, ~Enabled(d),
         d.payload # None => OwnQuote(d.payload)
  PROVE  OnePrompt(d, b, who)
BY DEF OnePrompt

Own == Single /\ OnePrompt(drawer, bus, Deciding)

\* What the wallet's account does to a payload leaves its transaction and quote.
LEMMA SamePrompt ==
  ASSUME NEW p \in Payload, NEW account \in MaybeAccount
  PROVE  /\ AtAccount(p, account) \in Payload
         /\ AtAccount(p, account).tx = p.tx /\ AtAccount(p, account).sim = p.sim
BY DEF AtAccount, Payload

LEMMA PromptStep ==
  ASSUME TypeOK, NoStaleHandler, Own, [Next]_vars
  PROVE  OnePrompt(drawer, bus, Deciding)'
<1> USE DEF uiVars, chainVars, walletVars, pageVars
<1> DEFINE Prompted == OnePrompt(drawer, bus, Deciding)
<1>0. /\ Replies \subseteq Topics /\ "accept" \in Topics /\ "connect-wallet" \in Topics
      /\ {"tx-validate", "tx-simulate", "sign-complete"} = Replies
      /\ Users("accept") = Requests /\ Users("sign-complete") = Requests
      /\ Users("connect-wallet") = Switches
      /\ Requests \subseteq Ids /\ Switches \subseteq Ids /\ pc \in [Ids -> Stages]
      /\ bus \in Seq(Message) /\ Requests \cap Switches = {} /\ None \notin Payload
      /\ Prompted
  BY FacadeAssumption DEF Topics, Replies, Ids, Users, TypeOK, Own
\* Messages that are no prompts are posted, if any, and nobody stops waiting for a
\* decision.
<1>1. ASSUME NEW m \in Seq(Message), bus' = bus \o m, UNCHANGED drawer,
             \A k \in DOMAIN m : m[k].topic \notin {"open", "accept"},
             Deciding \subseteq Deciding'
      PROVE  Prompted'
  <2>1. OnePrompt(drawer, bus \o m, Deciding')
    BY <1>0, <1>1, PromptStays
  <2> QED BY <1>1, <2>1
<1>2. ASSUME UNCHANGED <<drawer, bus>>, Deciding \subseteq Deciding'
      PROVE  Prompted'
  BY <1>0, <1>2 DEF OnePrompt
<1>3. ASSUME NEW ids \in Seq(Requests), NEW tx \in Requests \cup {None}, Finalise(ids, tx),
             UNCHANGED drawer, \A i \in Listeners(ids) : pc[i] # "decide"
      PROVE  Prompted'
  <2>1. PICK m : m = [k \in DOMAIN ids |-> [topic |-> "sign-finalise", tx |-> tx]]
    OBVIOUS
  <2>2. m \in Seq(Message)
    BY <2>1, ClosingMessages
  <2>3. \A k \in DOMAIN m : m[k].topic \notin {"open", "accept"}
    BY <2>1
  <2>4. Deciding \subseteq Deciding'
    BY <1>0, <1>3 DEF Finalise, MoveTo, Deciding
  <2> QED BY <1>1, <1>3, <2>1, <2>2, <2>3, <2>4 DEF Finalise
<1>4. ASSUME NEW r \in Requests, \/ PassThrough(r) \/ Intercept(r)
                                 \/ BuildPermit(r) \/ Sign(r)
      PROVE  Prompted'
  <2>1. Deciding \subseteq Deciding'
    BY <1>0, <1>4 DEF PassThrough, Intercept, BuildPermit, Sign, Deciding
  <2> QED BY <1>2, <1>4, <2>1 DEF PassThrough, Intercept, BuildPermit, Sign
<1>5. ASSUME NEW r \in Requests, ValidateAnswer(r) PROVE Prompted'
  <2>1. PICK d \in Dispatches(waiters["tx-validate"]) :
          MoveTo(d.to, "simulate") \/ MoveTo(d.to, "done")
    BY <1>5 DEF ValidateAnswer, Validated, NotValid
  <2>2. \A i \in Listeners(d.to) : pc[i] = "validate"
    BY <1>0, Reached, StagesOfTopics
  <2>3. Deciding \subseteq Deciding'
    BY <1>0, <2>1, <2>2 DEF MoveTo, Deciding
  <2> QED BY <1>2, <1>5, <2>3 DEF ValidateAnswer, Validated, NotValid
<1>6. ASSUME NEW r \in Requests, NotSimulated(r) PROVE Prompted'
  <2>1. PICK d \in Dispatches(waiters["tx-simulate"]) : AwaitDecision(r, d)
    BY <1>6 DEF NotSimulated
  <2>2. Deciding \subseteq Deciding'
    BY <1>0, <2>1 DEF AwaitDecision, MoveTo, Deciding
  <2> QED BY <1>2, <1>6, <2>2 DEF NotSimulated
<1>7. ASSUME NEW r \in Requests, Simulated(r) PROVE Prompted'
  <2>1. PICK d \in Dispatches(waiters["tx-simulate"]) :
          /\ AwaitDecision(r, d)
          /\ bus' = bus \o [k \in DOMAIN d.to |-> OpenMessage(d.to[k], r)]
    BY <1>7 DEF Simulated
  <2>2. r \in calls["tx-simulate"] /\ UNCHANGED drawer
    BY <1>7 DEF Simulated
  <2>3. /\ r \in Requests /\ \A k \in DOMAIN d.to : d.to[k] = r
        /\ \A k, l \in DOMAIN d.to : k = l
        /\ d.to \in Seq(Requests)
    BY <1>0, <2>2, SoleHandler DEF Own
  <2>4. pc[r] = "simulate"
    BY <1>0, <2>2, <2>3, StagesOfTopics DEF Own, Single, CallsOwn, NoStaleHandler, Listeners
  <2>5. Deciding = {}
    BY <2>3, <2>4, ActiveStages DEF Own, Single, OneActive, Deciding
  <2>6. Prompts(bus) = {} /\ ~Enabled(drawer)
    BY <1>0, <2>5 DEF OnePrompt
  <2>7. PICK m : m = [k \in DOMAIN d.to |-> OpenMessage(d.to[k], r)]
    OBVIOUS
  <2>8. /\ DOMAIN m = DOMAIN d.to
        /\ \A k \in DOMAIN m : m[k] = OpenMessage(r, r) /\ m[k] \in Message
    <3>1. OpenMessage(r, r) \in Message
      BY <2>3 DEF OpenMessage, Message, Payload, TypeOK
    <3> QED BY <2>3, <2>7, <3>1
  <2>9. m \in Seq(Message)
    <3>1. m = [k \in DOMAIN d.to |-> m[k]]
      BY <2>7
    <3> QED BY <2>3, <2>8, <3>1, Posted
  <2>10. \A k \in DOMAIN m : OwnQuote(m[k].payload) /\ m[k].payload.tx \in Deciding'
    <3> SUFFICES ASSUME NEW k \in DOMAIN m
                 PROVE  OwnQuote(m[k].payload) /\ m[k].payload.tx \in Deciding'
      OBVIOUS
    <3>1. m[k].payload.tx = r /\ m[k].payload.sim = r
      BY <2>8 DEF OpenMessage
    <3>2. r \in Listeners(d.to)
      BY <2>3, <2>8 DEF Listeners
    <3>3. pc'[r] = "decide"
      BY <1>0, <2>1, <2>3, <3>2 DEF AwaitDecision, MoveTo
    <3> QED BY <2>3, <3>1, <3>3 DEF OwnQuote, Deciding
  <2>11. OnePrompt(drawer, bus \o m, Deciding')
    <3>1. drawer.payload # None => OwnQuote(drawer.payload)
      BY <1>0 DEF OnePrompt
    <3>2. \A k, l \in DOMAIN m : k = l
      BY <2>3, <2>8
    <3> QED BY <1>0, <2>6, <2>9, <2>10, <3>1, <3>2, PromptPosted
  <2> QED BY <2>1, <2>2, <2>7, <2>11
<1>8. ASSUME DeliverAccept PROVE Prompted'
  <2>1. bus # <<>> /\ Head(bus).topic = "accept" /\ UNCHANGED drawer
    BY <1>8 DEF DeliverAccept
  <2>2. PICK d \in Dispatches(waiters["accept"]) :
          StartPermit(Head(bus), d.to) \/ GiveUp(d.to)
    BY <1>8 DEF DeliverAccept, HandleAccept
  <2>3. OnePrompt(drawer, Tail(bus), Deciding')
    BY <1>0, <2>1, PromptTaken, NoPrompt DEF OnePrompt
  <2>4. Tail(bus) \in Seq(Message)
    BY <2>1, FirstMessage
  <2>5. CASE StartPermit(Head(bus), d.to)
    BY <2>1, <2>3, <2>5 DEF StartPermit
  <2>6. CASE GiveUp(d.to)
    <3>1. d.to \in Seq(Requests)
      BY <1>0, DispatchUsers
    <3>2. PICK m : m = [k \in DOMAIN d.to |-> [topic |-> "sign-finalise", tx |-> None]]
      OBVIOUS
    <3>3. m \in Seq(Message)
      BY <3>1, <3>2, ClosingMessages
    <3>4. \A k \in DOMAIN m : m[k].topic \notin {"open", "accept"}
      BY <3>2
    <3>5. OnePrompt(drawer, Tail(bus) \o m, Deciding')
      BY <2>3, <2>4, <3>3, <3>4, PromptStays
    <3>6. bus' = Tail(bus) \o m
      BY <2>6, <3>2 DEF GiveUp
    <3> QED BY <2>1, <3>5, <3>6
  <2> QED BY <2>2, <2>5, <2>6
<1>9. ASSUME NEW r \in Requests, NotSigned(r) \/ MineAnswer(r) PROVE Prompted'
  <2>1. <<r>> \in Seq(Requests) /\ receipt[r] \in Requests \cup {None}
    BY DEF TypeOK
  <2>2. pc[r] # "decide" /\ UNCHANGED drawer /\ \E tx \in Requests \cup {None} : Finalise(<<r>>, tx)
    BY <1>9, <2>1 DEF NotSigned, MineAnswer, Confirmed, NotConfirmed
  <2>3. \A i \in Listeners(<<r>>) : i = r
    BY DEF Listeners
  <2> QED BY <1>3, <2>1, <2>2, <2>3
<1>10. ASSUME NEW r \in Requests, SubmitAnswer(r) PROVE Prompted'
  <2>1. PICK d \in Dispatches(waiters["sign-complete"]) :
          \/ MoveTo(d.to, "mine") /\ UNCHANGED bus
          \/ Finalise(d.to, None)
    BY <1>10 DEF SubmitAnswer, Submitted, NotSubmitted
  <2>2. d.to \in Seq(Requests) /\ UNCHANGED drawer
    BY <1>0, <1>10, DispatchUsers DEF SubmitAnswer, Submitted, NotSubmitted
  <2>3. \A i \in Listeners(d.to) : pc[i] = "submit"
    BY <1>0, Reached, StagesOfTopics
  <2>4. CASE MoveTo(d.to, "mine") /\ UNCHANGED bus
    <3>1. Deciding \subseteq Deciding'
      BY <1>0, <2>3, <2>4 DEF MoveTo, Deciding
    <3> QED BY <1>2, <2>2, <2>4, <3>1
  <2> QED BY <1>3, <2>1, <2>2, <2>3, <2>4
<1>11. ASSUME DeliverOpen PROVE Prompted'
  <2>1. /\ bus # <<>> /\ Head(bus).topic = "open" /\ bus' = Tail(bus) /\ Deciding' = Deciding
        /\ drawer' = [drawer EXCEPT !.opened = TRUE,
                                    !.payload = AtAccount(Head(bus).payload, newAccount)]
    BY <1>11 DEF DeliverOpen, Deciding
  <2>2. /\ Prompts(Tail(bus)) = {} /\ OwnQuote(Head(bus).payload)
        /\ Head(bus).payload.tx \in Deciding
    BY <1>0, <2>1, PromptTaken
  <2>3. Head(bus).payload \in Payload /\ newAccount \in MaybeAccount
    BY <2>1, FirstMessage DEF TypeOK
  <2>4. /\ drawer'.payload # None /\ OwnQuote(drawer'.payload)
        /\ drawer'.payload.tx \in Deciding
    <3>1. drawer'.payload = AtAccount(Head(bus).payload, newAccount)
      BY <2>1 DEF TypeOK
    <3> QED BY <1>0, <2>2, <2>3, <3>1, SamePrompt DEF OwnQuote
  <2> QED BY <2>1, <2>2, <2>4 DEF OnePrompt
<1>12. ASSUME DeliverFinalise PROVE Prompted'
  <2>1. /\ bus # <<>> /\ Head(bus).topic = "sign-finalise" /\ bus' = Tail(bus)
        /\ Deciding' = Deciding /\ ~Enabled(drawer') /\ drawer'.payload = drawer.payload
    BY <1>12 DEF DeliverFinalise, Deciding, TypeOK, Enabled
  <2>2. OnePrompt(drawer, Tail(bus), Deciding)
    BY <1>0, <2>1, PromptTaken
  <2> QED BY <2>1, <2>2 DEF OnePrompt
<1>13. ASSUME DeliverAccountsChanged PROVE Prompted'
  <2>1. /\ bus # <<>> /\ Head(bus).topic = "mm:accountsChanged" /\ bus' = Tail(bus)
        /\ Deciding' = Deciding
        /\ drawer' = IF drawer.payload = None THEN drawer
                     ELSE [drawer EXCEPT !.payload = AtAccount(@, Head(bus).account)]
    BY <1>13 DEF DeliverAccountsChanged, Deciding
  <2>2. OnePrompt(drawer, Tail(bus), Deciding)
    BY <1>0, <2>1, PromptTaken
  <2>3. Head(bus).account \in MaybeAccount
    BY <2>1, FirstMessage
  <2>4. CASE drawer.payload = None
    BY <2>1, <2>2, <2>4
  <2>5. CASE drawer.payload # None
    <3>1. drawer.payload \in Payload
      BY <2>5 DEF TypeOK
    <3>2. /\ drawer' = [drawer EXCEPT !.payload = AtAccount(drawer.payload, Head(bus).account)]
      BY <2>1, <2>5
    <3>3. /\ drawer'.opened = drawer.opened /\ drawer'.loading = drawer.loading
          /\ drawer'.payload = AtAccount(drawer.payload, Head(bus).account)
      BY <3>2 DEF TypeOK
    <3>4. /\ drawer'.payload # None /\ drawer'.payload.tx = drawer.payload.tx
          /\ drawer'.payload.sim = drawer.payload.sim
      BY <1>0, <2>3, <3>1, <3>3, SamePrompt
    <3>5. Enabled(drawer') = Enabled(drawer)
      BY <3>3 DEF Enabled
    <3>6. OnePrompt(drawer', Tail(bus), Deciding)
      BY <2>2, <2>5, <3>4, <3>5 DEF OnePrompt, OwnQuote
    <3> QED BY <2>1, <3>6
  <2> QED BY <2>4, <2>5
<1>14. ASSUME Decide PROVE Prompted'
  <2>1. /\ drawer.payload \in Payload /\ Deciding' = Deciding /\ Enabled(drawer)
        /\ ~Enabled(drawer') /\ drawer'.payload = drawer.payload
    BY <1>14 DEF Decide, GetGas, Cancel, ButtonsEnabled, TypeOK, Deciding, Enabled
  <2>2. PICK p \in {Decision(TRUE), Decision(FALSE)} : bus' = Append(bus, p)
    BY <1>14 DEF Decide, GetGas, Cancel
  <2>3. p \in Message /\ p.payload = drawer.payload
    <3>1. Decision(TRUE) \in Message /\ Decision(FALSE) \in Message
      BY <2>1 DEF Decision, Message
    <3>2. Decision(TRUE).payload = drawer.payload /\ Decision(FALSE).payload = drawer.payload
      BY DEF Decision
    <3> QED BY Zenon, <2>2, <3>1, <3>2
  <2>4. PICK m : m = <<p>>
    OBVIOUS
  <2>5. /\ bus' = bus \o m /\ m \in Seq(Message)
        /\ \A k, l \in DOMAIN m : k = l
        /\ \A k \in DOMAIN m : m[k] = p
    BY <1>0, <2>2, <2>3, <2>4, AppendIsConcat
  <2>6. /\ Prompts(bus) = {} /\ drawer.payload # None /\ drawer.payload.tx \in Deciding
        /\ OwnQuote(drawer.payload)
    BY <1>0, <2>1 DEF OnePrompt
  <2>7. OnePrompt(drawer', bus \o m, Deciding)
    BY <1>0, <2>1, <2>3, <2>5, <2>6, PromptPosted
  <2> QED BY <2>1, <2>5, <2>7
<1>15. ASSUME CloseDrawer PROVE Prompted'
  <2>1. /\ ~Enabled(drawer') /\ drawer'.payload = drawer.payload /\ UNCHANGED bus
        /\ Deciding' = Deciding
    BY <1>15 DEF CloseDrawer, TypeOK, Deciding, Enabled
  <2> QED BY <1>0, <2>1 DEF OnePrompt
<1>16. ASSUME NEW s \in Switches, NEW account \in MaybeAccount, Switch(s, account)
       PROVE  Prompted'
  <2>1. Deciding \subseteq Deciding'
    BY <1>0, <1>16 DEF Switch, Deciding
  <2> QED BY <1>2, <1>16, <2>1 DEF Switch
<1>17. ASSUME NEW s \in Switches, Connected(s) PROVE Prompted'
  <2>1. PICK d \in Dispatches(waiters["connect-wallet"]) :
          /\ MoveTo(d.to, "done")
          /\ bus' = bus \o [k \in DOMAIN d.to |->
                     [topic |-> "mm:accountsChanged", account |-> switched[d.to[k]]]]
    BY <1>17 DEF Connected
  <2>2. PICK m : m = [k \in DOMAIN d.to |->
                     [topic |-> "mm:accountsChanged", account |-> switched[d.to[k]]]]
    OBVIOUS
  <2>3. d.to \in Seq(Switches)
    BY <1>0, DispatchUsers
  <2>4. \A k \in DOMAIN m : m[k] \in Message /\ m[k].topic \notin {"open", "accept"}
    BY <2>2, <2>3 DEF Message, TypeOK
  <2>5. m \in Seq(Message)
    <3>1. DOMAIN m = DOMAIN d.to /\ m = [k \in DOMAIN d.to |-> m[k]]
      BY <2>2
    <3> QED BY <2>3, <2>4, <3>1, Posted
  <2>6. \A i \in Listeners(d.to) : i \in Switches
    BY <2>3 DEF Listeners
  <2>7. \A r \in Requests : r \in Ids /\ r \notin Listeners(d.to)
    BY <1>0, <2>6
  <2>8. Deciding \subseteq Deciding'
    BY <2>1, <2>7 DEF MoveTo, Deciding
  <2>9. UNCHANGED drawer /\ bus' = bus \o m
    BY <1>17, <2>1, <2>2 DEF Connected
  <2> QED BY <1>1, <2>4, <2>5, <2>8, <2>9
<1>18. ASSUME UNCHANGED <<pc, drawer, bus>> PROVE Prompted'
  BY <1>2, <1>18 DEF Deciding
<1>19. ASSUME NEW s \in Switches, ConnectIgnored(s) PROVE Prompted'
  BY <1>18, <1>19 DEF ConnectIgnored
<1>20. ASSUME NEW r \in Requests, Relay(r) \/ ChainStep(r) PROVE Prompted'
  BY <1>18, <1>20 DEF Relay, ChainStep, Mine, Revert
<1>21. ASSUME UNCHANGED vars PROVE Prompted'
  BY <1>18, <1>21 DEF vars
<1> QED
  BY <1>4, <1>5, <1>6, <1>7, <1>8, <1>9, <1>10, <1>11, <1>12, <1>13, <1>14, <1>15,
     <1>16, <1>17, <1>19, <1>20, <1>21
  DEF Next, Deliver, PermitStep, SimulateAnswer

\* A request acts on its own prompt, which was the only one there is.
LEMMA GrantStep ==
  ASSUME TypeOK, NoStaleHandler, Own, OwnPrompt, [Next]_vars
  PROVE  OwnPrompt'
<1> USE DEF uiVars, chainVars, walletVars, pageVars
<1>1. ASSUME UNCHANGED <<grant, receipt>> PROVE OwnPrompt'
  BY <1>1 DEF OwnPrompt
<1>2. ASSUME DeliverAccept PROVE OwnPrompt'
  <2>1. /\ bus # <<>> /\ Head(bus).topic = "accept" /\ UNCHANGED receipt
    BY <1>2 DEF DeliverAccept
  <2>2. PICK d \in Dispatches(waiters["accept"]) :
          StartPermit(Head(bus), d.to) \/ GiveUp(d.to)
    BY <1>2 DEF DeliverAccept, HandleAccept
  <2>3. PICK p : p = Head(bus).payload
    OBVIOUS
  <2>4. p.sim = p.tx /\ p.tx \in Requests /\ pc[p.tx] = "decide"
    <3>1. OnePrompt(drawer, bus, Deciding) /\ bus \in Seq(Message)
      BY DEF Own, TypeOK
    <3>2. OwnQuote(Head(bus).payload) /\ Head(bus).payload.tx \in Deciding
      BY <2>1, <3>1, PromptTaken
    <3> QED BY <2>3, <3>2 DEF OwnQuote, Deciding
  <2>5. CASE StartPermit(Head(bus), d.to)
    <3>1. \A r \in Requests : r \in Listeners(d.to) => pc[r] = "decide"
      BY Reached, StagesOfTopics DEF Topics
    <3>2. \A r \in Requests : r \in Listeners(d.to) => r = p.tx
      BY <2>4, <3>1, ActiveStages DEF Own, Single, OneActive
    <3>3. grant' = [r \in Requests |-> IF r \in Listeners(d.to) THEN p ELSE grant[r]]
      BY <2>3, <2>5 DEF StartPermit
    <3>4. \A r \in Requests : grant'[r] # None => grant'[r].tx = r /\ grant'[r].sim = r
      BY <2>4, <3>2, <3>3 DEF OwnPrompt
    <3> QED BY <2>1, <3>4 DEF OwnPrompt
  <2>6. CASE GiveUp(d.to)
    BY <1>1, <2>1, <2>6 DEF GiveUp
  <2> QED BY <2>2, <2>5, <2>6
<1>3. ASSUME NEW r \in Requests, Submitted(r) PROVE OwnPrompt'
  <2>1. PICK d \in Dispatches(waiters["sign-complete"]) :
          receipt' = [q \in Requests |-> IF q \in Listeners(d.to) THEN r ELSE receipt[q]]
    BY <1>3 DEF Submitted
  <2>2. \A k \in DOMAIN d.to : d.to[k] = r
    BY <1>3, SoleHandler DEF Own, Submitted, Replies
  <2>3. \A q \in Requests : receipt'[q] \in {None, q}
    BY <2>1, <2>2 DEF OwnPrompt, Listeners
  <2> QED BY <1>3, <2>3 DEF Submitted, OwnPrompt
<1>4. ASSUME NEW r \in Requests, \/ PassThrough(r) \/ Intercept(r) \/ ValidateAnswer(r)
                                 \/ SimulateAnswer(r) \/ PermitStep(r) \/ NotSubmitted(r)
                                 \/ MineAnswer(r) \/ Relay(r) \/ ChainStep(r)
      PROVE  OwnPrompt'
  BY <1>1, <1>4
  DEF PassThrough, Intercept, ValidateAnswer, Validated, NotValid, SimulateAnswer, Simulated,
      NotSimulated, PermitStep, BuildPermit, Sign, NotSigned, NotSubmitted, MineAnswer,
      Confirmed, NotConfirmed, Relay, ChainStep, Mine, Revert
<1>5. ASSUME NEW s \in Switches, NEW account \in MaybeAccount,
             Switch(s, account) \/ Connected(s) \/ ConnectIgnored(s)
      PROVE  OwnPrompt'
  BY <1>1, <1>5 DEF Switch, Connected, ConnectIgnored
<1>6. ASSUME \/ DeliverOpen \/ DeliverFinalise \/ DeliverAccountsChanged
             \/ Decide \/ CloseDrawer
      PROVE  OwnPrompt'
  BY <1>1, <1>6
  DEF DeliverOpen, DeliverFinalise, DeliverAccountsChanged, Decide, GetGas, Cancel, CloseDrawer
<1>7. ASSUME UNCHANGED vars PROVE OwnPrompt'
  BY <1>1, <1>7 DEF vars
<1>8. None \in MaybeAccount
  BY DEF MaybeAccount
<1> QED
  BY <1>2, <1>3, <1>4, <1>5, <1>6, <1>7, <1>8 DEF Next, Deliver, SubmitAnswer

\* While a page has one call unanswered at a time, each call acts on the prompt, the
\* quote and the meta-transaction that were made for it, though the accept,
\* tx-simulate and sign-complete messages do not say for whom they are
\* (waitForSignature and acceptHandler of RPCProviderFacade.ts, handleSign of
\* Notification.tsx).
THEOREM OwnPromptKept ==
  ASSUME MaxActive = 1
  PROVE  Spec => []OwnPrompt
<1>1. Init => Own /\ OwnPrompt
  <2> SUFFICES ASSUME Init PROVE Own /\ OwnPrompt
    OBVIOUS
  <2>1. Single
    BY DEF Init, Single, OneActive, CallsOwn, Active, Ids, Replies, Topics
  <2>2. Prompts(bus) = {} /\ ~Enabled(drawer) /\ drawer.payload = None
    BY DEF Init, Prompts, Enabled
  <2>3. OnePrompt(drawer, bus, Deciding)
    BY <2>2, NoPrompt
  <2>4. OwnPrompt
    BY DEF Init, OwnPrompt
  <2> QED BY <2>1, <2>3, <2>4 DEF Own
<1>2. IInv /\ Own /\ OwnPrompt /\ [Next]_vars => (Own /\ OwnPrompt)'
  <2> SUFFICES ASSUME IInv, Own, OwnPrompt, [Next]_vars PROVE (Own /\ OwnPrompt)'
    OBVIOUS
  <2>1. TypeOK /\ NoStaleHandler /\ Single
    BY DEF IInv, Own
  <2>2. Single'
    BY <2>1, SingleStep
  <2>3. OnePrompt(drawer, bus, Deciding)'
    BY <2>1, PromptStep
  <2>4. OwnPrompt'
    BY <2>1, GrantStep
  <2> QED BY <2>2, <2>3, <2>4 DEF Own
<1> QED BY <1>1, <1>2, Invariance, PTL DEF Spec

-----------------------------------------------------------------------------
(* Facade implements GasFlow.                                              *)

Early == {"new", "validate", "simulate", "decide"}

\* A request has no deal before the decision, an account has signed what was
\* submitted for it, and the permit of a mined meta-transaction is used up: its
\* nonce is one the token has left behind.
Course ==
  \A r \in Requests :
    /\ pc[r] \in Early => grant[r] = None
    /\ pc[r] = "sign" \/ metaTx[r] # "none" => permit[r].signer \in Accounts
    /\ metaTx[r] = "mined" => permit[r].nonce < nonces[permit[r].signer]

LEMMA CourseStep ==
  ASSUME TypeOK, NoStaleHandler, Ledger, Course, [Next]_vars
  PROVE  Course'
<1> USE DEF uiVars, chainVars, walletVars, pageVars
<1>0. /\ {"tx-validate", "tx-simulate", "accept", "sign-complete", "connect-wallet"} \subseteq Topics
      /\ Requests \subseteq Ids /\ Switches \subseteq Ids /\ Requests \cap Switches = {}
      /\ pc \in [Ids -> Stages]
  BY FacadeAssumption DEF Topics, Replies, Ids, TypeOK
\* Steps that sign, pay and decide nothing.
<1>1. ASSUME UNCHANGED <<grant, permit, metaTx, nonces>>,
             \A r \in Requests : /\ pc'[r] \in Early => pc[r] \in Early
                                 /\ pc'[r] = "sign" => pc[r] = "sign"
      PROVE  Course'
  BY <1>1 DEF Course
<1>2. ASSUME NEW r \in Requests, PassThrough(r) \/ Intercept(r) PROVE Course'
  BY <1>0, <1>1, <1>2 DEF PassThrough, Intercept, Early
<1>3. ASSUME NEW r \in Requests, ValidateAnswer(r) PROVE Course'
  <2>1. PICK d \in Dispatches(waiters["tx-validate"]) :
          MoveTo(d.to, "simulate") \/ MoveTo(d.to, "done")
    BY <1>3 DEF ValidateAnswer, Validated, NotValid
  <2>2. \A q \in Requests : /\ pc'[q] \in Early => pc[q] \in Early
                            /\ pc'[q] = "sign" => pc[q] = "sign"
    BY <1>0, <2>1, Reached, StagesOfTopics DEF MoveTo, Early
  <2> QED BY <1>1, <1>3, <2>2 DEF ValidateAnswer, Validated, NotValid
<1>4. ASSUME NEW r \in Requests, SimulateAnswer(r) PROVE Course'
  <2>1. PICK d \in Dispatches(waiters["tx-simulate"]) : MoveTo(d.to, "decide")
    BY <1>4 DEF SimulateAnswer, Simulated, NotSimulated, AwaitDecision
  <2>2. \A q \in Requests : /\ pc'[q] \in Early => pc[q] \in Early
                            /\ pc'[q] = "sign" => pc[q] = "sign"
    BY <1>0, <2>1, Reached, StagesOfTopics DEF MoveTo, Early
  <2> QED BY <1>1, <1>4, <2>2 DEF SimulateAnswer, Simulated, NotSimulated
<1>5. ASSUME DeliverAccept PROVE Course'
  <2>1. PICK d \in Dispatches(waiters["accept"]) :
          StartPermit(Head(bus), d.to) \/ GiveUp(d.to)
    BY <1>5 DEF DeliverAccept, HandleAccept
  <2>2. \A q \in Requests : q \in Listeners(d.to) => pc[q] = "decide" /\ metaTx[q] = "none"
    BY <1>0, Reached, StagesOfTopics DEF Ledger, Unposted
  <2>3. CASE StartPermit(Head(bus), d.to)
    <3>1. \A q \in Requests : IF q \in Listeners(d.to) THEN pc'[q] = "permit"
                              ELSE UNCHANGED <<pc[q], grant[q], permit[q]>>
      BY <1>0, <2>3 DEF StartPermit, MoveTo
    <3>2. UNCHANGED chainVars
      BY <1>5 DEF DeliverAccept
    <3> QED BY <2>2, <3>1, <3>2 DEF Course, Early
  <2>4. CASE GiveUp(d.to)
    BY <1>0, <1>1, <1>5, <2>4 DEF GiveUp, MoveTo, DeliverAccept, Early
  <2> QED BY <2>1, <2>3, <2>4
<1>6. ASSUME NEW r \in Requests, BuildPermit(r) PROVE Course'
  <2>1. metaTx[r] = "none" /\ pc'[r] = "sign"
    BY <1>0, <1>6 DEF BuildPermit, Ledger, Unposted
  <2>2. \A q \in Requests \ {r} : pc'[q] = pc[q] /\ permit'[q] = permit[q]
    BY <1>0, <1>6 DEF BuildPermit, TypeOK
  <2>3. permit'[r].signer \in Accounts
    BY <1>6 DEF BuildPermit, Ledger, SignerKnown, TypeOK, Permit
  <2> QED BY <1>6, <2>1, <2>2, <2>3 DEF BuildPermit, Course, Early
<1>7. ASSUME NEW r \in Requests, Sign(r) PROVE Course'
  <2>1. pc'[r] = "submit" /\ metaTx'[r] = "posted"
    BY <1>0, <1>7 DEF Sign, TypeOK
  <2>2. \A q \in Requests \ {r} : pc'[q] = pc[q] /\ metaTx'[q] = metaTx[q]
    BY <1>0, <1>7 DEF Sign, TypeOK
  <2>3. permit[r].signer \in Accounts
    BY <1>7 DEF Sign, Course
  <2> QED BY <1>7, <2>1, <2>2, <2>3 DEF Sign, Course, Early
<1>8. ASSUME NEW r \in Requests, NotSigned(r) \/ MineAnswer(r) PROVE Course'
  BY <1>0, <1>1, <1>8 DEF NotSigned, MineAnswer, Confirmed, NotConfirmed, Finalise, MoveTo, Early
<1>9. ASSUME NEW r \in Requests, SubmitAnswer(r) PROVE Course'
  BY <1>0, <1>1, <1>9 DEF SubmitAnswer, Submitted, NotSubmitted, Finalise, MoveTo, Early
<1>10. ASSUME DeliverOpen \/ DeliverFinalise \/ DeliverAccountsChanged \/ Decide \/ CloseDrawer
       PROVE  Course'
  BY <1>1, <1>10
  DEF DeliverOpen, DeliverFinalise, DeliverAccountsChanged, Decide, GetGas, Cancel, CloseDrawer
<1>11. ASSUME NEW s \in Switches, NEW account \in MaybeAccount,
              Switch(s, account) \/ Connected(s) \/ ConnectIgnored(s)
       PROVE  Course'
  BY <1>0, <1>1, <1>11 DEF Switch, Connected, ConnectIgnored, MoveTo, Early
<1>12. ASSUME NEW r \in Requests, Relay(r) \/ Revert(r) PROVE Course'
  <2>1. /\ \A q \in Requests : /\ metaTx'[q] = "mined" => metaTx[q] = "mined"
                               /\ metaTx'[q] # "none" => metaTx[q] # "none"
        /\ UNCHANGED <<pc, grant, permit, nonces>>
    BY <1>12 DEF Relay, Revert, TypeOK
  <2> QED BY <2>1 DEF Course
<1>13. ASSUME NEW r \in Requests, Mine(r) PROVE Course'
  <2>1. PICK o : o = Owner(r)
    OBVIOUS
  <2>2. /\ permit[r] = [signer |-> o, nonce |-> nonces[o]]
        /\ nonces' = [nonces EXCEPT ![o] = @ + 1]
        /\ UNCHANGED <<pc, grant, permit>>
        /\ \A q \in Requests \ {r} : metaTx'[q] = metaTx[q]
    BY <1>13, <2>1 DEF Mine, TypeOK
  <2>3. o \in Accounts
    <3>1. permit[r].signer \in Accounts
      BY <1>13 DEF Mine, Course
    <3> QED BY <2>2, <3>1
  <2>4. \A a \in Accounts : nonces[a] \in Nat /\ nonces'[a] \in Nat /\ nonces'[a] >= nonces[a]
    BY <2>2 DEF TypeOK
  <2>5. nonces'[o] = nonces[o] + 1
    BY <2>2, <2>3 DEF TypeOK
  <2>6. \A q \in Requests : permit[q].nonce \in Nat
    BY DEF TypeOK, Permit
  <2>7. metaTx[r] # "none"
    BY <1>13 DEF Mine
  <2> QED BY <2>2, <2>3, <2>4, <2>5, <2>6, <2>7 DEF Course
<1>14. ASSUME UNCHANGED vars PROVE Course'
  BY <1>1, <1>14 DEF vars
<1> QED
  BY <1>2, <1>3, <1>4, <1>5, <1>6, <1>7, <1>8, <1>9, <1>10, <1>11, <1>12, <1>13, <1>14
  DEF Next, Deliver, PermitStep, ChainStep, MaybeAccount

LEMMA StatusOf ==
  \A r \in Requests : /\ pc[r] = "new" => Status[r] = "new"
                      /\ pc[r] = "done" => Status[r] = "released"
                      /\ pc[r] \notin {"new", "done"} => Status[r] = "held"
BY Zenon DEF Status

\* A request that goes from one stage of waitForSignature to another is still held.
LEMMA StillHeld ==
  ASSUME TypeOK, NEW ids, NEW stage \in Active, MoveTo(ids, stage),
         \A r \in Requests : r \in Listeners(ids) => pc[r] \notin {"new", "done"}
  PROVE  Status' = Status
<1>1. Requests \subseteq Ids /\ stage \notin {"new", "done"}
  BY DEF Ids, Active
<1>2. \A r \in Requests : pc'[r] = pc[r] \/ {pc[r], pc'[r]} \cap {"new", "done"} = {}
  BY <1>1 DEF MoveTo
<1>3. ASSUME NEW r \in Requests
      PROVE (CASE pc[r] = "new" -> "new" [] pc[r] = "done" -> "released" [] OTHER -> "held")'
             = (CASE pc[r] = "new" -> "new" [] pc[r] = "done" -> "released" [] OTHER -> "held")
  BY <1>2
<1> QED BY <1>3, Zenon DEF Status

\* A handler that ends lets its request through.
LEMMA Released ==
  ASSUME TypeOK, NEW ids, MoveTo(ids, "done"), UNCHANGED <<grant, permit, chainVars>>,
         UNCHANGED <<agreed, notices>>,
         \A i \in Listeners(ids) : i \in Requests /\ pc[i] \notin {"new", "done"}
  PROVE  Flow!LetThrough(Listeners(ids))
<1>1. Requests \subseteq Ids
  BY DEF Ids
<1>2. Listeners(ids) \subseteq Flow!Held
  BY StatusOf DEF Flow!Held
<1>3. \A r \in Requests : pc'[r] = (IF r \in Listeners(ids) THEN "done" ELSE pc[r])
  BY <1>1 DEF MoveTo
<1>4. Status' = [r \in Requests |-> IF r \in Listeners(ids) THEN "released" ELSE Status[r]]
  BY <1>3 DEF Status
<1>5. Spent' = Spent
  BY DEF Spent, chainVars
<1> QED BY <1>2, <1>4, <1>5 DEF Flow!LetThrough, chainVars

\* What leaves these alone is a stutter.
LEMMA Stutter ==
  ASSUME Status' = Status, UNCHANGED <<grant, permit, metaTx, agreed, notices>>
  PROVE  UNCHANGED Flow!vars
<1>1. Spent' = Spent
  BY DEF Spent
<1> QED BY <1>1 DEF Flow!vars

\* Neither does a step that leaves the stages alone change the status.
LEMMA SameStatus ==
  ASSUME \A r \in Requests : pc'[r] = pc[r]
  PROVE  Status' = Status
BY DEF Status

\* A request alone goes on to another stage.
LEMMA GoesOn ==
  ASSUME TypeOK, NEW r \in Requests, pc[r] \notin {"new", "done"}, NEW stage \in Active,
         pc' = [pc EXCEPT ![r] = stage]
  PROVE  Status' = Status
<1>1. Listeners(<<r>>) = {r}
  BY DEF Listeners
<1>2. \A i \in Ids : pc'[i] = (IF i \in {r} THEN stage ELSE pc[i])
  BY DEF TypeOK
<1>3. pc' = [i \in Ids |-> IF i \in {r} THEN stage ELSE pc[i]]
  BY <1>2 DEF TypeOK
<1>4. MoveTo(<<r>>, stage)
  BY <1>1, <1>3 DEF MoveTo
<1> QED BY <1>1, <1>4, StillHeld

LEMMA FlowStep ==
  ASSUME TypeOK, NoStaleHandler, Ledger, Course, [Next]_vars
  PROVE  [Flow!Next]_(Flow!vars)
<1> USE DEF uiVars, chainVars, walletVars, pageVars
<1>0. /\ {"tx-validate", "tx-simulate", "accept", "sign-complete", "connect-wallet"} \subseteq Topics
      /\ Users("tx-validate") = Requests /\ Users("tx-simulate") = Requests
      /\ Users("accept") = Requests /\ Users("sign-complete") = Requests
      /\ Users("connect-wallet") = Switches
      /\ Requests \subseteq Ids /\ Switches \subseteq Ids /\ Requests \cap Switches = {}
      /\ pc \in [Ids -> Stages]
  BY FacadeAssumption DEF Topics, Replies, Ids, TypeOK, Users
\* Those who are let through together are some of the calls.
<1>1. ASSUME NEW ids \in Seq(Requests), Flow!LetThrough(Listeners(ids)) PROVE Flow!Next
  <2>1. Listeners(ids) \in SUBSET Requests
    BY DEF Listeners
  <2> QED BY <1>1, <2>1 DEF Flow!Next
<1>2. ASSUME UNCHANGED <<pc, grant, permit, metaTx, agreed, notices>> PROVE UNCHANGED Flow!vars
  BY <1>2, SameStatus, Stutter
<1>3. ASSUME NEW r \in Requests, PassThrough(r) PROVE Flow!LetThrough({r})
  <2>1. Status[r] = "new" /\ \A q \in Requests : pc'[q] = (IF q = r THEN "done" ELSE pc[q])
    BY <1>0, <1>3, StatusOf DEF PassThrough
  <2>2. Status' = [q \in Requests |-> IF q \in {r} THEN "released" ELSE Status[q]]
    BY <2>1 DEF Status
  <2>3. Spent' = Spent
    BY <1>3 DEF PassThrough, Spent
  <2> QED BY <1>3, <2>1, <2>2, <2>3 DEF PassThrough, Flow!LetThrough
<1>4. ASSUME NEW r \in Requests, Intercept(r) PROVE Flow!Hold(r)
  <2>1. Status[r] = "new" /\ \A q \in Requests : pc'[q] = (IF q = r THEN "validate" ELSE pc[q])
    BY <1>0, <1>4, StatusOf DEF Intercept
  <2>2. Status' = [Status EXCEPT ![r] = "held"]
    BY <2>1 DEF Status
  <2>3. Spent' = Spent
    BY <1>4 DEF Intercept, Spent
  <2> QED BY <1>4, <2>1, <2>2, <2>3 DEF Intercept, Flow!Hold
<1>5. ASSUME NEW r \in Requests, Validated(r) PROVE UNCHANGED Flow!vars
  <2>1. PICK d \in Dispatches(waiters["tx-validate"]) : MoveTo(d.to, "simulate")
    BY <1>5 DEF Validated
  <2>2. \A q \in Requests : q \in Listeners(d.to) => pc[q] \notin {"new", "done"}
    BY <1>0, Reached, StagesOfTopics
  <2>3. "simulate" \in Active
    BY DEF Active, Stages
  <2> QED BY <1>5, <2>1, <2>2, <2>3, StillHeld, Stutter DEF Validated
<1>6. ASSUME NEW r \in Requests, NotValid(r) PROVE Flow!Next
  <2>1. PICK d \in Dispatches(waiters["tx-validate"]) : MoveTo(d.to, "done")
    BY <1>6 DEF NotValid
  <2>2. /\ \A i \in Listeners(d.to) : i \in Requests /\ pc[i] \notin {"new", "done"}
        /\ d.to \in Seq(Requests)
    <3>1. d.to \in Seq(Requests)
      BY <1>0, StagesOfTopics, DispatchUsers
    <3>2. \A i \in Listeners(d.to) : i \in Requests
      BY <3>1 DEF Listeners
    <3>3. \A q \in Requests : q \in Listeners(d.to) => pc[q] \notin {"new", "done"}
      BY <1>0, Reached, StagesOfTopics
    <3> QED BY <3>1, <3>2, <3>3
  <2> QED BY <1>1, <1>6, <2>1, <2>2, Released DEF NotValid
<1>7. ASSUME NEW r \in Requests, SimulateAnswer(r) PROVE UNCHANGED Flow!vars
  <2>1. PICK d \in Dispatches(waiters["tx-simulate"]) : MoveTo(d.to, "decide")
    BY <1>7 DEF SimulateAnswer, Simulated, NotSimulated, AwaitDecision
  <2>2. \A q \in Requests : q \in Listeners(d.to) => pc[q] \notin {"new", "done"}
    BY <1>0, Reached, StagesOfTopics
  <2>3. "decide" \in Active
    BY DEF Active, Stages
  <2> QED BY <1>7, <2>1, <2>2, <2>3, StillHeld, Stutter DEF SimulateAnswer, Simulated, NotSimulated
\* The handlers of an accept message make the deal, or end.
<1>8. ASSUME DeliverAccept PROVE Flow!Next
  <2>1. PICK d \in Dispatches(waiters["accept"]) :
          IF Head(bus).accepted /\ wallet # None
          THEN StartPermit(Head(bus), d.to)
          ELSE GiveUp(d.to)
    BY <1>8 DEF DeliverAccept, HandleAccept
  <2>2. /\ \A i \in Listeners(d.to) : i \in Requests /\ pc[i] = "decide"
        /\ d.to \in Seq(Requests)
    <3>1. d.to \in Seq(Requests)
      BY <1>0, StagesOfTopics, DispatchUsers
    <3>2. \A i \in Listeners(d.to) : i \in Requests
      BY <3>1 DEF Listeners
    <3>3. \A q \in Requests : q \in Listeners(d.to) => pc[q] = "decide"
      BY <1>0, Reached, StagesOfTopics
    <3> QED BY <3>1, <3>2, <3>3
  <2>3. CASE ~(Head(bus).accepted /\ wallet # None)
    <3>1. MoveTo(d.to, "done") /\ UNCHANGED <<grant, permit, chainVars, agreed, notices>>
      BY <1>8, <2>1, <2>3 DEF GiveUp, DeliverAccept
    <3> QED BY <1>1, <2>2, <3>1, Released
  <2>4. CASE Head(bus).accepted /\ wallet # None
    <3> DEFINE C == Listeners(d.to)
    <3>1. StartPermit(Head(bus), d.to) /\ UNCHANGED <<chainVars, agreed, notices>>
      BY <1>8, <2>1, <2>4 DEF DeliverAccept
    <3>2. C \in SUBSET Requests /\ C \subseteq {c \in Flow!Held : grant[c] = None}
      BY <2>2, StatusOf DEF Flow!Held, Course, Early
    <3>3. Head(bus).payload \in agreed
      <4>1. Head(bus) \in GoodMessage
        BY <1>8, HeadTailProperties DEF DeliverAccept, Ledger
      <4> QED BY <1>8, <2>4, <4>1 DEF DeliverAccept, GoodMessage
    <3>4. Status' = Status
      <4>1. MoveTo(d.to, "permit") /\ "permit" \in Active
        BY <3>1 DEF StartPermit, Active, Stages
      <4>2. \A q \in Requests : q \in Listeners(d.to) => pc[q] \notin {"new", "done"}
        BY <2>2
      <4> QED BY <4>1, <4>2, StillHeld
    <3>5. Spent' = Spent
      <4>1. \A q \in Requests : metaTx[q] = "mined" => q \notin C
        BY <2>2 DEF Ledger, Unposted
      <4>2. \A q \in Requests : q \notin C => permit'[q] = permit[q]
        BY <3>1 DEF StartPermit
      <4> QED BY <3>1, <4>1, <4>2 DEF Spent
    <3>6. grant' = [c \in Requests |-> IF c \in C THEN Head(bus).payload ELSE grant[c]]
      BY <3>1 DEF StartPermit
    <3>7. Flow!Deal(C, Head(bus).payload)
      BY <3>1, <3>2, <3>3, <3>4, <3>5, <3>6 DEF Flow!Deal
    <3> QED BY <3>2, <3>3, <3>7 DEF Flow!Next
  <2> QED BY <2>3, <2>4
<1>9. ASSUME NEW r \in Requests, BuildPermit(r) PROVE UNCHANGED Flow!vars
  <2>1. metaTx[r] = "none"
    BY <1>9 DEF BuildPermit, Ledger, Unposted
  <2>2. \A q \in Requests \ {r} : permit'[q] = permit[q]
    BY <1>9 DEF BuildPermit, TypeOK
  <2>3. Spent' = Spent
    BY <1>9, <2>1, <2>2 DEF BuildPermit, Spent
  <2>4. "sign" \in Active
    BY DEF Active, Stages
  <2>5. Status' = Status
    BY <1>9, <2>4, GoesOn DEF BuildPermit
  <2> QED BY <1>9, <2>3, <2>5 DEF BuildPermit, Flow!vars
<1>10. ASSUME NEW r \in Requests, Sign(r) PROVE Flow!AskFor(r)
  <2>1. /\ metaTx[r] = "none" /\ grant[r] # None /\ pc[r] = "sign"
        /\ metaTx' = [metaTx EXCEPT ![r] = "posted"]
        /\ UNCHANGED <<grant, permit, agreed, notices>>
    BY <1>10, FacadeAssumption DEF Sign, Ledger, Unposted, TypeOK
  <2>2. r \in Flow!Held
    BY <2>1, StatusOf DEF Flow!Held
  <2>3. "submit" \in Active
    BY DEF Active, Stages
  <2>4. Status' = Status
    BY <1>10, <2>1, <2>3, GoesOn DEF Sign
  <2>5. Spent' = Spent
    BY <2>1 DEF Spent, TypeOK
  <2> QED BY <2>1, <2>2, <2>4, <2>5 DEF Flow!AskFor, Flow!Moves
<1>11. ASSUME NEW r \in Requests, NotSigned(r) \/ MineAnswer(r) PROVE Flow!Next
  <2>1. /\ MoveTo(<<r>>, "done") /\ <<r>> \in Seq(Requests)
        /\ UNCHANGED <<grant, permit, chainVars, agreed, notices>>
        /\ \A i \in Listeners(<<r>>) : i \in Requests /\ pc[i] \notin {"new", "done"}
    BY <1>11 DEF NotSigned, MineAnswer, Confirmed, NotConfirmed, Finalise, Listeners
  <2> QED BY <1>1, <2>1, Released
<1>12. ASSUME NEW r \in Requests, Submitted(r) PROVE UNCHANGED Flow!vars
  <2>1. PICK d \in Dispatches(waiters["sign-complete"]) : MoveTo(d.to, "mine")
    BY <1>12 DEF Submitted
  <2>2. \A q \in Requests : q \in Listeners(d.to) => pc[q] \notin {"new", "done"}
    BY <1>0, Reached, StagesOfTopics
  <2>3. "mine" \in Active
    BY DEF Active, Stages
  <2> QED BY <1>12, <2>1, <2>2, <2>3, StillHeld, Stutter DEF Submitted
<1>13. ASSUME NEW r \in Requests, NotSubmitted(r) PROVE Flow!Next
  <2>1. PICK d \in Dispatches(waiters["sign-complete"]) : MoveTo(d.to, "done")
    BY <1>13 DEF NotSubmitted, Finalise
  <2>2. /\ \A i \in Listeners(d.to) : i \in Requests /\ pc[i] \notin {"new", "done"}
        /\ d.to \in Seq(Requests)
    <3>1. d.to \in Seq(Requests)
      BY <1>0, StagesOfTopics, DispatchUsers
    <3>2. \A i \in Listeners(d.to) : i \in Requests
      BY <3>1 DEF Listeners
    <3>3. \A q \in Requests : q \in Listeners(d.to) => pc[q] \notin {"new", "done"}
      BY <1>0, Reached, StagesOfTopics
    <3> QED BY <3>1, <3>2, <3>3
  <2> QED BY <1>1, <1>13, <2>1, <2>2, Released DEF NotSubmitted
<1>14. ASSUME DeliverFinalise PROVE Flow!Next \/ UNCHANGED Flow!vars
  <2>1. PICK tx : tx = Head(bus).tx
    OBVIOUS
  <2>2. /\ notices' = notices \cup ({tx} \ {None})
        /\ UNCHANGED <<pc, grant, permit, metaTx, agreed>>
    BY <1>14, <2>1 DEF DeliverFinalise
  <2>3. tx # None => tx \in Requests /\ metaTx[tx] = "mined"
    <3>1. Head(bus) \in GoodMessage
      BY <1>14, HeadTailProperties DEF DeliverFinalise, Ledger
    <3> QED BY <1>14, <2>1, <3>1, FirstMessage DEF DeliverFinalise, GoodMessage
  <2>4. Status' = Status /\ Spent' = Spent
    BY <2>2, SameStatus DEF Spent
  <2>5. CASE tx = None
    BY <1>2, <2>2, <2>5
  <2>6. CASE tx # None
    BY <2>2, <2>3, <2>4, <2>6 DEF Flow!Next, Flow!Announce
  <2> QED BY <2>5, <2>6
<1>15. ASSUME GetGas PROVE Flow!Next
  <2>1. /\ drawer.payload \in Payload
        /\ agreed' = agreed \cup {drawer.payload}
        /\ UNCHANGED <<pc, grant, permit, metaTx, notices>>
    BY <1>15 DEF GetGas, ButtonsEnabled, TypeOK
  <2>2. Status' = Status /\ Spent' = Spent
    BY <2>1, SameStatus DEF Spent
  <2> QED BY <2>1, <2>2 DEF Flow!Next, Flow!Agree
<1>16. ASSUME DeliverOpen \/ DeliverAccountsChanged \/ Cancel \/ CloseDrawer \/ UNCHANGED vars
       PROVE  UNCHANGED Flow!vars
  BY <1>2, <1>16 DEF DeliverOpen, DeliverAccountsChanged, Cancel, CloseDrawer, vars
<1>17. ASSUME NEW s \in Switches, NEW account \in MaybeAccount,
              Switch(s, account) \/ Connected(s) \/ ConnectIgnored(s)
       PROVE  UNCHANGED Flow!vars
  <2>1. \A r \in Requests : pc'[r] = pc[r]
    <3>1. CASE Connected(s)
      <4>1. PICK d \in Dispatches(waiters["connect-wallet"]) : MoveTo(d.to, "done")
        BY <3>1 DEF Connected
      <4>2. \A i \in Listeners(d.to) : i \in Switches
        BY <1>0, DispatchUsers DEF Listeners
      <4> QED BY <1>0, <4>1, <4>2 DEF MoveTo
    <3> QED BY <1>0, <1>17, <3>1 DEF Switch, ConnectIgnored
  <2>2. UNCHANGED <<grant, permit, metaTx, agreed, notices>>
    BY <1>17 DEF Switch, Connected, ConnectIgnored
  <2> QED BY <2>1, <2>2, SameStatus, Stutter
<1>18. ASSUME NEW r \in Requests, Relay(r) \/ Revert(r) PROVE Flow!Next
  <2>1. /\ UNCHANGED <<pc, grant, permit, agreed, notices>>
        /\ \/ metaTx[r] = "posted" /\ metaTx' = [metaTx EXCEPT ![r] = "pending"]
           \/ metaTx[r] = "pending" /\ metaTx' = [metaTx EXCEPT ![r] = "reverted"]
    BY <1>18 DEF Relay, Revert
  <2>2. Status' = Status
    BY <2>1, SameStatus
  <2>3. Spent' = Spent
    BY <2>1 DEF Spent, TypeOK
  <2>4. Flow!Send(r) \/ Flow!Fail(r)
    BY <2>1, <2>2, <2>3 DEF Flow!Send, Flow!Fail, Flow!Moves
  <2> QED BY <2>4 DEF Flow!Next
\* The permit that pays is the owner's next one; those that paid are behind it.
<1>19. ASSUME NEW r \in Requests, Mine(r) PROVE Flow!Next
  <2>1. PICK o : o = Owner(r)
    OBVIOUS
  <2>2. /\ metaTx[r] = "pending" /\ metaTx' = [metaTx EXCEPT ![r] = "mined"]
        /\ permit[r] = [signer |-> o, nonce |-> nonces[o]]
        /\ UNCHANGED <<pc, grant, permit, agreed, notices>>
    BY <1>19, <2>1 DEF Mine
  <2>3. Status' = Status
    BY <2>2, SameStatus
  <2>4. o \in Accounts /\ nonces[o] \in Nat
    BY <2>2 DEF Course, TypeOK
  <2>5. permit[r] \notin Spent
    <3>1. \A q \in Requests : metaTx[q] = "mined" => permit[q].nonce < nonces[permit[q].signer]
      BY DEF Course
    <3> QED BY <2>2, <2>4, <3>1 DEF Spent
  <2>6. Spent' = Spent \cup {permit[r]}
    BY <2>2 DEF Spent, TypeOK
  <2>7. Flow!Pay(r)
    BY <2>2, <2>3, <2>5, <2>6 DEF Flow!Pay, Flow!Moves
  <2> QED BY <2>7 DEF Flow!Next
<1> QED
  <2>1. CASE \E r \in Requests : \/ PassThrough(r) \/ Intercept(r) \/ ValidateAnswer(r)
                                \/ SimulateAnswer(r) \/ PermitStep(r) \/ SubmitAnswer(r)
                                \/ MineAnswer(r) \/ Relay(r) \/ ChainStep(r)
    <3>1. \A r \in Requests : /\ PassThrough(r) => Flow!Next
                              /\ Intercept(r) => Flow!Next
                              /\ Sign(r) => Flow!Next
      BY <1>3, <1>4, <1>10 DEF Flow!Next
    <3> QED BY <1>5, <1>6, <1>7, <1>9, <1>11, <1>12, <1>13, <1>18, <1>19, <2>1, <3>1
            DEF ValidateAnswer, PermitStep, SubmitAnswer, ChainStep
  <2>2. CASE \/ Deliver \/ Decide \/ CloseDrawer \/ UNCHANGED vars
    BY <1>8, <1>14, <1>15, <1>16, <2>2 DEF Deliver, Decide
  <2>3. CASE \E s \in Switches : \/ \E account \in MaybeAccount : Switch(s, account)
                                \/ Connected(s) \/ ConnectIgnored(s)
    <3>1. None \in MaybeAccount
      BY DEF MaybeAccount
    <3> QED BY <1>17, <2>3, <3>1
  <2> QED BY <2>1, <2>2, <2>3 DEF Next

\* Whatever the order of messages, answers, failures and decisions, and however
\* many calls a page makes at a time, the facade implements GasFlow: no call is
\* taken up again once let through or acts on two payloads, and no permit pays for
\* two meta-transactions, although one press of Get Gas may sign two of them
\* (waitForSignature and actionSignature of RPCProviderFacade.ts).
THEOREM ImplementsFlow == Spec => FlowKept
<1>1. Init => Course /\ Flow!Init
  <2> SUFFICES ASSUME Init PROVE Course /\ Flow!Init
    OBVIOUS
  <2>1. Course
    BY DEF Init, Course, Ids
  <2>2. Status = [c \in Requests |-> "new"]
    BY DEF Init, Status, Ids
  <2>3. Spent = {}
    BY DEF Init, Spent
  <2> QED BY <2>1, <2>2, <2>3 DEF Init, Flow!Init
<1>2. IInv /\ Course /\ [Next]_vars => Course'
  BY CourseStep DEF IInv
<1>3. IInv /\ Course /\ [Next]_vars => [Flow!Next]_(Flow!vars)
  BY FlowStep DEF IInv
<1> QED BY <1>1, <1>2, <1>3, Invariance, PTL DEF Spec, FlowKept, Flow!Spec
=============================================================================
