------------------------------- MODULE Facade -------------------------------
(***************************************************************************)
(* One browser tab running the CoinChoice extension.                       *)
(*                                                                         *)
(* A web page calls window.ethereum; RPCProviderFacade intercepts the      *)
(* call, asks the background (through the Framebus message bus and the     *)
(* relays of contents/scoped.ts) whether the selected coin is valid, has   *)
(* the transaction simulated, opens the drawer of Notification.tsx, waits  *)
(* for the user's decision, has the user sign a permit, submits the meta-  *)
(* transaction, waits until it is mined, and only then (or as soon as any  *)
(* of these steps fails) lets the page's own call through to MetaMask.     *)
(*                                                                         *)
(* An action is one macrotask of the tab: a handler with everything its    *)
(* promises run before the event loop takes the next message.              *)
(***************************************************************************)
EXTENDS Integers, Sequences, FiniteSets

CONSTANTS Requests,   \* the intercepted calls a page makes, each made at most once
          Switches,   \* the accountsChanged events of MetaMask, each fired at most once
          Accounts,   \* the accounts of the user
          None,       \* no account is connected, no payload, no transaction
          MaxActive   \* how many intercepted calls a page leaves unanswered at a time

VARIABLES
  pc,         \* how far a request is in waitForSignature, or an event in its handler
  sender,     \* the account a request's transaction is sent from
  wallet,     \* facade.wallet.address
  waiters,    \* per bus topic, the handlers registered for it, oldest first
  calls,      \* per bus topic, the calls the relay and the background are working on
  bus,        \* messages between the page and the drawer, not delivered yet
  drawer,     \* the React state of Notification
  newAccount, \* the account Notification heard of last
  switched,   \* the account an accountsChanged event announced
  grant,      \* the payload of the accept message a request acts on
  permit,     \* the permit signed for a request: who signs, with which nonce
  receipt,    \* whose meta-transaction a request waits for
  metaTx,     \* what became of the meta-transaction submitted for a request
  nonces,     \* the permit nonce the token keeps for an account
  agreed,     \* history: the payloads for which the user pressed Get Gas
  notices     \* history: the meta-transactions announced as a gas deposit

vars == <<pc, sender, wallet, waiters, calls, bus, drawer, newAccount, switched,
          grant, permit, receipt, metaTx, nonces, agreed, notices>>

pageVars == <<pc, sender, waiters, calls, grant, permit, receipt>>
uiVars == <<drawer, newAccount, agreed, notices>>
chainVars == <<metaTx, nonces>>
walletVars == <<wallet, switched>>

-----------------------------------------------------------------------------
(* Stages of a request (and of an accountsChanged event, which only has the *)
(* stage "connect"), and the bus topic it listens to in each of them.      *)

Stages == {"new", "validate", "simulate", "decide", "permit", "sign", "submit",
           "mine", "connect", "done"}
Active == Stages \ {"new", "done"}

Replies == {"tx-validate", "tx-simulate", "sign-complete"}
Topics == Replies \cup {"accept", "connect-wallet"}

\* The stage in which a request is registered for a topic.
StageOf(topic) == CASE topic = "tx-validate" -> "validate"
                    [] topic = "tx-simulate" -> "simulate"
                    [] topic = "accept" -> "decide"
                    [] topic = "sign-complete" -> "submit"
                    [] topic = "connect-wallet" -> "connect"

Ids == Requests \cup Switches
\* Who registers for a topic, and has calls made for it.
Users(topic) == IF topic = "connect-wallet" THEN Switches ELSE Requests
MaybeAccount == Accounts \cup {None}

\* What the drawer shows: the transaction, the simulation, and the wallet.
Payload == [tx : Requests, sim : Requests, account : MaybeAccount]

ASSUME FacadeAssumption ==
  /\ IsFiniteSet(Requests)
  /\ Requests \cap Switches = {}
  /\ None \notin Accounts \cup Requests \cup Switches \cup Payload
  /\ MaxActive \in Nat \ {0}

NoPermit == [signer |-> None, nonce |-> 0]
Permit == [signer : MaybeAccount, nonce : Nat]

Message == [topic : {"open"}, payload : Payload]
      \cup [topic : {"accept"}, accepted : BOOLEAN, payload : Payload]
      \cup [topic : {"sign-finalise"}, tx : Requests \cup {None}]
      \cup [topic : {"mm:accountsChanged"}, account : MaybeAccount]

Listeners(s) == {s[k] : k \in DOMAIN s}

(***************************************************************************)
(* Framebus hands an event to the handlers registered for its topic.  Every*)
(* handler of this program removes itself when it runs.  A dispatcher that *)
(* walks a copy of the list reaches them all; one that walks the live list *)
(* steps over the neighbour of each handler that removed itself.           *)
(***************************************************************************)
OddPlaces(s) == [k \in 1..((Len(s) + 1) \div 2) |-> s[2 * k - 1]]
EvenPlaces(s) == [k \in 1..(Len(s) \div 2) |-> s[2 * k]]
Dispatches(s) == {[to |-> s, left |-> <<>>],
                  [to |-> OddPlaces(s), left |-> EvenPlaces(s)]}

\* The states of a meta-transaction the backend has sent.
OnChain == {"pending", "mined", "reverted"}

-----------------------------------------------------------------------------
Init ==
  /\ pc = [i \in Ids |-> "new"]
  /\ sender = [r \in Requests |-> None]
  /\ wallet \in MaybeAccount
  /\ waiters = [t \in Topics |-> <<>>]
  /\ calls = [t \in Topics |-> {}]
  /\ bus = <<>>
  /\ drawer = [opened |-> FALSE, loading |-> FALSE, payload |-> None]
  /\ newAccount = None
  /\ switched = [s \in Switches |-> None]
  /\ grant = [r \in Requests |-> None]
  /\ permit = [r \in Requests |-> NoPermit]
  /\ receipt = [r \in Requests |-> None]
  /\ metaTx = [r \in Requests |-> "none"]
  /\ nonces = [a \in Accounts |-> 0]
  /\ agreed = {}
  /\ notices = {}

-----------------------------------------------------------------------------
(* The page: RPCProviderFacade.                                            *)

\* busPromise for every element of the sequence ids: register for the answer
\* and post the question, which the relay hands to the background.
Ask(topic, ids) ==
  /\ waiters' = [waiters EXCEPT ![topic] = @ \o ids]
  /\ calls' = [calls EXCEPT ![topic] = @ \cup Listeners(ids)]

\* The background answers the call made for id: the call is over, the handlers
\* of d.to have run, and they ask the next question.
Answered(topic, id, d, next) ==
  /\ waiters' = [waiters EXCEPT ![topic] = d.left, ![next] = @ \o d.to]
  /\ calls' = [calls EXCEPT ![topic] = @ \ {id},
                            ![next] = @ \cup Listeners(d.to)]

\* The background answers, and nobody has anything more to ask.
AnsweredOnly(topic, id, d) ==
  /\ waiters' = [waiters EXCEPT ![topic] = d.left]
  /\ calls' = [calls EXCEPT ![topic] = @ \ {id}]

MoveTo(ids, stage) ==
  pc' = [i \in Ids |-> IF i \in Listeners(ids) THEN stage ELSE pc[i]]

\* The end of waitForSignature, both by its try and by its catch branch: it
\* tells the drawer, and the page's own call goes on to MetaMask.
Finalise(ids, tx) ==
  /\ MoveTo(ids, "done")
  /\ bus' = bus \o [k \in DOMAIN ids |-> [topic |-> "sign-finalise", tx |-> tx]]

\* A method or a chain the extension does not care about: straight to MetaMask.
PassThrough(r) ==
  /\ pc[r] = "new"
  /\ pc' = [pc EXCEPT ![r] = "done"]
  /\ UNCHANGED <<sender, wallet, waiters, calls, bus, switched, grant, permit,
                 receipt, uiVars, chainVars>>

\* The page names the account it sends from, which need not be the wallet's; nor need
\* the wallet object have an account.
Intercept(r) ==
  /\ pc[r] = "new"
  /\ Cardinality({q \in Requests : pc[q] \in Active}) < MaxActive
  /\ pc' = [pc EXCEPT ![r] = "validate"]
  /\ \E account \in Accounts : sender' = [sender EXCEPT ![r] = account]
  /\ Ask("tx-validate", <<r>>)
  /\ UNCHANGED <<bus, grant, permit, receipt, uiVars, chainVars, walletVars>>

\* The coin is valid for the network: have the transaction simulated.
Validated(r) ==
  /\ r \in calls["tx-validate"]
  /\ \E d \in Dispatches(waiters["tx-validate"]) :
       /\ MoveTo(d.to, "simulate")
       /\ Answered("tx-validate", r, d, "tx-simulate")
  /\ UNCHANGED <<sender, bus, grant, permit, receipt, uiVars, chainVars, walletVars>>

\* It is not: waitForSignature returns at once.
NotValid(r) ==
  /\ r \in calls["tx-validate"]
  /\ \E d \in Dispatches(waiters["tx-validate"]) :
       /\ MoveTo(d.to, "done")
       /\ AnsweredOnly("tx-validate", r, d)
  /\ UNCHANGED <<sender, bus, grant, permit, receipt, uiVars, chainVars, walletVars>>

\* The handlers of d.to register for the user's decision (no question is
\* posted: the drawer knows of them only by the open messages).
AwaitDecision(r, d) ==
  /\ MoveTo(d.to, "decide")
  /\ waiters' = [waiters EXCEPT !["tx-simulate"] = d.left, !["accept"] = @ \o d.to]
  /\ calls' = [calls EXCEPT !["tx-simulate"] = @ \ {r}]

OpenMessage(tx, sim) ==
  [topic |-> "open", payload |-> [tx |-> tx, sim |-> sim, account |-> wallet]]

\* The simulation of r is back: whoever receives it presents it to the user.
Simulated(r) ==
  /\ r \in calls["tx-simulate"]
  /\ \E d \in Dispatches(waiters["tx-simulate"]) :
       /\ AwaitDecision(r, d)
       /\ bus' = bus \o [k \in DOMAIN d.to |-> OpenMessage(d.to[k], r)]
  /\ UNCHANGED <<sender, grant, permit, receipt, uiVars, chainVars, walletVars>>

\* Mutation: the relay logs the failed simulation and answers nothing.
NotSimulated_NoAnswer(r) ==
  /\ r \in calls["tx-simulate"]
  /\ calls' = [calls EXCEPT !["tx-simulate"] = @ \ {r}]
  /\ UNCHANGED <<pc, waiters, sender, bus, grant, permit, receipt, uiVars, chainVars,
                 walletVars>>

\* The simulation failed: the error is logged, no drawer is opened, and the
\* request waits for a decision all the same.
NotSimulated(r) ==
  /\ r \in calls["tx-simulate"]
  /\ \E d \in Dispatches(waiters["tx-simulate"]) : AwaitDecision(r, d)
  /\ UNCHANGED <<sender, bus, grant, permit, receipt, uiVars, chainVars, walletVars>>

\* acceptHandler: the user agreed, and the wallet still has an account to
\* sign with, so the permit is prepared (its name and nonce are read).
StartPermit(m, ids) ==
  /\ MoveTo(ids, "permit")
  /\ grant' = [r \in Requests |-> IF r \in Listeners(ids) THEN m.payload ELSE grant[r]]
  /\ permit' = [r \in Requests |-> IF r \in Listeners(ids)
                                   THEN [signer |-> wallet, nonce |-> 0]
                                   ELSE permit[r]]
  /\ bus' = Tail(bus)

\* Mutation: the catch branch does not tell the drawer.
GiveUp_Silently(ids) ==
  /\ MoveTo(ids, "done")
  /\ bus' = Tail(bus)
  /\ UNCHANGED <<grant, permit>>

\* acceptHandler: the user declined, or there is no account to sign with.
GiveUp(ids) ==
  /\ MoveTo(ids, "done")
  /\ bus' = Tail(bus) \o [k \in DOMAIN ids |-> [topic |-> "sign-finalise", tx |-> None]]
  /\ UNCHANGED <<grant, permit>>

\* Mutation: accepted is not looked at.
HandleAccept_Unchecked(m) ==
  \E d \in Dispatches(waiters["accept"]) :
    /\ waiters' = [waiters EXCEPT !["accept"] = d.left]
    /\ IF wallet # None THEN StartPermit(m, d.to) ELSE GiveUp(d.to)

\* Mutation: the handler is removed only once the user agrees.
HandleAccept_KeptOnCancel(m) ==
  \E d \in Dispatches(waiters["accept"]) :
    IF m.accepted /\ wallet # None
    THEN waiters' = [waiters EXCEPT !["accept"] = d.left] /\ StartPermit(m, d.to)
    ELSE UNCHANGED waiters /\ GiveUp(d.to)

HandleAccept(m) ==
  \E d \in Dispatches(waiters["accept"]) :
    /\ waiters' = [waiters EXCEPT !["accept"] = d.left]
    /\ IF m.accepted /\ wallet # None
       THEN StartPermit(m, d.to)
       ELSE GiveUp(d.to)

DeliverAccept ==
  /\ bus # <<>>
  /\ Head(bus).topic = "accept"
  /\ HandleAccept(Head(bus))
  /\ UNCHANGED <<sender, calls, receipt, uiVars, chainVars, walletVars>>

\* permit.Sign: the nonce is read, then MetaMask asks the user for a signature.
BuildPermit(r) ==
  /\ pc[r] = "permit"
  /\ pc' = [pc EXCEPT ![r] = "sign"]
  /\ permit' = [permit EXCEPT ![r].nonce = nonces[permit[r].signer]]
  /\ UNCHANGED <<sender, waiters, calls, bus, grant, receipt, uiVars, chainVars, walletVars>>

Sign(r) ==
  /\ pc[r] = "sign"
  /\ pc' = [pc EXCEPT ![r] = "submit"]
  /\ Ask("sign-complete", <<r>>)
  /\ metaTx' = [metaTx EXCEPT ![r] = "posted"]
  /\ UNCHANGED <<sender, bus, grant, permit, receipt, nonces, uiVars, walletVars>>

\* Mutation: a refused signature ends the request and not the spinner.
NotSigned_Silently(r) ==
  /\ pc[r] \in {"permit", "sign"}
  /\ MoveTo(<<r>>, "done")
  /\ UNCHANGED <<sender, waiters, calls, bus, grant, permit, receipt, uiVars, chainVars,
                 walletVars>>

\* The token cannot be read, or the user refuses to sign.
NotSigned(r) ==
  /\ pc[r] \in {"permit", "sign"}
  /\ Finalise(<<r>>, None)
  /\ UNCHANGED <<sender, waiters, calls, grant, permit, receipt, uiVars, chainVars, walletVars>>

\* The backend relayed the meta-transaction of r and answers with its hash.
Submitted(r) ==
  /\ r \in calls["sign-complete"]
  /\ metaTx[r] \in OnChain
  /\ \E d \in Dispatches(waiters["sign-complete"]) :
       /\ MoveTo(d.to, "mine")
       /\ receipt' = [q \in Requests |-> IF q \in Listeners(d.to) THEN r ELSE receipt[q]]
       /\ AnsweredOnly("sign-complete", r, d)
  /\ UNCHANGED <<sender, bus, grant, permit, uiVars, chainVars, walletVars>>

\* Mutation: the relay of sign-complete answers only a success.
NotSubmitted_NoAnswer(r) ==
  /\ r \in calls["sign-complete"]
  /\ calls' = [calls EXCEPT !["sign-complete"] = @ \ {r}]
  /\ UNCHANGED <<pc, waiters, sender, bus, grant, permit, receipt, uiVars, chainVars,
                 walletVars>>

\* The submission failed, or its answer did not come within the time limit.
NotSubmitted(r) ==
  /\ r \in calls["sign-complete"]
  /\ \E d \in Dispatches(waiters["sign-complete"]) :
       /\ Finalise(d.to, None)
       /\ AnsweredOnly("sign-complete", r, d)
  /\ UNCHANGED <<sender, grant, permit, receipt, uiVars, chainVars, walletVars>>

\* Mutation: the transaction is looked up and not waited for.
Confirmed_Unmined(r) ==
  /\ pc[r] = "mine"
  /\ metaTx[receipt[r]] \in OnChain
  /\ Finalise(<<r>>, receipt[r])
  /\ UNCHANGED <<sender, waiters, calls, grant, permit, receipt, uiVars, chainVars, walletVars>>

\* tx.wait() returns.
Confirmed(r) ==
  /\ pc[r] = "mine"
  /\ metaTx[receipt[r]] = "mined"
  /\ Finalise(<<r>>, receipt[r])
  /\ UNCHANGED <<sender, waiters, calls, grant, permit, receipt, uiVars, chainVars, walletVars>>

\* getTransaction(txId) knows no such transaction yet and returns null, or
\* tx.wait() throws because the transaction was reverted.
NotConfirmed(r) ==
  /\ pc[r] = "mine"
  /\ metaTx[receipt[r]] \in {"pending", "reverted"}
  /\ Finalise(<<r>>, None)
  /\ UNCHANGED <<sender, waiters, calls, grant, permit, receipt, uiVars, chainVars, walletVars>>

-----------------------------------------------------------------------------
(* The drawer: Notification.tsx, and the user in front of it.              *)

\* The effect that keeps the wallet of the payload at the account heard of last.
AtAccount(payload, account) ==
  IF account = None THEN payload ELSE [payload EXCEPT !.account = account]

DeliverOpen ==
  /\ bus # <<>>
  /\ Head(bus).topic = "open"
  /\ drawer' = [drawer EXCEPT !.opened = TRUE,
                              !.payload = AtAccount(Head(bus).payload, newAccount)]
  /\ bus' = Tail(bus)
  /\ UNCHANGED <<newAccount, agreed, notices, pageVars, chainVars, walletVars>>

\* The drawer closes, and a deposit is announced if there is one.
DeliverFinalise ==
  /\ bus # <<>>
  /\ Head(bus).topic = "sign-finalise"
  /\ drawer' = [drawer EXCEPT !.opened = FALSE, !.loading = FALSE]
  /\ notices' = notices \cup ({Head(bus).tx} \ {None})
  /\ bus' = Tail(bus)
  /\ UNCHANGED <<newAccount, agreed, pageVars, chainVars, walletVars>>

DeliverAccountsChanged ==
  /\ bus # <<>>
  /\ Head(bus).topic = "mm:accountsChanged"
  /\ newAccount' = Head(bus).account
  /\ drawer' = IF drawer.payload = None THEN drawer
               ELSE [drawer EXCEPT !.payload = AtAccount(@, Head(bus).account)]
  /\ bus' = Tail(bus)
  /\ UNCHANGED <<agreed, notices, pageVars, chainVars, walletVars>>

\* The two buttons are shown for a payload with an account and while no
\* signature is loading.
ButtonsEnabled ==
  /\ drawer.opened /\ ~drawer.loading
  /\ drawer.payload # None
  /\ drawer.payload.account # None

Decision(accepted) ==
  [topic |-> "accept", accepted |-> accepted, payload |-> drawer.payload]

GetGas ==
  /\ ButtonsEnabled
  /\ bus' = Append(bus, Decision(TRUE))
  /\ drawer' = [drawer EXCEPT !.loading = TRUE]
  /\ agreed' = agreed \cup {drawer.payload}
  /\ UNCHANGED <<newAccount, notices, pageVars, chainVars, walletVars>>

Cancel ==
  /\ ButtonsEnabled
  /\ bus' = Append(bus, Decision(FALSE))
  /\ drawer' = [drawer EXCEPT !.opened = FALSE]
  /\ UNCHANGED <<newAccount, agreed, notices, pageVars, chainVars, walletVars>>

\* The cross of the drawer: it closes, and nobody is told.
CloseDrawer ==
  /\ drawer.opened
  /\ drawer' = [drawer EXCEPT !.opened = FALSE, !.loading = FALSE]
  /\ UNCHANGED <<bus, newAccount, agreed, notices, pageVars, chainVars, walletVars>>

-----------------------------------------------------------------------------
(* MetaMask: the user switches to an account, or disconnects the page.     *)

\* accountsChanged: the shared wallet object changes at once, and the handler
\* waits until the background has stored it.
Switch(s, account) ==
  /\ pc[s] = "new"
  /\ account # wallet
  /\ wallet' = account
  /\ switched' = [switched EXCEPT ![s] = account]
  /\ pc' = [pc EXCEPT ![s] = "connect"]
  /\ Ask("connect-wallet", <<s>>)
  /\ UNCHANGED <<sender, bus, grant, permit, receipt, uiVars, chainVars>>

\* The background has stored the wallet, or failed to: every handler that is
\* served goes on to tell the drawer of the account of its own event.
Connected(s) ==
  /\ s \in calls["connect-wallet"]
  /\ switched[s] # None
  /\ \E d \in Dispatches(waiters["connect-wallet"]) :
       /\ MoveTo(d.to, "done")
       /\ AnsweredOnly("connect-wallet", s, d)
       /\ bus' = bus \o [k \in DOMAIN d.to |->
                           [topic |-> "mm:accountsChanged", account |-> switched[d.to[k]]]]
  /\ UNCHANGED <<sender, grant, permit, receipt, uiVars, chainVars, walletVars>>

\* The relay drops the request of a wallet without an address: no answer.
ConnectIgnored(s) ==
  /\ s \in calls["connect-wallet"]
  /\ switched[s] = None
  /\ calls' = [calls EXCEPT !["connect-wallet"] = @ \ {s}]
  /\ UNCHANGED <<pc, sender, waiters, bus, grant, permit, receipt, uiVars, chainVars,
                 walletVars>>

-----------------------------------------------------------------------------
(* The backend and the chain, as far as the tab can tell.                  *)

\* The backend relays a submission that reached it; it may still do so after
\* the tab gave up waiting for the answer.
Relay(r) ==
  /\ metaTx[r] = "posted"
  /\ metaTx' = [metaTx EXCEPT ![r] = "pending"]
  /\ UNCHANGED <<nonces, bus, pageVars, uiVars, walletVars>>

\* tx/submit names the sender of the original transaction as the permit's owner.
Owner(r) == sender[grant[r].tx]

\* The token accepts a permit only from its owner and with the owner's nonce.
Mine(r) ==
  /\ metaTx[r] = "pending"
  /\ permit[r] = [signer |-> Owner(r), nonce |-> nonces[Owner(r)]]
  /\ metaTx' = [metaTx EXCEPT ![r] = "mined"]
  /\ nonces' = [nonces EXCEPT ![Owner(r)] = @ + 1]
  /\ UNCHANGED <<bus, pageVars, uiVars, walletVars>>

Revert(r) ==
  /\ metaTx[r] = "pending"
  /\ metaTx' = [metaTx EXCEPT ![r] = "reverted"]
  /\ UNCHANGED <<nonces, bus, pageVars, uiVars, walletVars>>

-----------------------------------------------------------------------------
Deliver == DeliverAccept \/ DeliverOpen \/ DeliverFinalise \/ DeliverAccountsChanged
Decide == GetGas \/ Cancel
ValidateAnswer(r) == Validated(r) \/ NotValid(r)
SimulateAnswer(r) == Simulated(r) \/ NotSimulated(r)
SubmitAnswer(r) == Submitted(r) \/ NotSubmitted(r)
PermitStep(r) == BuildPermit(r) \/ Sign(r) \/ NotSigned(r)
MineAnswer(r) == Confirmed(r) \/ NotConfirmed(r)
ChainStep(r) == Mine(r) \/ Revert(r)

Next ==
  \/ \E r \in Requests :
       \/ PassThrough(r) \/ Intercept(r)
       \/ ValidateAnswer(r) \/ SimulateAnswer(r) \/ PermitStep(r)
       \/ SubmitAnswer(r) \/ MineAnswer(r) \/ Relay(r) \/ ChainStep(r)
  \/ \E s \in Switches :
       \/ \E account \in MaybeAccount : Switch(s, account)
       \/ Connected(s) \/ ConnectIgnored(s)
  \/ Deliver
  \/ Decide
  \/ CloseDrawer

Spec == Init /\ [][Next]_vars

(***************************************************************************)
(* What goes on by itself: the browser delivers messages, the background   *)
(* answers every call (ky gives up after 30 seconds), the user answers the *)
(* prompts of MetaMask, a pending transaction is mined or reverted, and    *)
(* the page goes on once it can.  Nobody promises that the page makes a    *)
(* call, that the backend relays a submission, that the user closes the    *)
(* drawer or switches accounts.                                            *)
(***************************************************************************)
SystemFairness ==
  /\ WF_vars(Deliver)
  /\ \A r \in Requests :
       /\ WF_vars(ValidateAnswer(r)) /\ WF_vars(SimulateAnswer(r))
       /\ WF_vars(PermitStep(r)) /\ WF_vars(SubmitAnswer(r))
       /\ WF_vars(MineAnswer(r)) /\ WF_vars(ChainStep(r))
  /\ \A s \in Switches : WF_vars(Connected(s) \/ ConnectIgnored(s))

FairSpec == Spec /\ SystemFairness

-----------------------------------------------------------------------------
(* Properties.                                                             *)

\* Every variable keeps its shape: handlers are queued per topic, the drawer
\* holds one payload or none, a request acts on one payload at most.
TypeOK ==
  /\ pc \in [Ids -> Stages]
  /\ sender \in [Requests -> MaybeAccount]
  /\ wallet \in MaybeAccount
  /\ waiters \in [Topics -> Seq(Ids)]
  /\ calls \in [Topics -> SUBSET Ids]
  /\ \A t \in Topics : waiters[t] \in Seq(Users(t)) /\ calls[t] \subseteq Users(t)
  /\ bus \in Seq(Message)
  /\ drawer \in [opened : BOOLEAN, loading : BOOLEAN, payload : Payload \cup {None}]
  /\ newAccount \in MaybeAccount
  /\ switched \in [Switches -> MaybeAccount]
  /\ grant \in [Requests -> Payload \cup {None}]
  /\ permit \in [Requests -> Permit]
  /\ receipt \in [Requests -> Requests \cup {None}]
  /\ metaTx \in [Requests -> {"none", "posted"} \cup OnChain]
  /\ nonces \in [Accounts -> Nat]
  /\ agreed \subseteq Payload
  /\ notices \subseteq Requests

\* Nothing is signed or submitted that the user did not agree to: whatever a
\* request asks a permit for, and submits, is a payload the drawer showed when
\* Get Gas was pressed, however accept messages, account changes and other
\* requests interleave (acceptHandler; the accept message of handleSign).
Consent ==
  \A r \in Requests : metaTx[r] # "none" \/ permit[r] # NoPermit => grant[r] \in agreed

\* "Gas deposited into your wallet successfully!" is said only of a meta-
\* transaction that has been mined, whoever's answer the request received
\* (tx.wait() before sign-finalise; the notification in Notification.tsx).
DepositAnnounced == \A r \in notices : metaTx[r] = "mined"

\* No promise of busPromise is left without an answer to come: for every topic
\* the relay always answers, there are as many calls under way as handlers
\* waiting, even when an answer meant for one request resolves another.
NoLostWaiter == \A t \in Replies : Len(waiters[t]) <= Cardinality(calls[t])

\* A registered handler belongs to a request that is waiting for exactly that
\* message, and is registered once: a decision or an answer never wakes up a
\* request that went on or was released (bus.off in busPromise and acceptHandler).
NoStaleHandler ==
  \A t \in Topics :
    /\ \A k \in DOMAIN waiters[t] : pc[waiters[t][k]] = StageOf(t)
    /\ \A k, l \in DOMAIN waiters[t] : waiters[t][k] = waiters[t][l] => k = l

\* An open drawer is never left behind: the request it was opened for is still
\* under way, or a sign-finalise that closes it is on the bus.
OpenDrawerAlive ==
  drawer.opened =>
    \/ pc[drawer.payload.tx] \in Active
    \/ \E k \in DOMAIN bus : bus[k].topic = "sign-finalise"

\* With one call at a time, a request acts on its own prompt, its own quote and
\* its own meta-transaction (the accept, tx-simulate and sign-complete messages
\* carry no request id).
OwnPrompt ==
  \A r \in Requests : /\ grant[r] # None => grant[r].tx = r /\ grant[r].sim = r
                      /\ receipt[r] \in {None, r}

\* What GasFlow calls the status of a call, and the permits that were used up.
Status ==
  [r \in Requests |-> CASE pc[r] = "new" -> "new"
                        [] pc[r] = "done" -> "released"
                        [] OTHER -> "held"]
Spent == {permit[r] : r \in {q \in Requests : metaTx[q] = "mined"}}

Flow == INSTANCE GasFlow
  WITH Calls <- Requests, Deals <- Payload, status <- Status, deal <- grant,
       deposit <- metaTx, spent <- Spent, announced <- notices

\* However messages, decisions, failures and other calls interleave, each call
\* takes its course once: held back, acting on one payload the user agreed to,
\* with one meta-transaction that no other one shares a permit with, and let
\* through for good (waitForSignature; every other step is a stutter).
FlowKept == Flow!Spec

\* Once a request acts on a decision, the page's own call is let through in the
\* end, whether the permit, the submission or the transaction succeeds or fails.
ActionEnds ==
  \A r \in Requests : pc[r] \in {"permit", "sign", "submit", "mine"} ~> pc[r] = "done"

\* The Get Gas button does not keep spinning (isSignLoading): some request
\* finalises and resets it, even if another one took the decision.
LoadingEnds == drawer.loading ~> ~drawer.loading

-----------------------------------------------------------------------------
(* What the documentation says and the code does not do.                   *)

\* "A small amount of ETH is deposited into your wallet", then "continue with
\* your original transaction": a call whose meta-transaction was relayed goes
\* on to MetaMask only when that one is mined.
DepositBeforeOriginal ==
  \A r \in Requests : pc[r] = "done" /\ metaTx[r] \in OnChain => metaTx[r] = "mined"
=============================================================================
