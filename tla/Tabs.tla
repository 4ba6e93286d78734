-------------------------------- MODULE Tabs --------------------------------
(***************************************************************************)
(* How the snap's need_eth message finds a page.                           *)
(*                                                                         *)
(* The main-world script of every page keeps a wallet object, the client   *)
(* id of its socket included, and has the background connect it whenever   *)
(* it changes; the backend keeps the client id in the account's wallet.    *)
(* When the user sends a transaction, the snap posts it to the backend,    *)
(* which passes it to the socket named by a wallet of the sender.  Sockets *)
(* close and open again under another id, connects of several pages        *)
(* overlap, overtake each other and fail, and may be written after the     *)
(* extension gave them up.                                                 *)
(*                                                                         *)
(* A connect looks for a wallet of the account on the backend's network    *)
(* and then updates it, its network included, or creates one: an account   *)
(* has none, one or several wallets there, and a look-up finds any one.    *)
(***************************************************************************)
EXTENDS Integers, Sequences, FiniteSets, SequencesExt

CONSTANTS Pages,      \* the pages with the extension's scripts
          Accounts,   \* the accounts of the user
          None,       \* no account
          Starts,     \* the accounts pages may have when they are loaded
          MaxSockets, \* bound: connections to the gateway
          MaxChanges, \* bound: changes of account or chain
          MaxNeeds,   \* bound: transactions of the snap
          MaxFaults,  \* bound: connects that fail or are given up
          MaxBusy     \* bound: connects being carried out at a time

VARIABLES
  page,     \* the main-world script and its wallet object
  connects, \* the wallet/connect messages being carried out, in the order they were sent
  answers,  \* the pages that hydrate and are being answered
  wallets,  \* the wallets of the backend; a place is an id
  socket,   \* the open connection of a page, or 0
  owner,    \* the pages connections were opened by; a place is a client id
  inbox,    \* what the gateway has sent to a page's socket
  prompts,  \* the need_eth messages pages had, by number and account
  changes,  \* the changes of account or chain so far
  faults,   \* the connects that failed or were given up
  needs,    \* the transactions of the snap that were sent to a page
  had,      \* history: the accounts a page has connected
  by,       \* history: the last page that connected an account
  course    \* history: how the connects of an account went

vars == <<page, connects, answers, wallets, socket, owner, inbox, prompts, changes, faults,
          needs, had, by, course>>

ASSUME TabsAssumption ==
  /\ MaxSockets \in Nat /\ MaxChanges \in Nat /\ MaxNeeds \in Nat
  /\ MaxFaults \in Nat /\ MaxBusy \in Nat
  /\ None \notin Accounts /\ None \notin Pages
  /\ Starts \subseteq [Pages -> Accounts \cup {None}]

\* NETWORK_ID of the backend, and any other.
Networks == {"home", "other"}

\* The client id 0 stands for the empty one.
Page == [at : {"new", "hydrating", "open"}, account : Accounts \cup {None},
         network : Networks, clientId : Nat]

\* A connect is sent, has found the wallet to update, or 0 for one to create, and is late
\* once the extension has given up waiting.
Connect == [page : Pages, account : Accounts, network : Networks, clientId : Nat,
            at : {"sent", "found", "late"}, found : Nat]

\* kept: the networks under which the extension has had the wallet in its storage.
Wallet == [account : Accounts, network : Networks, clientId : Nat, kept : SUBSET Networks]

\* Each looked for its wallet only after those sent before had been carried out, or at
\* least they were written in turn, or not even that: one failed, was written late or
\* overtaken, or a simulation moved a wallet.
Courses == {"apart", "ordered", "neither"}

Hello == [kind : {"hello"}, id : Nat]
NeedEth == [kind : {"need_eth"}, number : Nat, account : Accounts]

Init ==
  /\ \E start \in Starts :
       page = [t \in Pages |-> [at |-> "new", account |-> start[t], network |-> "home",
                                clientId |-> 0]]
  /\ connects = <<>>
  /\ answers = {}
  /\ wallets = <<>>
  /\ socket = [t \in Pages |-> 0]
  /\ owner = <<>>
  /\ inbox = [t \in Pages |-> <<>>]
  /\ prompts = [t \in Pages |-> {}]
  /\ changes = 0
  /\ faults = 0
  /\ needs = 0
  /\ had = [t \in Pages |-> {}]
  /\ by = [a \in Accounts |-> None]
  /\ course = [a \in Accounts |-> "apart"]

messageVars == <<inbox, prompts, changes, had, by>>
gatewayVars == <<socket, owner, needs>>
backgroundVars == <<answers, wallets, faults, course>>

-----------------------------------------------------------------------------
(* The page.                                                               *)

\* connect-wallet, which the relay of the page drops when the wallet has no address.
ConnectWallet(t, wallet) ==
  /\ page' = [page EXCEPT ![t] = wallet]
  /\ LET a == wallet.account IN
       IF a = None
         THEN UNCHANGED <<connects, had, by>>
         ELSE /\ Len(connects) < MaxBusy
              /\ connects' = Append(connects, [page |-> t, account |-> a,
                                               network |-> wallet.network,
                                               clientId |-> wallet.clientId,
                                               at |-> "sent", found |-> 0])
              /\ had' = [had EXCEPT ![t] = @ \cup {a}]
              /\ by' = [by EXCEPT ![a] = t]

\* The script starts, and waits for storage to be hydrated.
Hydrate(t) ==
  /\ page[t].at = "new"
  /\ ConnectWallet(t, [page[t] EXCEPT !.at = "hydrating"])
  /\ UNCHANGED <<inbox, prompts, changes, gatewayVars, backgroundVars>>

accountsChanged(t, a) ==
  /\ page[t].at # "new" /\ page[t].account # a
  /\ changes < MaxChanges /\ changes' = changes + 1
  /\ ConnectWallet(t, [page[t] EXCEPT !.account = a])
  /\ UNCHANGED <<inbox, prompts, gatewayVars, backgroundVars>>

chainChanged(t, n) ==
  /\ page[t].at # "new" /\ page[t].network # n
  /\ changes < MaxChanges /\ changes' = changes + 1
  /\ ConnectWallet(t, [page[t] EXCEPT !.network = n])
  /\ UNCHANGED <<inbox, prompts, gatewayVars, backgroundVars>>

\* The gateway sends a new connection its id.
handleConnection(t) ==
  /\ page[t].at = "open" /\ socket[t] = 0
  /\ Len(owner) < MaxSockets
  /\ owner' = Append(owner, t)
  /\ socket' = [socket EXCEPT ![t] = Len(owner')]
  /\ inbox' = [inbox EXCEPT ![t] = <<[kind |-> "hello", id |-> Len(owner')]>>]
  /\ UNCHANGED <<page, connects, prompts, changes, needs, had, by, backgroundVars>>

\* What has not arrived is lost.
handleDisconnect(t) ==
  /\ socket[t] # 0
  /\ socket' = [socket EXCEPT ![t] = 0]
  /\ inbox' = [inbox EXCEPT ![t] = <<>>]
  /\ UNCHANGED <<page, connects, owner, prompts, changes, needs, had, by, backgroundVars>>

Arrives(t, kind) ==
  /\ inbox[t] # <<>> /\ Head(inbox[t]).kind = kind
  /\ inbox' = [inbox EXCEPT ![t] = Tail(@)]

\* Mutation: the wallet object learns the id and the background does not.
onMessage_Quietly(t) ==
  /\ Arrives(t, "hello")
  /\ page' = [page EXCEPT ![t].clientId = Head(inbox[t]).id]
  /\ UNCHANGED <<connects, had, by, prompts, changes, gatewayVars, backgroundVars>>

onMessage(t) ==
  /\ Arrives(t, "hello")
  /\ ConnectWallet(t, [page[t] EXCEPT !.clientId = Head(inbox[t]).id])
  /\ UNCHANGED <<prompts, changes, gatewayVars, backgroundVars>>

\* The page intercepts the transaction as one of its own.
onMetamask(t) ==
  /\ Arrives(t, "need_eth")
  /\ prompts' = [prompts EXCEPT ![t] = @ \cup {<<Head(inbox[t]).number, Head(inbox[t]).account>>}]
  /\ UNCHANGED <<page, connects, changes, had, by, gatewayVars, backgroundVars>>

-----------------------------------------------------------------------------
(* The background and the wallets of the backend.                          *)

\* The wallets of an account that a look-up may find.
Served(a) == {w \in DOMAIN wallets : wallets[w].account = a /\ wallets[w].network = "home"}
findOne(a) == IF Served(a) = {} THEN {0} ELSE Served(a)

\* Every connect of the account that was sent before has been carried out.
InTurn(i) == \A j \in 1..(i - 1) : connects[j].account # connects[i].account

Find(i) ==
  /\ connects[i].at = "sent"
  /\ \E w \in findOne(connects[i].account) :
       connects' = [connects EXCEPT ![i].at = "found", ![i].found = w]
  /\ course' = [course EXCEPT ![connects[i].account] =
                  IF @ = "apart" /\ ~InTurn(i) THEN "ordered" ELSE @]
  /\ UNCHANGED <<page, answers, wallets, faults, messageVars, gatewayVars>>

\* Only a page that hydrates waits for an answer.
Answered(t) == answers' = IF page[t].at = "hydrating" THEN answers \cup {t} ELSE answers

\* The background answers, unless it has.
Ends(i) ==
  /\ connects' = RemoveAt(connects, i)
  /\ IF connects[i].at = "late" THEN UNCHANGED answers ELSE Answered(connects[i].page)

\* The backend updates the wallet found, its network included, or creates one.  The
\* extension keeps it, unless it has given up waiting.
Write(i) ==
  /\ connects[i].at # "sent"
  /\ LET c == connects[i]
         kept == IF c.at = "late" THEN {} ELSE {c.network}
     IN wallets' = IF c.found = 0
                     THEN Append(wallets, [account |-> c.account, network |-> c.network,
                                           clientId |-> c.clientId, kept |-> kept])
                     ELSE [wallets EXCEPT ![c.found].network = c.network,
                                          ![c.found].clientId = c.clientId,
                                          ![c.found].kept = @ \cup kept]
  /\ course' = [course EXCEPT ![connects[i].account] =
                  IF InTurn(i) /\ connects[i].at = "found" THEN @ ELSE "neither"]
  /\ Ends(i)
  /\ UNCHANGED <<page, faults, messageVars, gatewayVars>>

\* What becomes of a request that was given up is no fault of its own.
Fault(i) ==
  IF connects[i].at = "late" THEN UNCHANGED faults
                             ELSE faults < MaxFaults /\ faults' = faults + 1

\* Mutation: nobody answers when a connect fails.
ConnectFails_Silently(i) ==
  /\ Fault(i)
  /\ connects' = RemoveAt(connects, i)
  /\ course' = [course EXCEPT ![connects[i].account] = "neither"]
  /\ UNCHANGED <<page, answers, wallets, messageVars, gatewayVars>>

\* The look-up or the writing fails, the coin has no token on the network, or none is
\* selected and there is no wallet to update.
ConnectFails(i) ==
  /\ Fault(i)
  /\ Ends(i)
  /\ course' = [course EXCEPT ![connects[i].account] = "neither"]
  /\ UNCHANGED <<page, wallets, messageVars, gatewayVars>>

\* The backend takes too long to write, and writes all the same.
GiveUp(i) ==
  /\ connects[i].at = "found" /\ Fault(i)
  /\ connects' = [connects EXCEPT ![i].at = "late"]
  /\ Answered(connects[i].page)
  /\ UNCHANGED <<page, wallets, course, messageVars, gatewayVars>>

\* An answer, an error included, is for whoever waits: the page's hydration takes the
\* first.  The page then connects to the gateway.
Answer(t) ==
  /\ t \in answers /\ answers' = answers \ {t}
  /\ page' = [page EXCEPT ![t].at = "open"]
  /\ UNCHANGED <<connects, wallets, faults, course, messageVars, gatewayVars>>

\* A simulation writes the network it read in storage, which may be an earlier one.
SimulateUpdate(w) ==
  /\ \E n \in wallets[w].kept \ {wallets[w].network} :
       wallets' = [wallets EXCEPT ![w].network = n]
  /\ course' = [course EXCEPT ![wallets[w].account] = "neither"]
  /\ UNCHANGED <<page, connects, answers, faults, messageVars, gatewayVars>>

-----------------------------------------------------------------------------
(* The snap, and POST /metamask.                                           *)

Message(a) == [kind |-> "need_eth", number |-> needs', account |-> a]

\* Mutation: every client is sent the message, as by message/all.
metamask_All(a) ==
  /\ needs < MaxNeeds /\ needs' = needs + 1
  /\ inbox' = [t \in Pages |-> IF socket[t] # 0 THEN Append(inbox[t], Message(a)) ELSE inbox[t]]
  /\ UNCHANGED <<page, connects, socket, owner, prompts, changes, had, by, backgroundVars>>

\* Any of the account's wallets is taken.  Without one, without a client id in it or with
\* one that is not connected nothing is sent; the snap logs an error of the backend.
metamask(a) ==
  /\ needs < MaxNeeds /\ needs' = needs + 1
  /\ \E w \in Served(a), t \in Pages :
       /\ socket[t] # 0 /\ socket[t] = wallets[w].clientId
       /\ inbox' = [inbox EXCEPT ![t] = Append(@, Message(a))]
  /\ UNCHANGED <<page, connects, socket, owner, prompts, changes, had, by, backgroundVars>>

-----------------------------------------------------------------------------
PageStep(t) ==
  \/ Hydrate(t)
  \/ \E a \in Accounts \cup {None} : accountsChanged(t, a)
  \/ \E n \in Networks : chainChanged(t, n)
  \/ handleConnection(t) \/ handleDisconnect(t)
  \/ onMessage(t) \/ onMetamask(t) \/ Answer(t)

ConnectStep(i) == Find(i) \/ Write(i) \/ ConnectFails(i) \/ GiveUp(i)

Next ==
  \/ \E t \in Pages : PageStep(t)
  \/ \E i \in DOMAIN connects : ConnectStep(i)
  \/ \E w \in DOMAIN wallets : SimulateUpdate(w)
  \/ \E a \in Accounts : metamask(a)

\* A request ends at the latest after the timeout of 30 seconds, and what the handler
\* makes of that, an error that it throws included, is passed on by the relay.
Proceeds(t) ==
  \/ Answer(t)
  \/ \E i \in DOMAIN connects : connects[i].page = t /\ connects[i].at # "late" /\ ConnectStep(i)
Fairness == \A t \in Pages : WF_vars(Proceeds(t))

Spec == Init /\ [][Next]_vars /\ Fairness

-----------------------------------------------------------------------------
(* Properties.                                                             *)

\* A page is asked about the transactions of an account only if it has connected that
\* account itself, whatever connects overtake each other and whatever ids are out of
\* date (wallet.clientId in main.ts, and the emit of POST /metamask).
RightPage == \A t \in Pages : \A p \in prompts[t] : p[2] \in had[t]

\* As long as the connects of an account are written in the order of the pages'
\* messages, the page that connected it last is, once its messages are through, named by
\* a wallet of the account on the backend's network, its socket opened anew or not; if
\* none of them looked for a wallet before those sent earlier were written, so that no
\* second one was created, by every such wallet: whichever a look-up finds, the account
\* is reached there (onMessage and accountsChanged in main.ts, wallet/connect, findOne).
LastPageReached ==
  \A a \in Accounts : \A t \in Pages :
    /\ course[a] # "neither" /\ inbox[t] = <<>>
    /\ \A i \in DOMAIN connects : connects[i].account # a
    /\ by[a] = t /\ page[t].account = a /\ page[t].network = "home"
    /\ socket[t] # 0
    => /\ \E w \in Served(a) : wallets[w].clientId = socket[t]
       /\ course[a] = "apart" => \A w \in Served(a) : wallets[w].clientId = socket[t]

\* A page that started without an account, and whose first message nobody answered,
\* opens its socket all the same once an account is connected: the answer to any
\* connect ends the wait of the hydration (busPromise in main.ts).
SocketOpens ==
  \A t \in Pages :
    (\E i \in DOMAIN connects : connects[i].page = t /\ connects[i].at # "late")
      ~> page[t].at = "open"
=============================================================================
