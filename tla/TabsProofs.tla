------------------------------ MODULE TabsProofs ------------------------------
(***************************************************************************)
(* For any number of pages, accounts, connections, connects and changes: a *)
(* page is asked only about accounts it has connected, and an account is   *)
(* reached on the page that connected it last.                             *)
(*                                                                         *)
(* The first property speaks of what a page was asked; the invariant       *)
(* follows the client id through everything that carries it: the wallet    *)
(* object of the page, a connect in progress, the wallet at the backend    *)
(* and the greeting on its way.  Wherever it is, it was given to the page  *)
(* it came from, and an account it stands for was connected by that page.  *)
(*                                                                         *)
(* The second property compares what the wallets say with what the page    *)
(* holds; the invariant says that the last connect still to be carried out *)
(* will say it (Told), that a socket is greeted first (Greeted), and that  *)
(* connects that do not overlap leave an account one wallet (Alone).       *)
(***************************************************************************)
EXTENDS Tabs, SequenceTheorems, TLAPS

\* A client id that is empty or was given to t.
Own(t, id) == id = 0 \/ (id \in 1..Len(owner) /\ owner[id] = t)

\* The wallet a connect has found is the account's.
Meant(c) == c.found # 0 => /\ c.found \in DOMAIN wallets
                           /\ wallets[c.found].account = c.account

\* A connect of an account that its page has connected, with an id of that page.
Honest == {c \in Connect : c.account \in had[c.page] /\ Own(c.page, c.clientId) /\ Meant(c)}

\* What may be on its way to t.
Fit(t) == {m \in Hello : Own(t, m.id)} \cup {m \in NeedEth : m.account \in had[t]}

\* A wallet leads nowhere, or to a page that has connected its account.
Leading ==
  {w \in Wallet : \/ w.clientId = 0
                  \/ w.clientId \in 1..Len(owner) /\ w.account \in had[owner[w.clientId]]}

IInv ==
  /\ owner \in Seq(Pages) /\ needs \in Nat
  /\ had \in [Pages -> SUBSET Accounts]
  /\ wallets \in Seq(Leading)
  /\ course \in [Accounts -> Courses]
  /\ page \in [Pages -> Page] /\ \A t \in Pages : Own(t, page[t].clientId)
  /\ socket \in [Pages -> Nat] /\ \A t \in Pages : Own(t, socket[t])
  /\ connects \in Seq(Honest)
  /\ DOMAIN inbox = Pages /\ \A t \in Pages : inbox[t] \in Seq(Fit(t))
  /\ prompts \in [Pages -> SUBSET (Nat \X Accounts)]
  /\ RightPage

-----------------------------------------------------------------------------
(* Sequences.                                                              *)

LEMMA SeqOfMore ==
  ASSUME NEW S, NEW T, S \subseteq T
  PROVE  Seq(S) \subseteq Seq(T)
OBVIOUS

LEMMA RemoveAtSeq ==
  ASSUME NEW S, NEW s \in Seq(S), NEW i \in DOMAIN s
  PROVE  RemoveAt(s, i) \in Seq(S)
<1>1. SubSeq(s, 1, i - 1) \in Seq(S) /\ SubSeq(s, i + 1, Len(s)) \in Seq(S)
  OBVIOUS
<1>2. QED
  BY <1>1 DEF RemoveAt

-----------------------------------------------------------------------------
(* What a client id and an account stand for is never taken back.          *)

Grows ==
  /\ owner' \in Seq(Pages) /\ Len(owner) <= Len(owner')
  /\ \A k \in 1..Len(owner) : owner'[k] = owner[k]
  /\ had' \in [Pages -> SUBSET Accounts]
  /\ \A t \in Pages : had[t] \subseteq had'[t]
  /\ \A w \in DOMAIN wallets : w \in DOMAIN wallets' /\ wallets'[w].account = wallets[w].account

LEMMA OwnKept ==
  ASSUME IInv, Grows, NEW t, NEW id, Own(t, id)
  PROVE  Own(t, id)'
<1>1. Len(owner) \in Nat /\ Len(owner') \in Nat /\ Len(owner) <= Len(owner')
  BY DEF IInv, Grows
<1>2. \A k \in 1..Len(owner) : k \in 1..Len(owner') /\ owner'[k] = owner[k]
  BY <1>1 DEF Grows
<1>3. QED
  BY <1>2 DEF Own

LEMMA HonestKept ==
  ASSUME IInv, Grows
  PROVE  Honest \subseteq Honest'
<1> SUFFICES ASSUME NEW c \in Honest PROVE c \in Honest'
  OBVIOUS
<1>1. c \in Connect /\ c.page \in Pages /\ c.account \in had[c.page] /\ Own(c.page, c.clientId)
      /\ Meant(c)
  BY DEF Honest, Connect
<1>2. Own(c.page, c.clientId)'
  BY <1>1, OwnKept
<1>3. Meant(c)'
  BY <1>1 DEF Meant, Grows
<1>4. QED
  BY <1>1, <1>2, <1>3 DEF Honest, Grows

LEMMA FitKept ==
  ASSUME IInv, Grows, NEW t \in Pages
  PROVE  Fit(t) \subseteq Fit(t)'
<1>1. ASSUME NEW m \in Hello, Own(t, m.id) PROVE Own(t, m.id)'
  BY <1>1, OwnKept
<1>2. QED
  BY <1>1 DEF Fit, Grows

LEMMA LeadingKept == ASSUME IInv, Grows PROVE Leading \subseteq Leading'
<1> SUFFICES ASSUME NEW w \in Leading PROVE w \in Leading'
  OBVIOUS
<1>1. w \in Wallet
  BY DEF Leading
<1>2. CASE w.clientId = 0
  BY <1>1, <1>2 DEF Leading
<1>3. CASE w.clientId \in 1..Len(owner) /\ w.account \in had[owner[w.clientId]]
  <2>1. owner[w.clientId] \in Pages /\ w.clientId \in 1..Len(owner')
        /\ owner'[w.clientId] = owner[w.clientId]
    <3>1. Len(owner) \in Nat /\ Len(owner') \in Nat /\ Len(owner) <= Len(owner')
      BY DEF IInv, Grows
    <3>2. owner[w.clientId] \in Pages /\ w.clientId \in 1..Len(owner')
      BY <1>3, <3>1 DEF IInv
    <3>3. QED
      BY <1>3, <3>2 DEF Grows
  <2>2. w.account \in had'[owner'[w.clientId]]
    BY <1>3, <2>1 DEF Grows
  <2>3. QED
    BY <1>1, <2>1, <2>2 DEF Leading
<1>4. QED
  BY <1>2, <1>3 DEF Leading

\* What has not changed is as good as it was.
LEMMA Kept ==
  ASSUME IInv, Grows
  PROVE  /\ connects' = connects => connects' \in Seq(Honest')
         /\ inbox' = inbox => DOMAIN inbox' = Pages /\ \A t \in Pages : inbox'[t] \in Seq(Fit(t)')
         /\ wallets' = wallets => wallets' \in Seq(Leading')
         /\ socket' = socket => \A t \in Pages : Own(t, socket[t])'
         /\ page' = page => \A t \in Pages : Own(t, page[t].clientId)'
         /\ prompts' = prompts => RightPage'
<1>1. connects' = connects => connects' \in Seq(Honest')
  BY HonestKept, SeqOfMore DEF IInv
<1>2. ASSUME NEW t \in Pages PROVE inbox[t] \in Seq(Fit(t)')
  BY FitKept, SeqOfMore DEF IInv
<1>3. wallets' = wallets => wallets' \in Seq(Leading')
  BY LeadingKept, SeqOfMore DEF IInv
<1>4. ASSUME NEW t \in Pages, socket' = socket PROVE Own(t, socket[t])'
  BY <1>4, OwnKept DEF IInv, Own
<1>5. ASSUME NEW t \in Pages, page' = page PROVE Own(t, page[t].clientId)'
  BY <1>5, OwnKept DEF IInv, Own
<1>6. prompts' = prompts => RightPage'
  BY DEF IInv, RightPage, Grows
<1>7. QED
  BY <1>1, <1>2, <1>3, <1>4, <1>5, <1>6 DEF IInv

-----------------------------------------------------------------------------
(* The page.                                                               *)

\* The wallet object of t is sent on: it has kept an id of t.
LEMMA Connected ==
  ASSUME IInv, NEW t \in Pages, NEW wallet \in Page, Own(t, wallet.clientId),
         ConnectWallet(t, wallet), UNCHANGED <<owner, wallets>>
  PROVE  /\ Grows
         /\ page' \in [Pages -> Page] /\ \A u \in Pages : Own(u, page[u].clientId)'
         /\ connects' \in Seq(Honest')
<1>1. Grows
  <2>1. CASE wallet.account = None
    BY <2>1 DEF ConnectWallet, IInv, Grows
  <2>2. CASE wallet.account # None
    <3>1. wallet.account \in Accounts
      BY <2>2 DEF Page
    <3>2. had' = [had EXCEPT ![t] = @ \cup {wallet.account}]
      BY <2>2 DEF ConnectWallet
    <3>3. had' \in [Pages -> SUBSET Accounts] /\ \A u \in Pages : had[u] \subseteq had'[u]
      BY <3>1, <3>2 DEF IInv
    <3>4. QED
      BY <3>3 DEF IInv, Grows
  <2>3. QED
    BY <2>1, <2>2
<1>2. page' \in [Pages -> Page] /\ \A u \in Pages : Own(u, page'[u].clientId)
  BY DEF ConnectWallet, IInv
<1>3. \A u \in Pages : Own(u, page[u].clientId)'
  BY <1>2 DEF Own
<1>4. connects' \in Seq(Honest')
  <2>1. CASE wallet.account = None
    BY <2>1, <1>1, Kept DEF ConnectWallet
  <2>2. CASE wallet.account # None
    <3> DEFINE c == [page |-> t, account |-> wallet.account, network |-> wallet.network,
                     clientId |-> wallet.clientId, at |-> "sent", found |-> 0]
    <3>1. c \in Connect
      <4>1. /\ wallet.account \in Accounts /\ wallet.network \in Networks
            /\ wallet.clientId \in Nat
        BY <2>2 DEF Page
      <4>2. c \in [page : {t}, account : {wallet.account}, network : {wallet.network},
                    clientId : {wallet.clientId}, at : {"sent"}, found : {0}]
        OBVIOUS
      <4>3. QED
        BY <4>1, <4>2 DEF Connect
    <3>2. wallet.account \in had'[t]
      BY <2>2 DEF ConnectWallet, IInv
    <3>3. Own(t, wallet.clientId)'
      BY <1>1, OwnKept
    <3>4. c \in Honest'
      BY <3>1, <3>2, <3>3 DEF Honest, Meant
    <3>5. connects' = Append(connects, c)
      BY <2>2 DEF ConnectWallet
    <3>6. connects \in Seq(Honest')
      BY <1>1, HonestKept, SeqOfMore DEF IInv
    <3>7. QED
      BY <3>4, <3>5, <3>6
  <2>3. QED
    BY <2>1, <2>2
<1>5. QED
  BY <1>1, <1>2, <1>3, <1>4

LEMMA Hydrates == ASSUME IInv, NEW t \in Pages, Hydrate(t) PROVE IInv'
<1>1. [page[t] EXCEPT !.at = "hydrating"] \in Page
      /\ Own(t, [page[t] EXCEPT !.at = "hydrating"].clientId)
  BY DEF IInv, Page
<1>2. UNCHANGED <<owner, wallets>> /\ ConnectWallet(t, [page[t] EXCEPT !.at = "hydrating"])
  BY DEF Hydrate, gatewayVars, backgroundVars
<1>3. QED
  BY <1>1, <1>2, Connected, Kept DEF IInv, Grows, Hydrate, gatewayVars, backgroundVars

LEMMA AccountChanges ==
  ASSUME IInv, NEW t \in Pages, NEW a \in Accounts \cup {None}, accountsChanged(t, a)
  PROVE  IInv'
<1>1. [page[t] EXCEPT !.account = a] \in Page
      /\ Own(t, [page[t] EXCEPT !.account = a].clientId)
  BY DEF IInv, Page
<1>2. UNCHANGED <<owner, wallets>> /\ ConnectWallet(t, [page[t] EXCEPT !.account = a])
  BY DEF accountsChanged, gatewayVars, backgroundVars
<1>3. QED
  BY <1>1, <1>2, Connected, Kept DEF IInv, Grows, accountsChanged, gatewayVars, backgroundVars

LEMMA ChainChanges ==
  ASSUME IInv, NEW t \in Pages, NEW n \in Networks, chainChanged(t, n)
  PROVE  IInv'
<1>1. [page[t] EXCEPT !.network = n] \in Page
      /\ Own(t, [page[t] EXCEPT !.network = n].clientId)
  BY DEF IInv, Page, Networks
<1>2. UNCHANGED <<owner, wallets>> /\ ConnectWallet(t, [page[t] EXCEPT !.network = n])
  BY DEF chainChanged, gatewayVars, backgroundVars
<1>3. QED
  BY <1>1, <1>2, Connected, Kept DEF IInv, Grows, chainChanged, gatewayVars, backgroundVars

LEMMA SocketOpened == ASSUME IInv, NEW t \in Pages, handleConnection(t) PROVE IInv'
<1>1. /\ owner \in Seq(Pages) /\ owner' = Append(owner, t) /\ Len(owner') = Len(owner) + 1 /\ Len(owner) \in Nat
      /\ owner' \in Seq(Pages) /\ \A k \in 1..Len(owner) : owner'[k] = owner[k]
      /\ owner'[Len(owner')] = t
  BY DEF IInv, handleConnection
<1>2. Grows
  BY <1>1 DEF IInv, handleConnection, Grows, backgroundVars
<1>3. Own(t, Len(owner))'
  BY <1>1 DEF Own
<1>4. socket' \in [Pages -> Nat] /\ \A u \in Pages : Own(u, socket[u])'
  <2>1. socket' = [socket EXCEPT ![t] = Len(owner')] /\ Len(owner') \in Nat
    BY <1>1 DEF handleConnection
  <2>2. ASSUME NEW u \in Pages, u # t PROVE Own(u, socket[u])'
    <3>1. Own(u, socket[u]) /\ socket'[u] = socket[u]
      BY <2>1, <2>2 DEF IInv
    <3>2. QED
      BY <3>1, <1>2, OwnKept DEF Own
  <2>3. Own(t, socket[t])'
    <3>1. socket'[t] = Len(owner')
      BY <2>1 DEF IInv
    <3>2. QED
      BY <1>3, <3>1 DEF Own
  <2>4. QED
    BY <2>1, <2>2, <2>3 DEF IInv
<1>5. DOMAIN inbox' = Pages /\ \A u \in Pages : inbox'[u] \in Seq(Fit(u)')
  <2>1. inbox' = [inbox EXCEPT ![t] = <<[kind |-> "hello", id |-> Len(owner')]>>]
    BY DEF handleConnection
  <2>2. [kind |-> "hello", id |-> Len(owner')] \in Fit(t)'
    BY <1>1, <1>3 DEF Fit, Hello
  <2>3. ASSUME NEW u \in Pages PROVE inbox[u] \in Seq(Fit(u)')
    BY <1>2, FitKept, SeqOfMore DEF IInv
  <2>4. QED
    BY <2>1, <2>2, <2>3 DEF IInv
<1>6. QED
  BY <1>1, <1>2, <1>4, <1>5, Kept DEF IInv, handleConnection, Grows, backgroundVars

LEMMA SocketClosed == ASSUME IInv, NEW t \in Pages, handleDisconnect(t) PROVE IInv'
<1>1. Grows
  BY DEF IInv, handleDisconnect, Grows, backgroundVars
<1>2. socket' \in [Pages -> Nat] /\ \A u \in Pages : Own(u, socket[u])'
  BY DEF IInv, handleDisconnect, Own
<1>3. DOMAIN inbox' = Pages /\ \A u \in Pages : inbox'[u] \in Seq(Fit(u)')
  <2>1. ASSUME NEW u \in Pages PROVE inbox[u] \in Seq(Fit(u)')
    BY <1>1, FitKept, SeqOfMore DEF IInv
  <2>2. QED
    BY <2>1 DEF IInv, handleDisconnect
<1>4. QED
  BY <1>1, <1>2, <1>3, Kept DEF IInv, handleDisconnect, Grows, backgroundVars

\* The message that arrives was fit, and what is left is.
LEMMA Arrived ==
  ASSUME IInv, NEW t \in Pages, NEW kind, Arrives(t, kind)
  PROVE  /\ Head(inbox[t]) \in Fit(t) /\ Head(inbox[t]).kind = kind
         /\ DOMAIN inbox' = Pages
         /\ \A u \in Pages : inbox'[u] \in Seq(Fit(u))
<1>1. inbox[t] \in Seq(Fit(t)) /\ inbox[t] # <<>>
  BY DEF IInv, Arrives
<1>2. Head(inbox[t]) \in Fit(t) /\ Tail(inbox[t]) \in Seq(Fit(t))
  BY <1>1
<1>3. QED
  BY <1>2 DEF IInv, Arrives

LEMMA HelloArrives == ASSUME IInv, NEW t \in Pages, onMessage(t) PROVE IInv'
<1>1. /\ Arrives(t, "hello") /\ UNCHANGED <<owner, wallets>>
      /\ ConnectWallet(t, [page[t] EXCEPT !.clientId = Head(inbox[t]).id])
  BY DEF onMessage, gatewayVars, backgroundVars
<1>2. Head(inbox[t]) \in Hello /\ Own(t, Head(inbox[t]).id)
  BY <1>1, Arrived DEF Fit, NeedEth
<1>3. [page[t] EXCEPT !.clientId = Head(inbox[t]).id] \in Page
      /\ Own(t, [page[t] EXCEPT !.clientId = Head(inbox[t]).id].clientId)
  BY <1>2 DEF IInv, Page, Hello
<1>4. Grows /\ connects' \in Seq(Honest')
      /\ page' \in [Pages -> Page] /\ \A u \in Pages : Own(u, page[u].clientId)'
  BY <1>1, <1>3, Connected
<1>5. DOMAIN inbox' = Pages /\ \A u \in Pages : inbox'[u] \in Seq(Fit(u)')
  BY <1>1, <1>4, Arrived, FitKept, SeqOfMore
<1>6. QED
  BY <1>4, <1>5, Kept DEF IInv, Grows, onMessage, gatewayVars, backgroundVars

LEMMA NeedArrives == ASSUME IInv, NEW t \in Pages, onMetamask(t) PROVE IInv'
<1>1. Grows
  BY DEF IInv, onMetamask, Grows, gatewayVars, backgroundVars
<1>2. Arrives(t, "need_eth")
  BY DEF onMetamask
<1>3. Head(inbox[t]) \in NeedEth /\ Head(inbox[t]).account \in had[t]
  BY <1>2, Arrived DEF Fit, Hello
<1>4. DOMAIN inbox' = Pages /\ \A u \in Pages : inbox'[u] \in Seq(Fit(u)')
  BY <1>1, <1>2, Arrived, FitKept, SeqOfMore
<1>5. prompts' \in [Pages -> SUBSET (Nat \X Accounts)] /\ RightPage'
  BY <1>3 DEF IInv, onMetamask, RightPage, NeedEth
<1>6. QED
  BY <1>1, <1>4, <1>5, Kept DEF IInv, Grows, onMetamask, gatewayVars, backgroundVars

-----------------------------------------------------------------------------
(* The background, the backend and the snap.                               *)

\* A connect goes on or ends; the others are as they were.
LEMMA ConnectEnds ==
  ASSUME IInv, NEW i \in DOMAIN connects, connects' = RemoveAt(connects, i)
  PROVE  connects' \in Seq(Honest)
BY RemoveAtSeq DEF IInv

LEMMA Found == ASSUME IInv, NEW i \in DOMAIN connects, Find(i) PROVE IInv'
<1>1. Grows
  BY DEF IInv, Find, Grows, gatewayVars, messageVars
<1>2. PICK w \in findOne(connects[i].account) :
        connects' = [connects EXCEPT ![i].at = "found", ![i].found = w]
  BY DEF Find
<1> DEFINE c == [connects[i] EXCEPT !.at = "found", !.found = w]
<1>3. connects[i] \in Honest /\ connects[i] \in Connect
  BY DEF IInv, Honest
<1>4. w # 0 => w \in DOMAIN wallets /\ wallets[w].account = connects[i].account
  BY DEF findOne, Served
<1>5. w \in Nat
  BY <1>4 DEF IInv
<1>6. /\ c \in Connect /\ c.page = connects[i].page /\ c.account = connects[i].account
      /\ c.clientId = connects[i].clientId /\ c.found = w
  BY <1>3, <1>5 DEF Connect
<1>7. connects' = [connects EXCEPT ![i] = c]
  BY <1>2
<1> HIDE DEF c
<1>8. c \in Honest
  BY <1>3, <1>4, <1>6 DEF Honest, Meant
<1>9. connects' \in Seq(Honest')
  BY <1>1, <1>7, <1>8, HonestKept, SeqOfMore DEF IInv
<1>10. course' \in [Accounts -> Courses]
  <2>1. connects[i].account \in Accounts
    BY <1>3 DEF Connect
  <2>2. QED
    BY <2>1 DEF IInv, Find, Courses
<1>11. QED
  BY <1>1, <1>9, <1>10, Kept DEF IInv, Grows, Find, gatewayVars, messageVars

LEMMA GivenUp == ASSUME IInv, NEW i \in DOMAIN connects, GiveUp(i) PROVE IInv'
<1>1. Grows
  BY DEF IInv, GiveUp, Grows, gatewayVars, messageVars
<1> DEFINE c == [connects[i] EXCEPT !.at = "late"]
<1>2. connects[i] \in Honest /\ connects[i] \in Connect
  BY DEF IInv, Honest
<1>3. /\ c \in Connect /\ c.page = connects[i].page /\ c.account = connects[i].account
      /\ c.clientId = connects[i].clientId /\ c.found = connects[i].found
  BY <1>2 DEF Connect
<1>4. connects' = [connects EXCEPT ![i] = c]
  BY DEF GiveUp
<1> HIDE DEF c
<1>5. c \in Honest
  BY <1>2, <1>3 DEF Honest, Meant
<1>6. connects' \in Seq(Honest')
  BY <1>1, <1>4, <1>5, HonestKept, SeqOfMore DEF IInv
<1>7. QED
  BY <1>1, <1>6, Kept DEF IInv, Grows, GiveUp, gatewayVars, messageVars

\* The wallet a connect writes, and the place it is written at.
Kind(c) == IF c.at = "late" THEN {} ELSE {c.network}
LEMMA WalletWritten ==
  ASSUME IInv, NEW i \in DOMAIN connects, Write(i)
  PROVE  \E w \in DOMAIN wallets', x \in Leading :
           /\ x.account = connects[i].account /\ x.network = connects[i].network
           /\ x.clientId = connects[i].clientId
           /\ wallets' = IF connects[i].found = 0 THEN Append(wallets, x)
                                                  ELSE [wallets EXCEPT ![w] = x]
           /\ w = IF connects[i].found = 0 THEN Len(wallets) + 1 ELSE connects[i].found
           /\ connects[i].found = 0 => w \notin DOMAIN wallets
           /\ connects[i].found # 0 => w \in DOMAIN wallets /\ wallets[w].account = x.account
<1> DEFINE c == connects[i]
<1>1. /\ c \in Connect /\ c.account \in had[c.page] /\ Own(c.page, c.clientId) /\ Meant(c)
      /\ wallets \in Seq(Wallet) /\ owner \in Seq(Pages)
  <2>1. c \in Honest /\ Leading \subseteq Wallet
    BY DEF IInv, Honest, Leading
  <2>2. QED
    BY <2>1, SeqOfMore DEF Honest, IInv
<1>2. /\ c.account \in Accounts /\ c.network \in Networks /\ c.clientId \in Nat
      /\ Kind(c) \in SUBSET Networks
  BY <1>1 DEF Connect, Kind
<1>3. ASSUME NEW x \in Wallet, x.account = c.account, x.clientId = c.clientId
      PROVE  x \in Leading
  BY <1>1, <1>3 DEF Own, Leading
<1>4. CASE c.found = 0
  <2>1. PICK x : x = [account |-> c.account, network |-> c.network,
                      clientId |-> c.clientId, kept |-> Kind(c)]
    OBVIOUS
  <2>2. x \in Wallet /\ x.account = c.account /\ x.network = c.network /\ x.clientId = c.clientId
    BY <1>2, <2>1 DEF Wallet
  <2>3. wallets' = Append(wallets, x)
    BY <1>4, <2>1 DEF Write, Kind
  <2>4. Len(wallets) + 1 \in DOMAIN wallets' /\ Len(wallets) + 1 \notin DOMAIN wallets
    BY <1>1, <2>2, <2>3
  <2>5. QED
    BY <1>3, <1>4, <2>2, <2>3, <2>4
<1>5. CASE c.found # 0
  <2>1. c.found \in DOMAIN wallets /\ wallets[c.found].account = c.account
        /\ wallets[c.found] \in Wallet
    BY <1>1, <1>5 DEF Meant
  <2>2. PICK x : x = [wallets[c.found] EXCEPT !.network = c.network, !.clientId = c.clientId,
                                              !.kept = @ \cup Kind(c)]
    OBVIOUS
  <2>3. x \in Wallet /\ x.account = c.account /\ x.network = c.network /\ x.clientId = c.clientId
    BY <1>2, <2>1, <2>2 DEF Wallet
  <2>4. wallets' = [wallets EXCEPT ![c.found] = x]
    BY <1>5, <2>1, <2>2 DEF Write, Kind
  <2>5. c.found \in DOMAIN wallets'
    BY <2>1, <2>4
  <2>6. QED
    BY <1>3, <1>5, <2>1, <2>3, <2>4, <2>5
<1>6. QED
  BY <1>4, <1>5

LEMMA Written == ASSUME IInv, NEW i \in DOMAIN connects, Write(i) PROVE IInv'
<1>1. PICK w \in DOMAIN wallets', x \in Leading :
        /\ wallets' = IF connects[i].found = 0 THEN Append(wallets, x)
                                               ELSE [wallets EXCEPT ![w] = x]
        /\ connects[i].found # 0 => w \in DOMAIN wallets /\ wallets[w].account = x.account
  BY WalletWritten
<1>2. wallets' \in Seq(Leading)
  BY <1>1 DEF IInv
<1>3. \A v \in DOMAIN wallets : v \in DOMAIN wallets' /\ wallets'[v].account = wallets[v].account
  <2>1. CASE connects[i].found = 0
    BY <1>1, <2>1 DEF IInv
  <2>2. CASE connects[i].found # 0
    BY <1>1, <2>2 DEF IInv
  <2>3. QED
    BY <2>1, <2>2
<1>4. Grows
  BY <1>3 DEF IInv, Write, Grows, gatewayVars, messageVars
<1>5. wallets' \in Seq(Leading')
  BY <1>2, <1>4, LeadingKept, SeqOfMore
<1>6. connects' \in Seq(Honest')
  BY <1>4, ConnectEnds, HonestKept, SeqOfMore DEF Write, Ends
<1>7. course' \in [Accounts -> Courses]
  <2>1. connects[i].account \in Accounts
    BY DEF IInv, Honest, Connect
  <2>2. QED
    BY <2>1 DEF IInv, Write, Courses
<1>8. QED
  BY <1>4, <1>5, <1>6, <1>7, Kept DEF IInv, Grows, Write, gatewayVars, messageVars

LEMMA Failed == ASSUME IInv, NEW i \in DOMAIN connects, ConnectFails(i) PROVE IInv'
<1>1. Grows
  BY DEF IInv, ConnectFails, Grows, gatewayVars, messageVars
<1>2. connects' \in Seq(Honest')
  BY <1>1, ConnectEnds, HonestKept, SeqOfMore DEF ConnectFails, Ends
<1>3. course' \in [Accounts -> Courses]
  BY DEF IInv, ConnectFails, Courses
<1>4. QED
  BY <1>1, <1>2, <1>3, Kept DEF IInv, Grows, ConnectFails, gatewayVars, messageVars

LEMMA Answers == ASSUME IInv, NEW t \in Pages, Answer(t) PROVE IInv'
<1>1. Grows
  BY DEF IInv, Answer, Grows, gatewayVars, messageVars
<1>2. page' \in [Pages -> Page] /\ \A u \in Pages : page'[u].clientId = page[u].clientId
  <2>1. page[t] \in Page
    BY DEF IInv
  <2>2. page' = [page EXCEPT ![t] = [page[t] EXCEPT !.at = "open"]]
    BY <2>1 DEF Answer, IInv
  <2>3. [page[t] EXCEPT !.at = "open"] \in Page
        /\ [page[t] EXCEPT !.at = "open"].clientId = page[t].clientId
    BY <2>1 DEF Page
  <2>4. QED
    BY <2>1, <2>2, <2>3 DEF IInv
<1>3. \A u \in Pages : Own(u, page[u].clientId)'
  BY <1>2 DEF IInv, Own, Answer, gatewayVars
<1>4. QED
  BY <1>1, <1>2, <1>3, Kept DEF IInv, Grows, Answer, gatewayVars, messageVars

LEMMA Simulated == ASSUME IInv, NEW w \in DOMAIN wallets, SimulateUpdate(w) PROVE IInv'
<1>1. PICK n \in wallets[w].kept : wallets' = [wallets EXCEPT ![w].network = n]
  BY DEF SimulateUpdate
<1> DEFINE x == [wallets[w] EXCEPT !.network = n]
<1>2. wallets[w] \in Leading /\ wallets[w] \in Wallet
  BY DEF IInv, Leading
<1>3. x \in Wallet /\ x.account = wallets[w].account /\ x.clientId = wallets[w].clientId
  BY <1>1, <1>2 DEF Wallet
<1>4. wallets' = [wallets EXCEPT ![w] = x]
  BY <1>1
<1> HIDE DEF x
<1>5. x \in Leading
  BY <1>2, <1>3 DEF Leading
<1>6. Grows
  BY <1>3, <1>4 DEF IInv, SimulateUpdate, Grows, gatewayVars, messageVars
<1>7. wallets' \in Seq(Leading')
  BY <1>4, <1>5, <1>6, LeadingKept, SeqOfMore DEF IInv
<1>8. course' \in [Accounts -> Courses]
  BY DEF IInv, SimulateUpdate, Courses
<1>9. QED
  BY <1>6, <1>7, <1>8, Kept DEF IInv, Grows, SimulateUpdate, gatewayVars, messageVars

\* A message reaches a page by the client id in a wallet of the account.
LEMMA Needed == ASSUME IInv, NEW a \in Accounts, metamask(a) PROVE IInv'
<1>1. Grows
  BY DEF IInv, metamask, Grows, backgroundVars
<1>2. PICK w \in Served(a), t \in Pages :
        /\ socket[t] # 0 /\ socket[t] = wallets[w].clientId
        /\ inbox' = [inbox EXCEPT ![t] = Append(@, Message(a))]
  BY DEF metamask
<1>3. a \in had[t]
  <2>1. wallets[w] \in Leading /\ wallets[w].account = a
    BY DEF Served, IInv
  <2>2. Own(t, socket[t])
    BY DEF IInv
  <2>3. QED
    BY <1>2, <2>1, <2>2 DEF Own, Leading
<1>4. Message(a) \in Fit(t)
  BY <1>3 DEF IInv, metamask, Message, Fit, NeedEth
<1>5. DOMAIN inbox' = Pages /\ \A u \in Pages : inbox'[u] \in Seq(Fit(u))
  BY <1>2, <1>4 DEF IInv
<1>6. \A u \in Pages : inbox'[u] \in Seq(Fit(u)')
  BY <1>1, <1>5, FitKept, SeqOfMore
<1>7. QED
  BY <1>1, <1>5, <1>6, Kept DEF IInv, Grows, metamask, backgroundVars

-----------------------------------------------------------------------------
(* The theorem.                                                            *)

LEMMA Initially == Init => IInv
<1> SUFFICES ASSUME Init PROVE IInv
  OBVIOUS
<1>1. page \in [Pages -> Page] /\ \A t \in Pages : page[t].clientId = 0
  <2>1. PICK start \in [Pages -> Accounts \cup {None}] :
          page = [t \in Pages |-> [at |-> "new", account |-> start[t], network |-> "home",
                                   clientId |-> 0]]
    BY TabsAssumption DEF Init
  <2>2. QED
    BY <2>1 DEF Page, Networks
<1>2. course \in [Accounts -> Courses]
  BY DEF Init, Courses
<1>3. QED
  BY <1>1, <1>2 DEF Init, IInv, Own, RightPage

LEMMA Step == IInv /\ [Next]_vars => IInv'
<1> SUFFICES ASSUME IInv, [Next]_vars PROVE IInv'
  OBVIOUS
<1>1. ASSUME NEW t \in Pages, PageStep(t) PROVE IInv'
  BY <1>1, Hydrates, AccountChanges, ChainChanges, SocketOpened, SocketClosed,
     HelloArrives, NeedArrives, Answers DEF PageStep
<1>2. ASSUME NEW i \in DOMAIN connects, ConnectStep(i) PROVE IInv'
  BY <1>2, Found, Written, Failed, GivenUp DEF ConnectStep
<1>3. ASSUME NEW a \in Accounts, metamask(a) PROVE IInv'
  BY <1>3, Needed
<1>0. ASSUME NEW w \in DOMAIN wallets, SimulateUpdate(w) PROVE IInv'
  BY <1>0, Simulated
<1>4. CASE UNCHANGED vars
  <2>1. Grows
    BY <1>4 DEF vars, Grows, IInv
  <2>2. QED
    BY <1>4, <2>1, Kept DEF vars, IInv, Grows
<1>5. QED
  BY <1>0, <1>1, <1>2, <1>3, <1>4 DEF Next

\* A page is asked about the transactions of an account only if it has connected that
\* account itself (wallet.clientId in main.ts, and the emit of POST /metamask).
THEOREM AskedRightPage == Spec => []RightPage
<1>1. Init => IInv
  BY Initially
<1>2. IInv /\ [Next]_vars => IInv'
  BY Step
<1>3. IInv => RightPage
  BY DEF IInv
<1>4. QED
  BY <1>1, <1>2, <1>3, PTL DEF Spec

-----------------------------------------------------------------------------
(* The page that connected an account last.                                *)

\* The connects of an account, and its wallets on the backend's network.
Due(c, a) == {i \in DOMAIN c : c[i].account = a}
Serves(ws, a) == {w \in DOMAIN ws : ws[w].account = a /\ ws[w].network = "home"}

\* Once the connects c are written in their order, a wallet of a says network and id.
Settles(c, ws, a, network, id) ==
  /\ \A i \in Due(c, a) :
       (\A j \in Due(c, a) : j <= i) => c[i].network = network /\ c[i].clientId = id
  /\ Due(c, a) = {} /\ network = "home" => \E w \in Serves(ws, a) : ws[w].clientId = id

\* The backend is or will be told what the page's wallet object holds.
Told ==
  \A a \in Accounts, t \in Pages :
    course[a] # "neither" /\ by[a] = t /\ page[t].account = a
      => Settles(connects, wallets, a, page[t].network, page[t].clientId)

\* There is one wallet at most, and only the first connect has looked for it.
Alone(c, ws, a) ==
  /\ \A w, x \in Serves(ws, a) : w = x
  /\ \A i \in Due(c, a) :
       c[i].at # "sent" => /\ \A j \in Due(c, a) : i <= j
                           /\ \/ Serves(ws, a) = {} /\ c[i].found = 0
                              \/ c[i].found \in Serves(ws, a)

Apart == \A a \in Accounts : course[a] = "apart" => Alone(connects, wallets, a)

\* A page knows the id of its connection, or is just being greeted with it.
Knows(wallet, id, messages) ==
  /\ id # 0 => \/ wallet.clientId = id
               \/ messages # <<>> /\ Head(messages).kind = "hello"
  /\ \A k \in DOMAIN messages : messages[k].kind = "hello" => messages[k].id = id

Greeted == \A t \in Pages : Knows(page[t], socket[t], inbox[t])

LInv == Told /\ Apart /\ Greeted /\ DOMAIN by = Accounts

LEMMA ConnectsTyped ==
  ASSUME IInv
  PROVE  connects \in Seq(Connect) /\ wallets \in Seq(Wallet)
<1>1. Honest \subseteq Connect /\ Leading \subseteq Wallet
  BY DEF Honest, Leading
<1>2. QED
  BY <1>1, SeqOfMore DEF IInv

\* A message sent is behind all others.
LEMMA Appended ==
  ASSUME NEW S, NEW c \in Seq(S), NEW x, NEW ws, NEW a
  PROVE  /\ x.account # a => \A n, id : Settles(c, ws, a, n, id) => Settles(Append(c, x), ws, a, n, id)
         /\ x.account = a => Settles(Append(c, x), ws, a, x.network, x.clientId)
         /\ x.at = "sent" /\ Alone(c, ws, a) => Alone(Append(c, x), ws, a)
<1>1. PICK e : e = Append(c, x)
  OBVIOUS
<1>2. /\ Len(c) \in Nat /\ DOMAIN c = 1..Len(c) /\ DOMAIN e = 1..(Len(c) + 1)
      /\ e[Len(c) + 1] = x /\ \A k \in 1..Len(c) : e[k] = c[k]
  BY <1>1
<1>3. ASSUME x.account # a, NEW n, NEW id, Settles(c, ws, a, n, id)
      PROVE  Settles(e, ws, a, n, id)
  <2>1. Due(e, a) = Due(c, a)
    BY <1>2, <1>3 DEF Due
  <2>2. \A i \in Due(c, a) : e[i] = c[i]
    BY <1>2 DEF Due
  <2>3. QED
    BY <1>3, <2>1, <2>2 DEF Settles
<1>4. ASSUME x.account = a PROVE Settles(e, ws, a, x.network, x.clientId)
  <2>1. Len(c) + 1 \in Due(e, a)
    BY <1>2, <1>4 DEF Due
  <2>2. ASSUME NEW i \in Due(e, a), \A j \in Due(e, a) : j <= i PROVE e[i] = x
    <3>1. i \in 1..(Len(c) + 1) /\ Len(c) + 1 <= i
      BY <1>2, <2>1, <2>2 DEF Due
    <3>2. QED
      BY <1>2, <3>1
  <2>3. QED
    BY <2>1, <2>2 DEF Settles
<1>5. ASSUME x.at = "sent", Alone(c, ws, a) PROVE Alone(e, ws, a)
  <2>1. ASSUME NEW i \in Due(e, a), e[i].at # "sent"
        PROVE  i \in Due(c, a) /\ e[i] = c[i] /\ \A j \in Due(e, a) : i <= j
    <3>1. i # Len(c) + 1
      BY <1>2, <1>5, <2>1
    <3>2. i \in Due(c, a) /\ e[i] = c[i] /\ i \in 1..Len(c)
      BY <1>2, <3>1 DEF Due
    <3>3. \A j \in Due(c, a) : i <= j
      BY <1>5, <2>1, <3>2 DEF Alone
    <3>4. \A j \in Due(e, a) : j \in Due(c, a) \/ j = Len(c) + 1
      BY <1>2 DEF Due
    <3>5. QED
      BY <1>2, <3>2, <3>3, <3>4
  <2>2. QED
    BY <1>5, <2>1 DEF Alone
<1>6. QED
  BY <1>1, <1>3, <1>4, <1>5

LEMMA RemovedAt ==
  ASSUME NEW S, NEW c \in Seq(S), NEW i \in DOMAIN c
  PROVE  /\ DOMAIN RemoveAt(c, i) = 1..(Len(c) - 1)
         /\ \A k \in 1..(Len(c) - 1) :
              RemoveAt(c, i)[k] = IF k < i THEN c[k] ELSE c[k + 1]
<1>1. PICK p, q : p = SubSeq(c, 1, i - 1) /\ q = SubSeq(c, i + 1, Len(c))
  OBVIOUS
<1>2. i \in 1..Len(c) /\ Len(c) \in Nat /\ \A k \in 1..Len(c) : c[k] \in S
  OBVIOUS
<1>3. /\ p \in Seq(S) /\ Len(p) = i - 1
      /\ \A k \in 1..(i - 1) : p[k] = c[k]
  BY <1>1, <1>2
<1>4. /\ q \in Seq(S) /\ Len(q) = Len(c) - i
      /\ \A k \in 1..(Len(c) - i) : q[k] = c[i + k]
  BY <1>1, <1>2
<1>5. /\ DOMAIN (p \o q) = 1..(Len(c) - 1)
      /\ \A k \in 1..(i - 1) : (p \o q)[k] = p[k]
      /\ \A k \in 1..(Len(c) - i) : (p \o q)[i - 1 + k] = q[k]
  <2>1. /\ Len(p) + Len(q) = Len(c) - 1 /\ Len(p) \in Nat /\ Len(q) \in Nat
        /\ 1..(i - 1) = 1..Len(p) /\ 1..(Len(c) - i) = 1..Len(q)
    BY <1>2, <1>3, <1>4
  <2>2. /\ DOMAIN (p \o q) = 1..(Len(p) + Len(q))
        /\ \A k \in 1..Len(p) : (p \o q)[k] = p[k]
        /\ \A k \in 1..Len(q) : (p \o q)[Len(p) + k] = q[k]
    <3>1. /\ Len(p \o q) = Len(p) + Len(q) /\ p \o q \in Seq(S)
          /\ \A k \in 1..(Len(p) + Len(q)) :
               (p \o q)[k] = IF k <= Len(p) THEN p[k] ELSE q[k - Len(p)]
      BY <1>3, <1>4, ConcatProperties
    <3>2. DOMAIN (p \o q) = 1..(Len(p) + Len(q))
      BY <3>1
    <3>3. \A k \in 1..Len(p) : k \in 1..(Len(p) + Len(q)) /\ k <= Len(p)
      BY <2>1
    <3>4. \A k \in 1..Len(q) : /\ Len(p) + k \in 1..(Len(p) + Len(q))
                               /\ ~(Len(p) + k <= Len(p)) /\ (Len(p) + k) - Len(p) = k
      BY <2>1
    <3>5. QED
      BY <3>1, <3>2, <3>3, <3>4
  <2>3. QED
    BY <1>3, <2>1, <2>2
<1>6. ASSUME NEW k \in 1..(Len(c) - 1)
      PROVE  (p \o q)[k] = IF k < i THEN c[k] ELSE c[k + 1]
  <2>1. CASE k < i
    <3>1. k \in 1..(i - 1)
      BY <1>2, <2>1
    <3>2. QED
      BY <1>3, <1>5, <2>1, <3>1
  <2>2. CASE ~(k < i)
    <3>1. PICK l : l = k - i + 1
      OBVIOUS
    <3>2. l \in 1..(Len(c) - i) /\ i - 1 + l = k /\ i + l = k + 1
      BY <1>2, <2>2, <3>1
    <3>3. (p \o q)[i - 1 + l] = q[l] /\ q[l] = c[i + l]
      BY <1>4, <1>5, <3>2
    <3>4. QED
      BY <2>2, <3>2, <3>3
  <2>3. QED
    BY <2>1, <2>2
<1>7. RemoveAt(c, i) = p \o q
  BY <1>1 DEF RemoveAt
<1>8. QED
  BY <1>5, <1>6, <1>7

\* What is left of the connects is in the order it was.
LEMMA Removed ==
  ASSUME NEW c \in Seq(Connect), NEW i \in DOMAIN c, NEW e, e = RemoveAt(c, i)
  PROVE  \E from \in [DOMAIN e -> DOMAIN c \ {i}] :
           /\ \A k \in DOMAIN e : e[k] = c[from[k]]
           /\ \A k, l \in DOMAIN e : k <= l <=> from[k] <= from[l]
           /\ \A j \in DOMAIN c \ {i} : \E k \in DOMAIN e : from[k] = j
<1>0. Len(c) \in Nat /\ DOMAIN c = 1..Len(c) /\ i \in 1..Len(c)
  OBVIOUS
<1>1. DOMAIN e = 1..(Len(c) - 1)
      /\ \A k \in 1..(Len(c) - 1) : e[k] = IF k < i THEN c[k] ELSE c[k + 1]
  BY RemovedAt
<1> DEFINE from == [k \in DOMAIN e |-> IF k < i THEN k ELSE k + 1]
<1>2. from \in [DOMAIN e -> DOMAIN c \ {i}]
  BY <1>0, <1>1
<1>3. \A k \in DOMAIN e : e[k] = c[from[k]]
  BY <1>1
<1>4. \A k, l \in DOMAIN e : k <= l <=> from[k] <= from[l]
  BY <1>0, <1>1
<1>5. ASSUME NEW j \in DOMAIN c \ {i} PROVE \E k \in DOMAIN e : from[k] = j
  <2>1. PICK k : k = IF j < i THEN j ELSE j - 1
    OBVIOUS
  <2>2. k \in DOMAIN e /\ from[k] = j
    BY <1>0, <1>1, <2>1
  <2>3. QED
    BY <2>2
<1> HIDE DEF from
<1>6. QED
  BY <1>2, <1>3, <1>4, <1>5

\* The wallets of an account say what they said.
Same(ws, xs, a) ==
  /\ Serves(xs, a) = Serves(ws, a)
  /\ \A w \in Serves(ws, a) : xs[w].clientId = ws[w].clientId

\* The connect of another account ends.
LEMMA OtherEnds ==
  ASSUME NEW c \in Seq(Connect), NEW i \in DOMAIN c, NEW e, e = RemoveAt(c, i),
         NEW a, c[i].account # a, NEW ws, NEW xs, Same(ws, xs, a)
  PROVE  /\ \A n, id : Settles(c, ws, a, n, id) => Settles(e, xs, a, n, id)
         /\ Alone(c, ws, a) => Alone(e, xs, a)
<1>1. PICK from \in [DOMAIN e -> DOMAIN c \ {i}] :
        /\ \A k \in DOMAIN e : e[k] = c[from[k]]
        /\ \A k, l \in DOMAIN e : k <= l <=> from[k] <= from[l]
        /\ \A j \in DOMAIN c \ {i} : \E k \in DOMAIN e : from[k] = j
  BY Removed
<1>2. \A k \in Due(e, a) : k \in DOMAIN e /\ from[k] \in Due(c, a) /\ e[k] = c[from[k]]
  BY <1>1 DEF Due
<1>3. ASSUME NEW j \in Due(c, a) PROVE \E k \in Due(e, a) : from[k] = j
  <2>1. j \in DOMAIN c \ {i} /\ c[j].account = a
    BY DEF Due
  <2>2. PICK k \in DOMAIN e : from[k] = j
    BY <1>1, <2>1
  <2>3. QED
    BY <1>1, <2>1, <2>2 DEF Due
<1>4. ASSUME NEW n, NEW id, Settles(c, ws, a, n, id) PROVE Settles(e, xs, a, n, id)
  <2>1. ASSUME NEW k \in Due(e, a), \A l \in Due(e, a) : l <= k
        PROVE  e[k].network = n /\ e[k].clientId = id
    <3>1. \A j \in Due(c, a) : j <= from[k]
      BY <1>1, <1>2, <1>3, <2>1
    <3>2. QED
      BY <1>2, <1>4, <3>1 DEF Settles
  <2>2. Due(e, a) = {} => Due(c, a) = {}
    BY <1>3
  <2>3. QED
    BY <1>4, <2>1, <2>2 DEF Settles, Same
<1>5. ASSUME Alone(c, ws, a) PROVE Alone(e, xs, a)
  <2>1. ASSUME NEW k \in Due(e, a), e[k].at # "sent"
        PROVE  /\ \A l \in Due(e, a) : k <= l
               /\ \/ Serves(xs, a) = {} /\ e[k].found = 0
                  \/ e[k].found \in Serves(xs, a)
    <3>1. /\ \A j \in Due(c, a) : from[k] <= j
          /\ \/ Serves(ws, a) = {} /\ e[k].found = 0
             \/ e[k].found \in Serves(ws, a)
      BY <1>2, <1>5, <2>1 DEF Alone
    <3>2. QED
      BY <1>1, <1>2, <3>1 DEF Same
  <2>2. QED
    BY <1>5, <2>1 DEF Alone, Same
<1>6. QED
  BY <1>4, <1>5

\* The first connect of the account is written.
LEMMA FirstWritten ==
  ASSUME NEW c \in Seq(Connect), NEW i \in DOMAIN c, NEW e, e = RemoveAt(c, i),
         NEW a, c[i].account = a, \A j \in 1..(i - 1) : c[j].account # a,
         NEW ws, NEW xs, NEW w \in DOMAIN xs,
         xs[w].account = a, xs[w].network = c[i].network, xs[w].clientId = c[i].clientId
  PROVE  \A n, id : Settles(c, ws, a, n, id) => Settles(e, xs, a, n, id)
<1> SUFFICES ASSUME NEW n, NEW id, Settles(c, ws, a, n, id) PROVE Settles(e, xs, a, n, id)
  OBVIOUS
<1>0. Len(c) \in Nat /\ DOMAIN c = 1..Len(c) /\ i \in 1..Len(c)
  OBVIOUS
<1>1. PICK from \in [DOMAIN e -> DOMAIN c \ {i}] :
        /\ \A k \in DOMAIN e : e[k] = c[from[k]]
        /\ \A k, l \in DOMAIN e : k <= l <=> from[k] <= from[l]
        /\ \A j \in DOMAIN c \ {i} : \E k \in DOMAIN e : from[k] = j
  BY Removed
<1>2. \A k \in Due(e, a) : k \in DOMAIN e /\ from[k] \in Due(c, a) \ {i} /\ e[k] = c[from[k]]
  BY <1>1 DEF Due
<1>3. ASSUME NEW j \in Due(c, a) \ {i} PROVE \E k \in Due(e, a) : from[k] = j
  <2>1. j \in DOMAIN c \ {i} /\ c[j].account = a
    BY DEF Due
  <2>2. PICK k \in DOMAIN e : from[k] = j
    BY <1>1, <2>1
  <2>3. QED
    BY <1>1, <2>1, <2>2 DEF Due
<1>4. i \in Due(c, a) /\ \A j \in Due(c, a) : j \in 1..Len(c) /\ i <= j
  BY <1>0 DEF Due
<1>5. ASSUME NEW k \in Due(e, a), \A l \in Due(e, a) : l <= k
      PROVE  e[k].network = n /\ e[k].clientId = id
  <2>1. \A j \in Due(c, a) \ {i} : j <= from[k]
    BY <1>1, <1>2, <1>3, <1>5
  <2>2. \A j \in Due(c, a) : j <= from[k]
    BY <1>2, <1>4, <2>1
  <2>3. QED
    BY <1>2, <2>2 DEF Settles
<1>6. ASSUME Due(e, a) = {}, n = "home" PROVE \E x \in Serves(xs, a) : xs[x].clientId = id
  <2>1. Due(c, a) = {i}
    BY <1>3, <1>4, <1>6
  <2>2. c[i].network = n /\ c[i].clientId = id
    BY <1>0, <2>1 DEF Settles
  <2>3. QED
    BY <1>6, <2>2 DEF Serves
<1>7. QED
  BY <1>5, <1>6 DEF Settles

\* It was the only one that had looked for a wallet.
LEMMA OnlyWritten ==
  ASSUME NEW c \in Seq(Connect), NEW i \in DOMAIN c, NEW e, e = RemoveAt(c, i),
         NEW a, c[i].account = a, c[i].at # "sent",
         NEW ws, NEW xs, NEW w, Alone(c, ws, a), Serves(xs, a) \subseteq Serves(ws, a) \cup {w},
         c[i].found # 0 => w = c[i].found, 0 \notin DOMAIN ws
  PROVE  Alone(e, xs, a)
<1>1. PICK from \in [DOMAIN e -> DOMAIN c \ {i}] :
        /\ \A k \in DOMAIN e : e[k] = c[from[k]]
        /\ \A k, l \in DOMAIN e : k <= l <=> from[k] <= from[l]
        /\ \A j \in DOMAIN c \ {i} : \E k \in DOMAIN e : from[k] = j
  BY Removed
<1>2. i \in Due(c, a) /\ Due(c, a) \subseteq Int
  BY DEF Due
<1>3. ASSUME NEW k \in Due(e, a) PROVE e[k].at = "sent"
  <2>1. from[k] \in Due(c, a) \ {i} /\ e[k] = c[from[k]]
    BY <1>1 DEF Due
  <2>2. c[from[k]].at # "sent" => from[k] <= i /\ i <= from[k]
    BY <1>2, <2>1 DEF Alone
  <2>3. QED
    BY <1>2, <2>1, <2>2
<1>4. Serves(ws, a) = {} \/ c[i].found \in Serves(ws, a)
  BY <1>2 DEF Alone
<1>5. Serves(ws, a) \subseteq {w}
  <2>1. CASE c[i].found \in Serves(ws, a)
    <3>1. c[i].found # 0
      BY <2>1 DEF Serves
    <3>2. QED
      BY <2>1, <3>1 DEF Alone
  <2>2. QED
    BY <1>4, <2>1
<1>6. QED
  BY <1>3, <1>5 DEF Alone

\* A page that connects its wallet object tells what it changed.
LEMMA Tells ==
  ASSUME IInv, LInv, NEW t \in Pages, NEW wallet \in Page, ConnectWallet(t, wallet),
         UNCHANGED <<wallets, course>>
  PROVE  Told' /\ Apart' /\ DOMAIN by' = Accounts
<1>1. /\ page' = [page EXCEPT ![t] = wallet] /\ page \in [Pages -> Page]
      /\ DOMAIN by = Accounts
      /\ Told /\ Apart
  BY DEF ConnectWallet, IInv, LInv
<1>2. CASE wallet.account = None
  <2>1. UNCHANGED <<connects, by>>
    BY <1>2 DEF ConnectWallet
  <2>2. ASSUME NEW a \in Accounts, NEW u \in Pages,
               course[a] # "neither", by[a] = u, page'[u].account = a
        PROVE  Settles(connects, wallets, a, page'[u].network, page'[u].clientId)
    <3>1. u # t
      BY <1>1, <1>2, <2>2, TabsAssumption
    <3>2. page'[u] = page[u]
      BY <1>1, <3>1
    <3>3. QED
      BY <1>1, <2>2, <3>2 DEF Told
  <2>3. QED
    BY <1>1, <2>1, <2>2 DEF Told, Apart
<1>3. CASE wallet.account # None
  <2>1. PICK c : c = [page |-> t, account |-> wallet.account, network |-> wallet.network,
                      clientId |-> wallet.clientId, at |-> "sent", found |-> 0]
    OBVIOUS
  <2>2. connects' = Append(connects, c) /\ by' = [by EXCEPT ![wallet.account] = t]
        /\ wallet.account \in Accounts
    BY <1>3, <2>1 DEF ConnectWallet, Page
  <2>3. /\ c.account = wallet.account /\ c.network = wallet.network
        /\ c.clientId = wallet.clientId /\ c.at = "sent"
    BY <2>1
  <2>4. connects \in Seq(Connect)
    BY ConnectsTyped
  <2>5. PICK e : e = Append(connects, c)
    OBVIOUS
  <2>6. ASSUME NEW a \in Accounts, NEW u \in Pages,
               course[a] # "neither", by'[a] = u, page'[u].account = a
        PROVE  Settles(e, wallets, a, page'[u].network, page'[u].clientId)
    <3>1. CASE a = wallet.account
      <4>1. page'[u] = wallet
        BY <1>1, <2>2, <2>6, <3>1
      <4>2. Settles(e, wallets, a, c.network, c.clientId)
        BY <2>3, <2>4, <2>5, <3>1, Appended
      <4>3. QED
        BY <2>3, <4>1, <4>2
    <3>2. CASE a # wallet.account
      <4>1. u # t /\ by[a] = u
        BY <1>1, <2>2, <2>6, <3>2
      <4>2. page'[u] = page[u]
        BY <1>1, <4>1
      <4>3. PICK n, id : n = page[u].network /\ id = page[u].clientId
        OBVIOUS
      <4>4. Settles(connects, wallets, a, n, id)
        BY <1>1, <2>6, <4>1, <4>2, <4>3 DEF Told
      <4>5. Settles(e, wallets, a, n, id)
        BY <2>3, <2>4, <2>5, <3>2, <4>4, Appended
      <4>6. QED
        BY <4>2, <4>3, <4>5
    <3>3. QED
      BY <3>1, <3>2
  <2>7. ASSUME NEW a \in Accounts, course[a] = "apart" PROVE Alone(e, wallets, a)
    <3>1. Alone(connects, wallets, a)
      BY <1>1, <2>7 DEF Apart
    <3>2. QED
      BY <2>3, <2>4, <2>5, <3>1, Appended
  <2>8. QED
    BY <1>1, <2>2, <2>5, <2>6, <2>7 DEF Told, Apart
<1>4. QED
  BY <1>2, <1>3

LEMMA PageTells ==
  ASSUME IInv, LInv, NEW t \in Pages, PageStep(t)
  PROVE  Told' /\ Apart' /\ DOMAIN by' = Accounts
<1>1. page[t] \in Page /\ inbox[t] \in Seq(Fit(t))
  BY DEF IInv
<1>2. CASE Hydrate(t)
  <2>1. [page[t] EXCEPT !.at = "hydrating"] \in Page
    BY <1>1 DEF Page
  <2>2. QED
    BY <1>2, <2>1, Tells DEF Hydrate, backgroundVars
<1>3. ASSUME NEW a \in Accounts \cup {None}, accountsChanged(t, a)
      PROVE  Told' /\ Apart' /\ DOMAIN by' = Accounts
  <2>1. [page[t] EXCEPT !.account = a] \in Page
    BY <1>1 DEF Page
  <2>2. QED
    BY <1>3, <2>1, Tells DEF accountsChanged, backgroundVars
<1>4. ASSUME NEW n \in Networks, chainChanged(t, n)
      PROVE  Told' /\ Apart' /\ DOMAIN by' = Accounts
  <2>1. [page[t] EXCEPT !.network = n] \in Page
    BY <1>1 DEF Page
  <2>2. QED
    BY <1>4, <2>1, Tells DEF chainChanged, backgroundVars
<1>5. CASE onMessage(t)
  <2>1. Head(inbox[t]) \in Hello
    BY <1>5, Arrived DEF onMessage, Fit, NeedEth
  <2>2. [page[t] EXCEPT !.clientId = Head(inbox[t]).id] \in Page
    BY <1>1, <2>1 DEF Page, Hello
  <2>3. QED
    BY <1>5, <2>2, Tells DEF onMessage, backgroundVars
<1>6. CASE handleConnection(t) \/ handleDisconnect(t) \/ onMetamask(t)
  <2>1. UNCHANGED <<page, connects, by, wallets, course>>
    BY <1>6 DEF handleConnection, handleDisconnect, onMetamask, backgroundVars
  <2>2. QED
    BY <2>1 DEF LInv, Told, Apart
<1>7. CASE Answer(t)
  <2>1. UNCHANGED <<connects, by, wallets, course>>
    BY <1>7 DEF Answer, messageVars
  <2>2. \A u \in Pages : /\ page'[u].account = page[u].account
                         /\ page'[u].network = page[u].network
                         /\ page'[u].clientId = page[u].clientId
    BY <1>1, <1>7 DEF Answer, IInv, Page
  <2>3. QED
    BY <2>1, <2>2 DEF LInv, Told, Apart
<1>8. QED
  BY <1>2, <1>3, <1>4, <1>5, <1>6, <1>7 DEF PageStep

\* A connect that goes on is still about the same.
LEMMA GoesOn ==
  ASSUME IInv, LInv, NEW i \in DOMAIN connects, Find(i) \/ GiveUp(i)
  PROVE  Told' /\ Apart'
<1>1. /\ connects \in Seq(Connect) /\ connects[i] \in Connect
      /\ UNCHANGED <<page, by, wallets>> /\ connects[i].account \in Accounts
  <2>1. connects \in Seq(Connect) /\ connects[i] \in Connect
    BY ConnectsTyped
  <2>2. UNCHANGED <<page, by, wallets>>
    BY DEF Find, GiveUp, messageVars
  <2>3. QED
    BY <2>1, <2>2 DEF Connect
<1>2. PICK e : e = connects'
  OBVIOUS
<1>3. /\ DOMAIN e = DOMAIN connects /\ \A k \in DOMAIN connects \ {i} : e[k] = connects[k]
      /\ e[i].account = connects[i].account /\ e[i].network = connects[i].network
      /\ e[i].clientId = connects[i].clientId
  <2>1. PICK f, w : e = [connects EXCEPT ![i] = [connects[i] EXCEPT !.at = f, !.found = w]]
    <3>1. CASE Find(i)
      BY <1>1, <1>2, <3>1 DEF Find
    <3>2. CASE GiveUp(i)
      <4>1. [connects[i] EXCEPT !.at = "late"]
              = [connects[i] EXCEPT !.at = "late", !.found = connects[i].found]
        BY <1>1 DEF Connect
      <4>2. QED
        BY <1>1, <1>2, <3>2, <4>1 DEF GiveUp
    <3>3. QED
      BY <3>1, <3>2
  <2>2. QED
    BY <1>1, <2>1 DEF Connect
<1>4. \A a : Due(e, a) = Due(connects, a)
  BY <1>3 DEF Due
<1>5. \A k \in DOMAIN connects : e[k].network = connects[k].network
                                 /\ e[k].clientId = connects[k].clientId
  BY <1>3
<1>6. \A a \in Accounts : course'[a] # "neither" => course[a] # "neither"
  BY <1>1 DEF Find, GiveUp, IInv
<1>7. Told'
  <2>1. ASSUME NEW a \in Accounts, NEW n, NEW id, Settles(connects, wallets, a, n, id)
        PROVE  Settles(e, wallets, a, n, id)
    BY <1>4, <1>5, <2>1 DEF Settles, Due
  <2>2. QED
    BY <1>1, <1>2, <1>6, <2>1 DEF LInv, Told
<1>8. ASSUME NEW a \in Accounts, course'[a] = "apart" PROVE Alone(e, wallets, a)
  <2>1. Alone(connects, wallets, a)
    <3>1. course[a] = "apart"
      BY <1>1, <1>8 DEF Find, GiveUp, IInv
    <3>2. QED
      BY <3>1 DEF LInv, Apart
  <2>2. CASE connects[i].account # a
    <3>1. \A k \in Due(connects, a) : e[k] = connects[k]
      BY <1>3, <2>2 DEF Due
    <3>2. QED
      BY <1>4, <2>1, <3>1 DEF Alone
  <2>3. CASE connects[i].account = a /\ GiveUp(i)
    <3>1. connects[i].at # "sent" /\ e[i].found = connects[i].found
      BY <1>1, <1>2, <2>3 DEF GiveUp, Connect
    <3>2. \A k \in Due(connects, a) :
            /\ e[k].found = connects[k].found
            /\ e[k].at # "sent" => connects[k].at # "sent"
      BY <1>3, <3>1 DEF Due
    <3>3. QED
      BY <1>4, <2>1, <3>2 DEF Alone
  <2>4. CASE connects[i].account = a /\ Find(i)
    <3>1. PICK w \in findOne(a) :
            connects' = [connects EXCEPT ![i] = [connects[i] EXCEPT !.at = "found", !.found = w]]
      BY <1>1, <2>4 DEF Find
    <3>2. e[i].found = w /\ ((Serves(wallets, a) = {} /\ w = 0) \/ w \in Serves(wallets, a))
      <4>1. e[i].found = w
        BY <1>1, <1>2, <3>1 DEF Connect
      <4>2. QED
        BY <3>1, <4>1 DEF findOne, Served, Serves
    <3>3. InTurn(i)
      BY <1>1, <1>8, <2>4 DEF Find, IInv
    <3>4. \A j \in Due(connects, a) : i <= j
      <4>1. Len(connects) \in Nat /\ DOMAIN connects = 1..Len(connects)
        BY <1>1
      <4>2. QED
        BY <2>4, <3>3, <4>1 DEF InTurn, Due
    <3>5. \A k \in Due(connects, a) \ {i} : e[k] = connects[k]
      BY <1>3 DEF Due
    <3>6. QED
      BY <1>4, <2>1, <3>2, <3>4, <3>5 DEF Alone
  <2>5. QED
    BY <2>2, <2>3, <2>4
<1>9. QED
  BY <1>1, <1>2, <1>7, <1>8 DEF Apart

LEMMA WriteTells ==
  ASSUME IInv, LInv, NEW i \in DOMAIN connects, Write(i)
  PROVE  Told' /\ Apart'
<1> DEFINE b == connects[i].account
<1>1. /\ connects \in Seq(Connect) /\ connects[i] \in Connect /\ wallets \in Seq(Wallet)
      /\ UNCHANGED <<page, by>> /\ b \in Accounts
  <2>1. connects \in Seq(Connect) /\ connects[i] \in Connect /\ wallets \in Seq(Wallet)
    BY ConnectsTyped
  <2>2. UNCHANGED <<page, by>>
    BY DEF Write, messageVars
  <2>3. QED
    BY <2>1, <2>2 DEF Connect
<1>2. PICK w \in DOMAIN wallets', x \in Leading :
        /\ x.account = b /\ x.network = connects[i].network
        /\ x.clientId = connects[i].clientId
        /\ wallets' = IF connects[i].found = 0 THEN Append(wallets, x)
                                               ELSE [wallets EXCEPT ![w] = x]
        /\ w = IF connects[i].found = 0 THEN Len(wallets) + 1 ELSE connects[i].found
        /\ connects[i].found = 0 => w \notin DOMAIN wallets
        /\ connects[i].found # 0 => w \in DOMAIN wallets /\ wallets[w].account = x.account
  BY WalletWritten
<1>3. PICK e, xs : e = connects' /\ xs = wallets'
  OBVIOUS
<1>4. e = RemoveAt(connects, i)
  BY <1>3 DEF Write, Ends
<1>5. /\ xs[w] = x /\ DOMAIN xs = DOMAIN wallets \cup {w}
      /\ \A v \in DOMAIN wallets \ {w} : xs[v] = wallets[v]
  <2>1. CASE connects[i].found = 0
    BY <1>1, <1>2, <1>3, <2>1
  <2>2. CASE connects[i].found # 0
    BY <1>1, <1>2, <1>3, <2>2
  <2>3. QED
    BY <2>1, <2>2
<1>6. ASSUME NEW a \in Accounts, a # b PROVE Same(wallets, xs, a)
  <2>1. w \notin Serves(xs, a) /\ w \notin Serves(wallets, a)
    BY <1>2, <1>5, <1>6 DEF Serves
  <2>2. QED
    BY <1>5, <2>1 DEF Same, Serves
<1>7. ASSUME NEW a \in Accounts
      PROVE  course'[a] = IF a # b \/ (InTurn(i) /\ connects[i].at = "found")
                          THEN course[a] ELSE "neither"
  BY <1>1 DEF Write, IInv
<1>8. ASSUME NEW a \in Accounts, course'[a] # "neither", NEW n, NEW id,
             Settles(connects, wallets, a, n, id)
      PROVE  Settles(e, xs, a, n, id)
  <2>1. CASE a # b
    BY <1>1, <1>4, <1>6, <1>8, <2>1, OtherEnds
  <2>2. CASE a = b
    <3>1. \A j \in 1..(i - 1) : connects[j].account # a
      BY <1>7, <1>8, <2>2 DEF InTurn
    <3>2. /\ w \in DOMAIN xs /\ xs[w].account = a /\ xs[w].network = connects[i].network
          /\ xs[w].clientId = connects[i].clientId
      BY <1>2, <1>5, <2>2
    <3>3. QED
      BY <1>1, <1>4, <1>8, <2>2, <3>1, <3>2, FirstWritten
  <2>3. QED
    BY <2>1, <2>2
<1>9. ASSUME NEW a \in Accounts, course'[a] = "apart" PROVE Alone(e, xs, a)
  <2>1. course[a] = "apart" /\ Alone(connects, wallets, a)
    BY <1>7, <1>9 DEF LInv, Apart
  <2>2. CASE a # b
    BY <1>1, <1>4, <1>6, <2>1, <2>2, OtherEnds
  <2>3. CASE a = b
    <3>1. connects[i].at # "sent"
      BY DEF Write
    <3>2. Serves(xs, a) \subseteq Serves(wallets, a) \cup {w}
      BY <1>5 DEF Serves
    <3>3. 0 \notin DOMAIN wallets /\ (connects[i].found # 0 => w = connects[i].found)
      BY <1>1, <1>2
    <3>4. QED
      BY <1>1, <1>4, <2>1, <2>3, <3>1, <3>2, <3>3, OnlyWritten
  <2>4. QED
    BY <2>2, <2>3
<1>10. Told'
  <2>1. ASSUME NEW a \in Accounts, NEW t \in Pages,
               course'[a] # "neither", by[a] = t, page[t].account = a
        PROVE  Settles(e, xs, a, page[t].network, page[t].clientId)
    <3>1. PICK n, id : n = page[t].network /\ id = page[t].clientId
      OBVIOUS
    <3>2. course[a] # "neither"
      BY <1>7, <2>1
    <3>3. Settles(connects, wallets, a, n, id)
      BY <2>1, <3>1, <3>2 DEF LInv, Told
    <3>4. QED
      BY <1>8, <2>1, <3>1, <3>3
  <2>2. QED
    BY <1>1, <1>3, <2>1 DEF Told
<1>11. QED
  BY <1>3, <1>9, <1>10 DEF Apart

\* A connect that fails, and a wallet that a simulation moves, are of one account.
LEMMA FaultTells ==
  ASSUME IInv, LInv,
         \/ \E i \in DOMAIN connects : ConnectFails(i)
         \/ \E w \in DOMAIN wallets : SimulateUpdate(w)
  PROVE  Told' /\ Apart'
<1>1. connects \in Seq(Connect) /\ wallets \in Seq(Wallet)
  BY ConnectsTyped
<1>2. PICK e, xs : e = connects' /\ xs = wallets'
  OBVIOUS
<1>3. PICK b :
        /\ course' = [course EXCEPT ![b] = "neither"] /\ UNCHANGED <<page, by>>
        /\ \A a : a # b => /\ \A n, id : Settles(connects, wallets, a, n, id)
                                           => Settles(e, xs, a, n, id)
                           /\ Alone(connects, wallets, a) => Alone(e, xs, a)
  <2>1. ASSUME NEW i \in DOMAIN connects, ConnectFails(i)
        PROVE  \A a : a # connects[i].account =>
                 /\ \A n, id : Settles(connects, wallets, a, n, id) => Settles(e, xs, a, n, id)
                 /\ Alone(connects, wallets, a) => Alone(e, xs, a)
    <3>1. e = RemoveAt(connects, i) /\ xs = wallets
      BY <1>2, <2>1 DEF ConnectFails, Ends
    <3>2. \A a : Same(wallets, xs, a)
      BY <3>1 DEF Same
    <3>3. QED
      BY <1>1, <3>1, <3>2, OtherEnds
  <2>2. ASSUME NEW w \in DOMAIN wallets, SimulateUpdate(w)
        PROVE  \A a : a # wallets[w].account =>
                 /\ \A n, id : Settles(connects, wallets, a, n, id) => Settles(e, xs, a, n, id)
                 /\ Alone(connects, wallets, a) => Alone(e, xs, a)
    <3>1. e = connects
      BY <1>2, <2>2 DEF SimulateUpdate
    <3>2. PICK x : xs = [wallets EXCEPT ![w] = x] /\ x.account = wallets[w].account
      <4>1. PICK n : wallets' = [wallets EXCEPT ![w] = [wallets[w] EXCEPT !.network = n]]
        BY <2>2 DEF SimulateUpdate
      <4>2. wallets[w] \in Wallet
        BY <1>1
      <4>3. [wallets[w] EXCEPT !.network = n].account = wallets[w].account
        BY <4>2 DEF Wallet
      <4>4. QED
        BY <1>2, <4>1, <4>3
    <3>3. ASSUME NEW a, a # wallets[w].account PROVE Same(wallets, xs, a)
      BY <3>2, <3>3 DEF Same, Serves
    <3>4. QED
      BY <3>1, <3>3 DEF Settles, Alone, Same
  <2>3. QED
    BY <2>1, <2>2 DEF ConnectFails, SimulateUpdate, messageVars
<1>4. \A a \in Accounts : course'[a] # "neither" => a # b /\ course'[a] = course[a]
  BY <1>3 DEF IInv
<1>5. QED
  BY <1>2, <1>3, <1>4 DEF LInv, Told, Apart

\* A socket is greeted first, and with its own id.
LEMMA GreetedStep ==
  ASSUME IInv, LInv, [Next]_vars
  PROVE  Greeted'
<1>1. \A t \in Pages : Knows(page[t], socket[t], inbox[t])
  BY DEF LInv, Greeted
<1>2. (\A t \in Pages : Knows(page'[t], socket'[t], inbox'[t])) => Greeted'
  BY DEF Greeted
<1>3. /\ page \in [Pages -> Page] /\ socket \in [Pages -> Nat] /\ DOMAIN inbox = Pages
      /\ \A t \in Pages : inbox[t] \in Seq(Fit(t))
  BY DEF IInv
<1>4. ASSUME UNCHANGED <<socket, inbox>>,
             \A t \in Pages : page'[t].clientId = page[t].clientId
      PROVE  Greeted'
  BY <1>4 DEF LInv, Greeted, Knows
<1>5. ASSUME NEW t \in Pages, NEW w, Knows(w, socket'[t], inbox'[t]), page'[t] = w,
             \A u \in Pages \ {t} : /\ page'[u] = page[u] /\ socket'[u] = socket[u]
                                    /\ inbox'[u] = inbox[u]
      PROVE  Greeted'
  BY <1>1, <1>2, <1>5
<1>6. ASSUME NEW t \in Pages,
             \/ Hydrate(t)
             \/ \E a \in Accounts \cup {None} : accountsChanged(t, a)
             \/ \E n \in Networks : chainChanged(t, n)
      PROVE  Greeted'
  <2>1. PICK w : w.clientId = page[t].clientId /\ page' = [page EXCEPT ![t] = w]
    <3>1. page[t] \in Page
      BY <1>3
    <3>2. /\ [page[t] EXCEPT !.at = "hydrating"].clientId = page[t].clientId
          /\ \A a : [page[t] EXCEPT !.account = a].clientId = page[t].clientId
          /\ \A n : [page[t] EXCEPT !.network = n].clientId = page[t].clientId
      BY <3>1 DEF Page
    <3>3. QED
      BY <1>6, <3>2 DEF Hydrate, accountsChanged, chainChanged, ConnectWallet
  <2>2. UNCHANGED <<socket, inbox>>
    BY <1>6 DEF Hydrate, accountsChanged, chainChanged, gatewayVars
  <2>3. QED
    BY <1>3, <1>4, <2>1, <2>2
<1>7. ASSUME NEW t \in Pages, handleConnection(t) PROVE Greeted'
  <2>1. PICK m : m = [kind |-> "hello", id |-> Len(owner')]
    OBVIOUS
  <2>2. /\ page' = page /\ socket' = [socket EXCEPT ![t] = m.id]
        /\ inbox' = [inbox EXCEPT ![t] = <<m>>] /\ m.kind = "hello"
    BY <1>7, <2>1 DEF handleConnection
  <2>3. Knows(page[t], m.id, <<m>>)
    BY <2>2 DEF Knows
  <2>4. QED
    BY <1>3, <1>5, <2>2, <2>3
<1>8. ASSUME NEW t \in Pages, handleDisconnect(t) PROVE Greeted'
  <2>1. Knows(page[t], 0, <<>>)
    BY DEF Knows
  <2>2. QED
    BY <1>3, <1>5, <1>8, <2>1 DEF handleDisconnect
<1>9. ASSUME NEW t \in Pages, onMessage(t) \/ onMetamask(t) PROVE Greeted'
  <2>1. /\ inbox[t] # <<>> /\ inbox' = [inbox EXCEPT ![t] = Tail(inbox[t])]
        /\ UNCHANGED socket
    BY <1>9 DEF onMessage, onMetamask, Arrives, gatewayVars
  <2>2. PICK b : b = inbox[t]
    OBVIOUS
  <2>3. /\ Len(b) \in Nat \ {0} /\ Head(b) = b[1] /\ 1 \in DOMAIN b
        /\ \A k \in DOMAIN Tail(b) : k + 1 \in DOMAIN b /\ Tail(b)[k] = b[k + 1]
    BY <1>3, <2>1, <2>2
  <2>4. \A k \in DOMAIN Tail(b) : Tail(b)[k].kind = "hello" => Tail(b)[k].id = socket[t]
    BY <1>1, <2>2, <2>3 DEF Knows
  <2>5. CASE onMessage(t)
    <3>1. Head(b).kind = "hello" /\ page' = [page EXCEPT ![t] = [page[t] EXCEPT !.clientId = Head(b).id]]
      BY <2>2, <2>5 DEF onMessage, Arrives, ConnectWallet
    <3>2. Head(b).id = socket[t]
      BY <1>1, <2>2, <2>3, <3>1 DEF Knows
    <3>3. page[t] \in Page
      BY <1>3
    <3>4. page'[t].clientId = socket[t]
      BY <1>3, <3>1, <3>2, <3>3 DEF Page
    <3>5. Knows(page'[t], socket[t], Tail(b))
      BY <2>4, <3>4 DEF Knows
    <3>6. QED
      BY <1>3, <1>5, <2>1, <2>2, <3>1, <3>5
  <2>6. CASE onMetamask(t)
    <3>1. Head(b).kind = "need_eth" /\ page' = page
      BY <2>2, <2>6 DEF onMetamask, Arrives
    <3>2. Knows(page[t], socket[t], Tail(b))
      BY <1>1, <2>2, <2>4, <3>1 DEF Knows
    <3>3. QED
      BY <1>3, <1>5, <2>1, <2>2, <3>1, <3>2
  <2>7. QED
    BY <1>9, <2>5, <2>6
<1>10. ASSUME \/ \E i \in DOMAIN connects : ConnectStep(i)
              \/ \E w \in DOMAIN wallets : SimulateUpdate(w)
       PROVE  Greeted'
  BY <1>4, <1>10 DEF ConnectStep, Find, Write, ConnectFails, GiveUp, SimulateUpdate,
                     messageVars, gatewayVars
<1>0. ASSUME NEW t \in Pages, Answer(t) PROVE Greeted'
  <2>1. page[t] \in Page
    BY <1>3
  <2>2. page' = [page EXCEPT ![t] = [page[t] EXCEPT !.at = "open"]]
        /\ UNCHANGED <<socket, inbox>>
    BY <1>0, <1>3 DEF Answer, messageVars, gatewayVars
  <2>3. PICK w : w = [page[t] EXCEPT !.at = "open"] /\ w.clientId = page[t].clientId
    BY <2>1 DEF Page
  <2>4. QED
    BY <1>3, <1>4, <2>2, <2>3
<1>11. ASSUME NEW a \in Accounts, metamask(a) PROVE Greeted'
  <2>1. UNCHANGED <<page, socket>> /\ Message(a).kind = "need_eth"
    BY <1>11 DEF metamask, Message
  <2>2. PICK m : m = Message(a)
    OBVIOUS
  <2>3. ASSUME NEW t \in Pages PROVE Knows(page[t], socket[t], inbox'[t])
    <3>1. PICK b : b = inbox[t]
      OBVIOUS
    <3>2. inbox'[t] = Append(b, m) \/ inbox'[t] = b
      BY <1>11, <2>2, <3>1 DEF metamask
    <3>3. /\ Len(b) \in Nat /\ DOMAIN b = 1..Len(b) /\ DOMAIN Append(b, m) = 1..(Len(b) + 1)
          /\ Append(b, m)[Len(b) + 1] = m /\ \A k \in 1..Len(b) : Append(b, m)[k] = b[k]
      BY <1>3, <3>1
    <3>4. Knows(page[t], socket[t], b)
      BY <1>1, <3>1
    <3>5. Knows(page[t], socket[t], Append(b, m))
      <4>1. b # <<>> => Append(b, m) # <<>> /\ Head(Append(b, m)) = Head(b)
        BY <1>3, <3>1
      <4>2. socket[t] # 0 => \/ page[t].clientId = socket[t]
                             \/ b # <<>> /\ Head(b).kind = "hello"
        BY <3>4 DEF Knows
      <4>3. ASSUME NEW k \in DOMAIN Append(b, m), Append(b, m)[k].kind = "hello"
            PROVE  Append(b, m)[k].id = socket[t]
        <5>1. k # Len(b) + 1
          BY <2>1, <2>2, <3>3, <4>3
        <5>2. k \in DOMAIN b /\ Append(b, m)[k] = b[k]
          BY <3>3, <5>1
        <5>3. QED
          BY <3>4, <4>3, <5>2 DEF Knows
      <4>4. QED
        BY <4>1, <4>2, <4>3 DEF Knows
    <3>6. QED
      BY <3>2, <3>4, <3>5
  <2>4. QED
    BY <1>2, <2>1, <2>3
<1>12. CASE UNCHANGED vars
  BY <1>4, <1>12 DEF vars
<1>13. QED
  BY <1>0, <1>6, <1>7, <1>8, <1>9, <1>10, <1>11, <1>12 DEF Next, PageStep

\* While the connects of an account are carried out in the order of the pages' messages,
\* the page that connected it last is named by one of its wallets, and by each of them when
\* no look-up overtook a write; for any number of pages, accounts, sockets, wallets and
\* connects (onMessage in main.ts, wallet/connect, findOne).
THEOREM ReachedLast == Spec => []LastPageReached
<1>1. Init => IInv /\ LInv
  <2>1. ASSUME Init PROVE LInv
    <3>1. Told /\ Apart
      BY <2>1, TabsAssumption DEF Init, Told, Apart, Alone, Due, Serves
    <3>2. Greeted /\ DOMAIN by = Accounts
      BY <2>1 DEF Init, Greeted, Knows
    <3>3. QED
      BY <3>1, <3>2 DEF LInv
  <2>2. QED
    BY <2>1, Initially
<1>2. IInv /\ LInv /\ [Next]_vars => (IInv /\ LInv)'
  <2> SUFFICES ASSUME IInv, LInv, [Next]_vars PROVE (IInv /\ LInv)'
    OBVIOUS
  <2>1. ASSUME \/ \E a \in Accounts : metamask(a)
               \/ UNCHANGED vars
        PROVE  Told' /\ Apart' /\ DOMAIN by' = Accounts
    <3>1. UNCHANGED <<page, connects, by, wallets, course>>
      BY <2>1 DEF metamask, vars, backgroundVars
    <3>2. QED
      BY <3>1 DEF LInv, Told, Apart
  <2>2. ASSUME \/ \E i \in DOMAIN connects : ConnectStep(i)
               \/ \E w \in DOMAIN wallets : SimulateUpdate(w)
        PROVE  Told' /\ Apart' /\ DOMAIN by' = Accounts
    <3>1. by' = by
      BY <2>2 DEF ConnectStep, Find, Write, ConnectFails, GiveUp, SimulateUpdate, messageVars
    <3>2. QED
      BY <2>2, <3>1, GoesOn, WriteTells, FaultTells DEF ConnectStep, LInv
  <2>3. Told' /\ Apart' /\ DOMAIN by' = Accounts
    BY <2>1, <2>2, PageTells DEF Next
  <2>4. QED
    BY <2>3, Step, GreetedStep DEF LInv
<1>3. IInv /\ LInv => LastPageReached
  <2> SUFFICES ASSUME IInv, LInv, NEW a \in Accounts, NEW t \in Pages,
                      course[a] # "neither", inbox[t] = <<>>,
                      \A i \in DOMAIN connects : connects[i].account # a,
                      by[a] = t, page[t].account = a, page[t].network = "home", socket[t] # 0
               PROVE  /\ \E w \in Served(a) : wallets[w].clientId = socket[t]
                      /\ course[a] = "apart" => \A w \in Served(a) : wallets[w].clientId = socket[t]
    BY DEF LastPageReached
  <2>1. page[t].clientId = socket[t]
    BY DEF LInv, Greeted, Knows
  <2>2. Due(connects, a) = {} /\ Serves(wallets, a) = Served(a)
    BY DEF Due, Serves, Served
  <2>3. Settles(connects, wallets, a, page[t].network, page[t].clientId)
    BY DEF LInv, Told
  <2>4. PICK w \in Served(a) : wallets[w].clientId = socket[t]
    BY <2>1, <2>2, <2>3 DEF Settles
  <2>5. course[a] = "apart" => \A v \in Served(a) : v = w
    BY <2>2 DEF LInv, Apart, Alone
  <2>6. QED
    BY <2>4, <2>5
<1>4. QED
  BY <1>1, <1>2, <1>3, PTL DEF Spec
=============================================================================
