---------------------------- MODULE WalletProofs ----------------------------
(***************************************************************************)
(* For any number of overlapping handlers, popups, accounts and coins: the *)
(* wallet in storage is one of the backend's, with the same address,       *)
(* tokens belong to the network of their wallet, and the popup shows the   *)
(* selected coin once its messages are handled.                            *)
(*                                                                         *)
(* The first two are made true by handlers that carry a wallet across      *)
(* awaits, so the invariant speaks of what they carry: an id found or      *)
(* created goes with its address (Refers), and a token with its network.   *)
(*                                                                         *)
(* What keeps the last true is the order of messages.  A popup that is not *)
(* answered yet has nothing behind its coin/get; one that is answered has  *)
(* only its own choices on their way, the last of which it shows.  And as  *)
(* long as no coin is selected no wallet has a token in storage, so the    *)
(* coin derived from one is the default.                                   *)
(***************************************************************************)
EXTENDS Popup, FiniteSetTheorems, SequenceTheorems, TLAPS

Refers(id, address) == id \in DOMAIN wallets /\ wallets[id].address = address

WalletsOK == wallets \in Seq(Wallet) /\ TokenOfNetwork

StorageOK ==
  /\ coin \in Choices \cup {None}
  /\ stored \in MaybeStored
  /\ stored # None => Refers(stored.id, stored.address)

\* What a handler of wallet/connect carries.
ConnOK(h) ==
  /\ h \in Handler
  /\ h.pc # "idle" => h.address \in Accounts
  /\ h.token # None => h.network = Home
  /\ h.pc \in {"save", "store"} /\ h.id # 0 => Refers(h.id, h.address)
  /\ h.pc = "store" => h.id # 0

\* What a transaction carries.
FlowOK(t) ==
  /\ t \in Transaction
  /\ t.wallet # None => Refers(t.wallet.id, t.wallet.address)
  /\ t.pc = "update" => t.wallet # None

IInv ==
  /\ WalletsOK
  /\ StorageOK
  /\ conn = [c \in Connects |-> conn[c]] /\ \A c \in Connects : ConnOK(conn[c])
  /\ flow = [f \in Flows |-> flow[f]] /\ \A f \in Flows : FlowOK(flow[f])

LEMMA Tokens ==
  ASSUME NEW c, NEW network
  PROVE  /\ TokenOn(c, network) \in MaybeToken
         /\ TokenOn(c, network) # None => network = Home
BY DEF TokenOn, MaybeToken

-----------------------------------------------------------------------------
(* Writes to the backend's wallets keep what refers to one.                *)

Keeps == \A id, address : Refers(id, address) => Refers(id, address)'

\* The wallet i gets another network and token.
Rewrites(i, network, token) ==
  wallets' = [wallets EXCEPT ![i].network = network, ![i].token = token]

LEMMA Rewritten ==
  ASSUME WalletsOK, NEW i \in DOMAIN wallets, NEW network \in Networks,
         NEW token \in MaybeToken, token # None => network = Home,
         Rewrites(i, network, token)
  PROVE  WalletsOK' /\ Keeps
<1> DEFINE w == [wallets[i] EXCEPT !.network = network, !.token = token]
<1>1. wallets \in Seq(Wallet) /\ wallets[i] \in Wallet
  BY DEF WalletsOK
<1>2. /\ w \in Wallet /\ w.address = wallets[i].address
      /\ w.network = network /\ w.token = token
  BY <1>1 DEF Wallet
<1>3. wallets' = [wallets EXCEPT ![i] = w]
  BY <1>1 DEF Rewrites
<1> HIDE DEF w
<1>4. /\ wallets' \in Seq(Wallet) /\ DOMAIN wallets' = DOMAIN wallets
      /\ wallets'[i] = w
      /\ \A k \in DOMAIN wallets \ {i} : wallets'[k] = wallets[k]
  BY <1>1, <1>2, <1>3, ExceptSeq
<1>5. TokenOfNetwork'
  BY <1>2, <1>4 DEF WalletsOK, TokenOfNetwork
<1>6. Keeps
  BY <1>2, <1>4 DEF Keeps, Refers
<1> QED BY <1>4, <1>5, <1>6 DEF WalletsOK

LEMMA Added ==
  ASSUME WalletsOK, NEW w \in Wallet, w.token # None => w.network = Home,
         wallets' = Append(wallets, w)
  PROVE  /\ WalletsOK' /\ Keeps
         /\ Len(wallets') \in Nat \ {0}
         /\ \A i : i = Len(wallets') => Refers(i, w.address)'
<1>1. wallets \in Seq(Wallet)
  BY DEF WalletsOK
<1> DEFINE n == Len(wallets)
<1>2. /\ wallets' \in Seq(Wallet) /\ Len(wallets') = n + 1 /\ n \in Nat
      /\ DOMAIN wallets = 1..n /\ DOMAIN wallets' = 1..(n + 1)
      /\ \A k \in 1..n : wallets'[k] = wallets[k]
      /\ wallets'[n + 1] = w
  BY <1>1, AppendProperties
<1> HIDE DEF n
<1>3. TokenOfNetwork'
  <2> SUFFICES ASSUME NEW k \in 1..(n + 1), wallets'[k].token # None
               PROVE  wallets'[k].network = Home
    BY <1>2 DEF TokenOfNetwork
  <2>1. k \in 1..n \/ k = n + 1
    BY <1>2
  <2> QED BY <1>2, <2>1 DEF WalletsOK, TokenOfNetwork
<1>4. Keeps
  BY <1>2 DEF Keeps, Refers
<1>5. ASSUME NEW i, i = Len(wallets')
      PROVE  Refers(i, w.address)'
  BY <1>2, <1>5 DEF Refers
<1> QED BY <1>2, <1>3, <1>4, <1>5 DEF WalletsOK

\* What the handlers and the storage carry survives a write that keeps references.
LEMMA Survive ==
  ASSUME Keeps
  PROVE  /\ \A h : ConnOK(h) => ConnOK(h)'
         /\ \A t : FlowOK(t) => FlowOK(t)'
         /\ StorageOK /\ UNCHANGED <<coin, stored>> => StorageOK'
BY DEF Keeps, ConnOK, FlowOK, StorageOK

LEMMA KeepsSame ==
  ASSUME UNCHANGED wallets
  PROVE  Keeps /\ (WalletsOK => WalletsOK')
BY DEF Keeps, Refers, WalletsOK, TokenOfNetwork

\* A step that changes one handler of wallet/connect.
LEMMA ConnectLocal ==
  ASSUME IInv, NEW c \in Connects, NEW h, conn' = [conn EXCEPT ![c] = h], ConnOK(h)',
         UNCHANGED flow, Keeps, WalletsOK', StorageOK'
  PROVE  IInv'
BY Survive DEF IInv

\* A step that changes one transaction.
LEMMA FlowLocal ==
  ASSUME IInv, NEW f \in Flows, NEW t, flow' = [flow EXCEPT ![f] = t], FlowOK(t)',
         UNCHANGED conn, Keeps, WalletsOK', StorageOK'
  PROVE  IInv'
BY Survive DEF IInv

-----------------------------------------------------------------------------
(* One lemma per handler.                                                  *)

LEMMA ConnectKeeps ==
  ASSUME IInv, NEW c \in Connects, ConnectStep(c)
  PROVE  IInv'
<1>1. PICK old : old = conn[c]
  OBVIOUS
<1>2. ConnOK(old) /\ WalletsOK /\ StorageOK
  BY <1>1 DEF IInv
<1>3. /\ UNCHANGED wallets => Keeps /\ WalletsOK'
      /\ Keeps /\ UNCHANGED <<coin, stored>> => StorageOK'
  BY <1>2, KeepsSame, Survive
<1>4. ASSUME NEW address \in Accounts, NEW network \in Networks,
             ConnectStart(c, address, network)
      PROVE  IInv'
  <2>1. PICK h : h = [pc |-> IF coin = None \/ TokenOn(coin, network) # None
                             THEN "find" ELSE "done",
                      address |-> address, network |-> network,
                      token |-> TokenOn(coin, network), id |-> 0]
    OBVIOUS
  <2>2. ConnOK(h)'
    BY <2>1, Tokens DEF ConnOK, Handler
  <2> QED BY <1>3, <1>4, <2>1, <2>2, ConnectLocal DEF ConnectStart
<1>5. CASE ConnectFind(c)
  <2>1. PICK i \in {0} \cup Found(conn[c].address) :
          conn' = [conn EXCEPT ![c].pc = "save", ![c].id = i]
    BY <1>5 DEF ConnectFind
  <2>2. i \in Nat /\ (i # 0 => Refers(i, old.address))
    BY <1>1, <1>2, <2>1 DEF Found, Refers, WalletsOK
  <2>3. PICK h : h = [old EXCEPT !.pc = "save", !.id = i]
    OBVIOUS
  <2>4. ConnOK(h)
    BY <1>1, <1>2, <1>5, <2>2, <2>3 DEF ConnOK, Handler, ConnectFind
  <2>5. UNCHANGED wallets /\ conn' = [conn EXCEPT ![c] = h]
    BY <1>1, <1>5, <2>1, <2>3 DEF ConnectFind
  <2> QED BY <1>3, <1>5, <2>4, <2>5, Survive, ConnectLocal DEF ConnectFind
<1>6. CASE ConnectCreate(c)
  <2>1. PICK w : w = [address |-> old.address, network |-> old.network, token |-> old.token]
    OBVIOUS
  <2>2. w \in Wallet /\ (w.token # None => w.network = Home) /\ w.address = old.address
    BY <1>1, <1>2, <1>6, <2>1 DEF ConnectCreate, ConnOK, Handler, Wallet
  <2>3. wallets' = Append(wallets, w)
    BY <1>1, <1>6, <2>1 DEF ConnectCreate
  <2>4. PICK i : i = Len(wallets')
    OBVIOUS
  <2>5. WalletsOK' /\ Keeps /\ i \in Nat \ {0} /\ Refers(i, old.address)'
    BY <1>2, <2>2, <2>3, <2>4, Added
  <2>6. PICK h : h = [old EXCEPT !.pc = "store", !.id = i]
    OBVIOUS
  <2>7. conn' = [conn EXCEPT ![c] = h]
    BY <1>1, <1>6, <2>4, <2>6 DEF ConnectCreate
  <2>8. ConnOK(h)'
    BY <1>1, <1>2, <1>6, <2>5, <2>6 DEF ConnOK, Handler, ConnectCreate
  <2> QED BY <1>3, <1>6, <2>5, <2>7, <2>8, ConnectLocal DEF ConnectCreate
<1>7. CASE ConnectUpdate(c)
  <2>1. old.id \in DOMAIN wallets /\ Rewrites(old.id, old.network, old.token)
    BY <1>1, <1>2, <1>7 DEF ConnectUpdate, ConnOK, Rewrites, Refers
  <2>2. WalletsOK' /\ Keeps
    <3>1. /\ old.network \in Networks /\ old.token \in MaybeToken
          /\ old.token # None => old.network = Home
      BY <1>2 DEF ConnOK, Handler
    <3> QED BY <1>2, <2>1, <3>1, Rewritten
  <2>3. PICK h : h = [old EXCEPT !.pc = "store"]
    OBVIOUS
  <2>4. ConnOK(h)
    BY <1>1, <1>2, <1>7, <2>3 DEF ConnOK, Handler, ConnectUpdate
  <2>5. conn' = [conn EXCEPT ![c] = h]
    BY <1>1, <1>7, <2>3 DEF ConnectUpdate
  <2> QED BY <1>3, <1>7, <2>2, <2>4, <2>5, Survive, ConnectLocal DEF ConnectUpdate
<1>8. CASE ConnectStore(c)
  <2>1. PICK h : h = [old EXCEPT !.pc = "done"]
    OBVIOUS
  <2>2. conn' = [conn EXCEPT ![c] = h] /\ ConnOK(h)
    BY <1>1, <1>2, <1>8, <2>1 DEF ConnectStore, ConnOK, Handler
  <2>3. StorageOK'
    <3>1. old.id \in Nat /\ old.address \in Accounts /\ old.network \in Networks
          /\ old.token \in MaybeToken /\ Refers(old.id, old.address)
      BY <1>1, <1>2, <1>8 DEF ConnectStore, ConnOK, Handler
    <3>2. /\ stored' = [id |-> old.id, address |-> old.address, network |-> old.network,
                       token |-> old.token]
          /\ UNCHANGED <<coin, wallets>>
      BY <1>1, <1>8 DEF ConnectStore
    <3> QED BY <1>2, <3>1, <3>2 DEF StorageOK, Stored, MaybeStored, Refers
  <2> QED BY <1>3, <1>8, <2>2, <2>3, Survive, ConnectLocal DEF ConnectStore
<1>9. CASE ConnectFails(c)
  <2>1. PICK h : h = [old EXCEPT !.pc = "done"]
    OBVIOUS
  <2>2. conn' = [conn EXCEPT ![c] = h] /\ ConnOK(h)
    BY <1>1, <1>2, <1>9, <2>1 DEF ConnectFails, ConnOK, Handler
  <2> QED BY <1>3, <1>9, <2>2, Survive, ConnectLocal DEF ConnectFails
<1> QED BY <1>4, <1>5, <1>6, <1>7, <1>8, <1>9 DEF ConnectStep

\* Found returns ids of the backend's wallets.
LEMMA FoundWallets ==
  ASSUME WalletsOK, NEW address, NEW i \in Found(address)
  PROVE  i \in DOMAIN wallets /\ wallets[i].token \in MaybeToken
<1>1. i \in DOMAIN wallets /\ wallets[i] \in Wallet
  BY DEF Found, WalletsOK
<1> QED BY <1>1 DEF Wallet

LEMMA FlowKeeps ==
  ASSUME IInv, NEW f \in Flows, FlowStep(f)
  PROVE  IInv'
<1>1. PICK old : old = flow[f]
  OBVIOUS
<1>2. FlowOK(old) /\ WalletsOK /\ StorageOK
  BY <1>1 DEF IInv
<1>3. /\ UNCHANGED wallets => Keeps /\ WalletsOK'
      /\ Keeps /\ UNCHANGED <<coin, stored>> => StorageOK'
  BY <1>2, KeepsSame, Survive
<1>4. ASSUME NEW from \in Accounts, SimulateStart(f, from)
      PROVE  IInv'
  <2>1. PICK t : t = [old EXCEPT !.pc = "wallet", !.from = from, !.coin = coin]
    OBVIOUS
  <2>2. FlowOK(t)
    BY <1>2, <2>1 DEF FlowOK, StorageOK, Transaction
  <2>3. flow' = [flow EXCEPT ![f] = t]
    BY <1>1, <1>4, <2>1 DEF SimulateStart
  <2> QED BY <1>3, <1>4, <2>2, <2>3, Survive, FlowLocal DEF SimulateStart
<1>5. CASE SimulateReadsWallet(f)
  <2>1. PICK t : t = [old EXCEPT
                        !.wallet = stored,
                        !.pc = IF stored # None /\ TokenOn(old.coin, stored.network) # None
                               THEN "update" ELSE "done"]
    OBVIOUS
  <2>2. FlowOK(t)
    BY <1>2, <2>1 DEF FlowOK, StorageOK, Transaction
  <2>3. flow' = [flow EXCEPT ![f] = t]
    BY <1>1, <1>5, <2>1 DEF SimulateReadsWallet
  <2> QED BY <1>3, <1>5, <2>2, <2>3, Survive, FlowLocal DEF SimulateReadsWallet
<1>6. CASE SimulateUpdate(f)
  <2>1. PICK w : w = old.wallet
    OBVIOUS
  <2>2. w.id \in DOMAIN wallets /\ w.network \in Networks
    BY <1>1, <1>2, <1>6, <2>1
       DEF SimulateUpdate, FlowOK, Transaction, MaybeStored, Stored, Refers
  <2>3. Rewrites(w.id, w.network, TokenOn(old.coin, w.network))
    BY <1>1, <1>6, <2>1 DEF SimulateUpdate, Rewrites
  <2>4. WalletsOK' /\ Keeps
    BY <1>2, <2>2, <2>3, Tokens, Rewritten
  <2>5. PICK t : t = [old EXCEPT !.pc = "quote"]
    OBVIOUS
  <2>6. FlowOK(t) /\ flow' = [flow EXCEPT ![f] = t]
    BY <1>1, <1>2, <1>6, <2>5 DEF SimulateUpdate, FlowOK, Transaction
  <2> QED BY <1>3, <1>6, <2>4, <2>6, Survive, FlowLocal DEF SimulateUpdate
<1>7. CASE SimulateQuote(f)
  <2>1. PICK i \in Found(flow[f].from) :
          flow' = [flow EXCEPT ![f].pc = "shown", ![f].quote = wallets[i].token]
    BY <1>7 DEF SimulateQuote
  <2>2. wallets[i].token \in MaybeToken
    BY <1>2, <2>1, FoundWallets
  <2>3. PICK t : t = [old EXCEPT !.pc = "shown", !.quote = wallets[i].token]
    OBVIOUS
  <2>4. FlowOK(t) /\ flow' = [flow EXCEPT ![f] = t]
    BY <1>1, <1>2, <2>1, <2>2, <2>3 DEF FlowOK, Transaction
  <2> QED BY <1>3, <1>7, <2>4, Survive, FlowLocal DEF SimulateQuote
<1>8. CASE Submit(f)
  <2>1. PICK t : t = [old EXCEPT !.pc = "relay"]
    OBVIOUS
  <2>2. FlowOK(t) /\ flow' = [flow EXCEPT ![f] = t]
    BY <1>1, <1>2, <1>8, <2>1 DEF Submit, FlowOK, Transaction
  <2> QED BY <1>3, <1>8, <2>2, Survive, FlowLocal DEF Submit
<1>9. CASE RelaySwap(f)
  <2>1. PICK i \in Found(flow[f].from) :
          flow' = [flow EXCEPT ![f].pc = "done", ![f].relayed = wallets[i].token]
    BY <1>9 DEF RelaySwap
  <2>2. wallets[i].token \in MaybeToken
    BY <1>2, <2>1, FoundWallets
  <2>3. PICK t : t = [old EXCEPT !.pc = "done", !.relayed = wallets[i].token]
    OBVIOUS
  <2>4. FlowOK(t) /\ flow' = [flow EXCEPT ![f] = t]
    BY <1>1, <1>2, <2>1, <2>2, <2>3 DEF FlowOK, Transaction
  <2> QED BY <1>3, <1>9, <2>4, Survive, FlowLocal DEF RelaySwap
<1>10. CASE FlowFails(f)
  <2>1. PICK t : t = [old EXCEPT !.pc = "done"]
    OBVIOUS
  <2>2. FlowOK(t) /\ flow' = [flow EXCEPT ![f] = t]
    BY <1>1, <1>2, <1>10, <2>1 DEF FlowFails, FlowOK, Transaction
  <2> QED BY <1>3, <1>10, <2>2, Survive, FlowLocal DEF FlowFails
<1> QED BY <1>4, <1>5, <1>6, <1>7, <1>8, <1>9, <1>10 DEF FlowStep

-----------------------------------------------------------------------------
LEMMA Initially ==
  ASSUME Init
  PROVE  IInv
<1>1. WalletsOK
  <2>1. CASE wallets = <<>>
    BY <2>1 DEF WalletsOK, TokenOfNetwork
  <2>2. ASSUME NEW w \in [address : Accounts, network : {Home}, token : Coins],
               wallets = <<w>>
        PROVE  WalletsOK
    <3>1. w \in Wallet /\ w.network = Home
      BY WalletSyncAssumption DEF Wallet, MaybeToken
    <3>2. wallets \in Seq(Wallet) /\ DOMAIN wallets = {1} /\ wallets[1] = w
      BY <2>2, <3>1
    <3> QED BY <3>1, <3>2 DEF WalletsOK, TokenOfNetwork
  <2> QED BY <2>1, <2>2 DEF Init
<1>2. StorageOK
  BY DEF Init, StorageOK, MaybeStored
<1>3. \A c \in Connects : ConnOK(conn[c])
  BY WalletSyncAssumption DEF Init, ConnOK, Handler, MaybeToken
<1>4. \A f \in Flows : FlowOK(flow[f])
  BY DEF Init, FlowOK, Transaction, MaybeStored, MaybeToken
<1> QED BY <1>1, <1>2, <1>3, <1>4 DEF Init, IInv

LEMMA Kept ==
  ASSUME IInv, [Next]_vars
  PROVE  IInv'
<1>1. ASSUME NEW c \in Choices, SetCoin(c)
      PROVE  IInv'
  <2>1. Keeps /\ WalletsOK'
    BY <1>1, KeepsSame DEF SetCoin, IInv
  <2>2. StorageOK'
    BY <1>1, <2>1 DEF SetCoin, IInv, StorageOK, Keeps
  <2> QED BY <1>1, <2>1, <2>2, Survive DEF SetCoin, IInv
<1>2. CASE UNCHANGED vars
  BY <1>2, KeepsSame, Survive DEF vars, IInv
<1> QED BY <1>1, <1>2, ConnectKeeps, FlowKeeps DEF Next

LEMMA Always == Spec => []IInv
BY Initially, Kept, PTL DEF Spec

\* Storage, wallets and handlers keep their shape, however handlers overlap and
\* whenever they end (background/messages/wallet/connect.ts, tx/simulate.ts,
\* tx/submit.ts and backend wallet.service.ts).
THEOREM TypeCorrect == Spec => []TypeOK
<1>1. IInv => TypeOK
  BY DEF IInv, WalletsOK, StorageOK, ConnOK, FlowOK, TypeOK
<1> QED BY <1>1, Always, PTL

\* The id in storage is that of a wallet of the backend with the stored address:
\* wallet/connect stores what the backend answered, and nothing removes a wallet.
THEOREM StoredKnown == Spec => []StoredWalletKnown
<1>1. IInv => StoredWalletKnown
  BY DEF IInv, StorageOK, StoredWalletKnown, Refers
<1> QED BY <1>1, Always, PTL

\* A wallet's token is a token of its network, for any overlap of the PUTs of
\* wallet/connect and tx/simulate.
THEOREM TokensOfNetwork == Spec => []TokenOfNetwork
<1>1. IInv => TokenOfNetwork
  BY DEF IInv, WalletsOK
<1> QED BY <1>1, Always, PTL

-----------------------------------------------------------------------------
(* Handlers one at a time, on the backend's network.                       *)

Serial == MaxBusy = 1 /\ Networks = {Home}

ConnBusy(c) == conn[c].pc \in {"find", "save", "store"}
FlowBusy(f) == flow[f].pc \in {"wallet", "update", "quote", "relay"}

\* One handler is busy, at most.
Alone ==
  /\ \A c, d \in Connects : ConnBusy(c) /\ ConnBusy(d) => c = d
  /\ \A f, g \in Flows : FlowBusy(f) /\ FlowBusy(g) => f = g
  /\ \A c \in Connects, f \in Flows : ~(ConnBusy(c) /\ FlowBusy(f))

Distinct == \A i, j \in DOMAIN wallets : wallets[i].address = wallets[j].address => i = j

\* A wallet that was not found is still not there when it is created.
StillMissing ==
  \A c \in Connects : conn[c].pc = "save" /\ conn[c].id = 0 =>
    \A i \in DOMAIN wallets : wallets[i].address # conn[c].address

\* The coin of the simulation is in the stored wallet until the quote is made of it.
CoinWritten(t) ==
  /\ t.pc = "update" => t.wallet # None /\ t.coin \in Coins
  /\ t.pc = "quote" => /\ t.wallet # None /\ t.coin \in Coins
                       /\ wallets[t.wallet.id].token = t.coin
  /\ t.pc \in {"idle", "wallet", "update", "quote"} => t.quote = None
  /\ t.quote # None /\ t.wallet.address = t.from => t.quote = t.coin

SInv == IInv /\ Alone /\ Distinct /\ StillMissing /\ \A f \in Flows : CoinWritten(flow[f])

\* A handler starts only when no other one is busy.
LEMMA FreeAlone ==
  ASSUME Serial, Alone, Free
  PROVE  Busy = {}
<1> SUFFICES ASSUME NEW x \in Busy
             PROVE  FALSE
  OBVIOUS
<1>1. Busy \subseteq {x}
  BY Z3 DEF Busy, Alone, ConnBusy, FlowBusy
<1>2. Busy = {x}
  BY <1>1
<1>3. Cardinality({x}) = 1
  BY FS_Singleton
<1> QED BY <1>2, <1>3 DEF Free, Serial

LEMMA SerialInitially ==
  ASSUME Init
  PROVE  SInv
<1>1. IInv
  BY Initially
<1>2. Distinct
  <2>1. CASE wallets = <<>>
    BY <2>1 DEF Distinct
  <2>2. ASSUME NEW w, wallets = <<w>>
        PROVE  Distinct
    BY <2>2 DEF Distinct
  <2> QED BY <2>1, <2>2 DEF Init
<1>3. /\ \A c \in Connects : conn[c].pc = "idle"
      /\ \A f \in Flows : flow[f].pc = "idle" /\ flow[f].quote = None
  BY DEF Init
<1> QED BY <1>1, <1>2, <1>3 DEF SInv, Alone, ConnBusy, FlowBusy, StillMissing, CoinWritten

LEMMA ConnectSerial ==
  ASSUME Serial, SInv, NEW c \in Connects, ConnectStep(c)
  PROVE  SInv'
<1>1. IInv'
  BY Kept DEF SInv, Next
<1>2. /\ UNCHANGED flow
      /\ \A d \in Connects \ {c} : conn'[d] = conn[d]
      /\ ConnBusy(c) \/ Free
  BY DEF SInv, IInv, ConnectStep, ConnectStart, ConnectFind, ConnectCreate, ConnectUpdate,
         ConnectStore, ConnectFails, ConnBusy
\* Nobody else is busy.
<1>3. /\ \A d \in Connects \ {c} : ~ConnBusy(d) /\ ~ConnBusy(d)'
      /\ \A f \in Flows : ~FlowBusy(f) /\ ~FlowBusy(f)'
  <2>1. Free => Busy = {}
    BY FreeAlone DEF SInv
  <2>2. /\ \A d \in Connects \ {c} : ~ConnBusy(d)
        /\ \A f \in Flows : ~FlowBusy(f)
    BY <1>2, <2>1 DEF SInv, Alone, Busy, ConnBusy, FlowBusy
  <2> QED BY <1>2, <2>2 DEF ConnBusy, FlowBusy
<1>4. Alone'
  BY <1>3 DEF Alone
<1>5. conn[c] \in Handler /\ wallets \in Seq(Wallet) /\ conn = [d \in Connects |-> conn[d]]
  BY DEF SInv, IInv, ConnOK, WalletsOK
<1>6. Distinct' /\ StillMissing'
  <2>1. \A d \in Connects \ {c} : conn'[d].pc # "save"
    BY <1>3 DEF ConnBusy
  <2>2. ASSUME UNCHANGED wallets,
               conn'[c].pc = "save" /\ conn'[c].id = 0 =>
                 \A i \in DOMAIN wallets : wallets[i].address # conn'[c].address
        PROVE  Distinct' /\ StillMissing'
    BY <2>1, <2>2 DEF SInv, Distinct, StillMissing
  <2>3. ASSUME NEW address \in Accounts, NEW network \in Networks,
               ConnectStart(c, address, network)
        PROVE  Distinct' /\ StillMissing'
    <3>1. conn'[c].pc # "save"
      BY <1>5, <2>3 DEF ConnectStart
    <3> QED BY <2>2, <2>3, <3>1 DEF ConnectStart
  <2>4. CASE ConnectFind(c)
    <3>1. PICK i \in IF Found(conn[c].address) = {} THEN {0} ELSE Found(conn[c].address) :
            conn' = [conn EXCEPT ![c].pc = "save", ![c].id = i]
      BY <2>4 DEF ConnectFind
    <3>2. conn'[c].id = i /\ conn'[c].address = conn[c].address
      BY <1>5, <3>1 DEF Handler
    <3>3. i = 0 => Found(conn[c].address) = {}
      BY <1>5, <3>1 DEF Found
    <3>4. \A k \in DOMAIN wallets : wallets[k].network = Home
      <4>1. \A k \in DOMAIN wallets : wallets[k] \in Wallet
        BY <1>5
      <4> QED BY <4>1 DEF Wallet, Serial
    <3> QED BY <2>2, <2>4, <3>2, <3>3, <3>4 DEF ConnectFind, Found
  <2>5. CASE ConnectCreate(c)
    <3>1. /\ conn'[c].pc = "store"
          /\ \A k \in DOMAIN wallets : wallets[k].address # conn[c].address
      BY <1>5, <2>5 DEF ConnectCreate, Handler, SInv, StillMissing
    <3>2. PICK w : w = [address |-> conn[c].address, network |-> conn[c].network,
                        token |-> conn[c].token]
      OBVIOUS
    <3>3. wallets' = Append(wallets, w) /\ w.address = conn[c].address
      BY <2>5, <3>2 DEF ConnectCreate
    <3>4. /\ DOMAIN wallets = 1 .. Len(wallets) /\ DOMAIN wallets' = 1 .. (Len(wallets) + 1)
          /\ \A k \in DOMAIN wallets : wallets'[k] = wallets[k]
          /\ wallets'[Len(wallets) + 1] = w /\ Len(wallets) \in Nat
      BY <1>5, <3>3
    <3>5. Distinct'
      BY <3>1, <3>3, <3>4 DEF SInv, Distinct
    <3> QED BY <2>1, <3>1, <3>5 DEF StillMissing
  <2>6. CASE ConnectUpdate(c)
    <3>1. conn'[c].pc = "store"
      BY <1>5, <2>6 DEF ConnectUpdate, Handler
    <3>2. /\ DOMAIN wallets' = DOMAIN wallets
          /\ \A k \in DOMAIN wallets : wallets'[k].address = wallets[k].address
      BY <1>5, <2>6 DEF ConnectUpdate, Wallet
    <3> QED BY <2>1, <3>1, <3>2 DEF SInv, Distinct, StillMissing
  <2>7. CASE ConnectStore(c) \/ ConnectFails(c)
    <3>1. conn'[c].pc = "done" /\ UNCHANGED wallets
      BY <1>5, <2>7 DEF ConnectStore, ConnectFails, Handler
    <3> QED BY <2>2, <3>1
  <2> QED BY <2>3, <2>4, <2>5, <2>6, <2>7 DEF ConnectStep
<1>7. \A f \in Flows : CoinWritten(flow[f])'
  BY <1>2, <1>3 DEF SInv, CoinWritten, FlowBusy
<1> QED BY <1>1, <1>4, <1>6, <1>7 DEF SInv

LEMMA FlowSerial ==
  ASSUME Serial, SInv, NEW f \in Flows, FlowStep(f)
  PROVE  SInv'
<1>1. IInv'
  BY Kept DEF SInv, Next
<1>2. /\ UNCHANGED conn
      /\ \A g \in Flows \ {f} : flow'[g] = flow[g]
      /\ flow[f].pc = "shown" => ~FlowBusy(f)' \/ Free
      /\ FlowBusy(f) \/ Free \/ flow[f].pc = "shown"
  BY DEF SInv, IInv, FlowOK, Transaction, FlowStep, SimulateStart, SimulateReadsWallet,
         SimulateUpdate, SimulateQuote, Submit, RelaySwap, FlowFails, FlowBusy
<1>3. Free => Busy = {}
  BY FreeAlone DEF SInv
\* Nobody else is busy, or a shown transaction ends.
<1>4. \/ /\ \A g \in Flows \ {f} : ~FlowBusy(g) /\ ~FlowBusy(g)'
         /\ \A c \in Connects : ~ConnBusy(c) /\ ~ConnBusy(c)'
      \/ flow[f].pc = "shown" /\ ~FlowBusy(f)'
  <2>1. \/ /\ \A g \in Flows \ {f} : ~FlowBusy(g)
           /\ \A c \in Connects : ~ConnBusy(c)
        \/ flow[f].pc = "shown" /\ ~FlowBusy(f)'
    BY <1>2, <1>3 DEF SInv, Alone, Busy, ConnBusy, FlowBusy
  <2> QED BY <1>2, <2>1 DEF ConnBusy, FlowBusy
<1>5. Alone'
  <2>1. CASE flow[f].pc = "shown" /\ ~FlowBusy(f)'
    BY <1>2, <2>1 DEF SInv, Alone, ConnBusy, FlowBusy
  <2> QED BY <1>2, <1>4, <2>1 DEF Alone
<1>6. FlowOK(flow[f]) /\ wallets \in Seq(Wallet) /\ flow = [g \in Flows |-> flow[g]]
  BY DEF SInv, IInv, WalletsOK
<1>7. /\ DOMAIN wallets' = DOMAIN wallets
      /\ \A k \in DOMAIN wallets : wallets'[k].address = wallets[k].address
  <2>1. CASE UNCHANGED wallets
    BY <2>1
  <2>2. CASE SimulateUpdate(f)
    <3>1. \A k \in DOMAIN wallets : wallets[k] \in Wallet
      BY <1>6
    <3> QED BY <1>6, <2>2, <3>1 DEF SimulateUpdate, Wallet
  <2> QED BY <2>1, <2>2 DEF FlowStep, SimulateStart, SimulateReadsWallet,
                            SimulateQuote, Submit, RelaySwap, FlowFails
<1>8. Distinct' /\ StillMissing'
  BY <1>2, <1>7 DEF SInv, Distinct, StillMissing
<1>9. \A g \in Flows \ {f} : CoinWritten(flow[g])'
  <2> SUFFICES ASSUME NEW g \in Flows \ {f}
               PROVE  CoinWritten(flow[g])'
    OBVIOUS
  <2>1. CASE UNCHANGED wallets
    BY <1>2, <2>1 DEF SInv, CoinWritten
  <2>2. CASE flow[f].pc = "update"
    BY <1>2, <1>4, <2>2 DEF SInv, CoinWritten, FlowBusy
  <2> QED BY <2>1, <2>2 DEF FlowStep, SimulateStart, SimulateReadsWallet, SimulateUpdate,
                            SimulateQuote, Submit, RelaySwap, FlowFails
<1>10. CoinWritten(flow[f])'
  <2>1. PICK old : old = flow[f]
    OBVIOUS
  <2>2. old \in Transaction /\ CoinWritten(old) /\ FlowOK(old)
    BY <1>6, <2>1 DEF FlowOK, SInv
  <2>3. ASSUME NEW from \in Accounts, SimulateStart(f, from)
        PROVE  CoinWritten(flow[f])'
    BY <1>6, <2>1, <2>2, <2>3 DEF SimulateStart, CoinWritten, Transaction
  <2>4. CASE SimulateReadsWallet(f)
    <3>1. old.coin \in Choices \cup {None}
      BY <2>2 DEF Transaction
    <3>2. \A network : TokenOn(old.coin, network) # None => old.coin \in Coins
      BY DEF TokenOn
    <3> QED BY <1>6, <2>1, <2>2, <2>4, <3>2 DEF SimulateReadsWallet, CoinWritten, Transaction
  <2>5. CASE SimulateUpdate(f)
    <3>1. /\ old.wallet # None /\ old.coin \in Coins /\ old.wallet.id \in DOMAIN wallets
          /\ old.wallet.network = Home /\ old.pc = "update" /\ old.quote = None
      BY <2>1, <2>2, <2>5 DEF SimulateUpdate, CoinWritten, FlowOK, Refers, Transaction,
                              MaybeStored, Stored, Serial
    <3>2. TokenOn(old.coin, Home) = old.coin
      BY <3>1 DEF TokenOn
    <3>3. wallets'[old.wallet.id].token = old.coin
      <4>1. wallets[old.wallet.id] \in Wallet
        BY <1>6, <3>1
      <4> QED BY <1>6, <2>1, <2>5, <3>1, <3>2, <4>1 DEF SimulateUpdate, Wallet
    <3>4. /\ flow'[f].pc = "quote" /\ flow'[f].wallet = old.wallet /\ flow'[f].coin = old.coin
          /\ flow'[f].quote = None
      BY <1>6, <2>1, <2>2, <2>5, <3>1 DEF SimulateUpdate, Transaction
    <3> QED BY <3>1, <3>3, <3>4 DEF CoinWritten
  <2>6. CASE SimulateQuote(f)
    <3>1. PICK i \in Found(old.from) :
            flow' = [flow EXCEPT ![f].pc = "shown", ![f].quote = wallets[i].token]
      BY <2>1, <2>6 DEF SimulateQuote
    <3>2. /\ i \in DOMAIN wallets /\ wallets[i].address = old.from
          /\ old.wallet.id \in DOMAIN wallets
          /\ wallets[old.wallet.id].address = old.wallet.address
          /\ wallets[old.wallet.id].token = old.coin
      BY <2>1, <2>2, <2>6, <3>1 DEF Found, SimulateQuote, CoinWritten, FlowOK, Refers
    <3>3. old.wallet.address = old.from => wallets[i].token = old.coin
      BY <3>2 DEF SInv, Distinct
    <3>4. /\ flow'[f].pc = "shown" /\ flow'[f].wallet = old.wallet /\ flow'[f].coin = old.coin
          /\ flow'[f].from = old.from /\ flow'[f].quote = wallets[i].token
      BY <1>6, <2>1, <2>2, <3>1 DEF Transaction
    <3> QED BY <3>3, <3>4 DEF CoinWritten
  <2>7. CASE Submit(f) \/ RelaySwap(f) \/ FlowFails(f)
    <3>1. /\ flow'[f].pc \in {"relay", "done"} /\ flow'[f].wallet = old.wallet
          /\ flow'[f].coin = old.coin /\ flow'[f].from = old.from
          /\ flow'[f].quote = old.quote
      <4>1. CASE Submit(f)
        BY <1>6, <2>1, <2>2, <4>1 DEF Submit, Transaction
      <4>2. CASE RelaySwap(f)
        BY <1>6, <2>1, <2>2, <4>2 DEF RelaySwap, Transaction
      <4>3. CASE FlowFails(f)
        BY <1>6, <2>1, <2>2, <4>3 DEF FlowFails, Transaction
      <4> QED BY <2>7, <4>1, <4>2, <4>3
    <3> QED BY <2>2, <3>1 DEF CoinWritten
  <2> QED BY <2>3, <2>4, <2>5, <2>6, <2>7 DEF FlowStep
<1> QED BY <1>1, <1>5, <1>8, <1>9, <1>10 DEF SInv

LEMMA SerialKept ==
  ASSUME Serial, SInv, [Next]_vars
  PROVE  SInv'
<1>1. IInv'
  BY Kept DEF SInv
<1>2. ASSUME UNCHANGED <<wallets, conn, flow>>
      PROVE  SInv'
  BY <1>1, <1>2 DEF SInv, Alone, Distinct, StillMissing, CoinWritten, ConnBusy, FlowBusy
<1>3. ASSUME NEW c \in Choices, SetCoin(c)
      PROVE  SInv'
  BY <1>2, <1>3 DEF SetCoin
<1>4. CASE UNCHANGED vars
  BY <1>2, <1>4 DEF vars
<1> QED BY <1>3, <1>4, ConnectSerial, FlowSerial DEF Next

\* Every step of the popup and the background is one of WalletSync, or leaves it alone.
LEMMA PopupSteps ==
  ASSUME [PNext]_pvars
  PROVE  [Next]_vars
BY DEF PNext, GetCoin, GetNothing, PutCoin, pvars, Next

LEMMA SerialAlways ==
  ASSUME Serial
  PROVE  PSpec => []SInv
<1>1. PInit => SInv
  BY SerialInitially DEF PInit
<1>2. SInv /\ [PNext]_pvars => SInv'
  BY PopupSteps, SerialKept
<1> QED BY <1>1, <1>2, PTL DEF PSpec

\* With handlers one at a time on the backend's network, an account is served from
\* one wallet, for any number of tabs, accounts and coins and wherever a handler is
\* cut short: what wallet/connect did not find is still missing when it creates it
\* (find, then create, in wallet/connect.ts; findOne of wallet.service.ts).
THEOREM ServedFromOne ==
  ASSUME Serial
  PROVE  PSpec => []OneServed
<1>1. SInv => OneServed
  BY DEF SInv, Distinct, OneServed
<1> QED BY <1>1, SerialAlways, PTL

\* Under the same conditions a transaction of the stored account is quoted in the
\* coin selected when its simulation began: nobody rewrites the wallet between the
\* update of tx/simulate.ts and the backend's look-up by address (app.service.ts).
THEOREM QuotedInChosenCoin ==
  ASSUME Serial
  PROVE  PSpec => []QuoteInChosenCoin
<1>1. SInv => QuoteInChosenCoin
  BY DEF SInv, CoinWritten, QuoteInChosenCoin
<1> QED BY <1>1, SerialAlways, PTL

-----------------------------------------------------------------------------
(* The popup: the invariant of the composed specification.                 *)

Current == IF coin = None THEN Eth ELSE coin

\* Before a coin is selected, wallets are stored without a token.
Tokenless ==
  coin = None => /\ stored # None => stored.token = None
                 /\ \A c \in Connects : conn[c].token = None

\* The popup is ahead of the storage by the messages on their way only.
Following ==
  /\ Asked => /\ popup.answer = None /\ popup.selectedCoin = Eth
              /\ inbox # <<>> /\ inbox[Len(inbox)] = Get
              /\ \A i \in 1 .. (Len(inbox) - 1) : inbox[i] # Get
  /\ ~Asked /\ popup.answer # None => inbox = <<>> /\ popup.answer = Current
  /\ ~Asked /\ popup.answer = None =>
       IF inbox = <<>> THEN popup.selectedCoin = Current
                       ELSE inbox[Len(inbox)] = popup.selectedCoin

ShapeOK == popup \in Popup /\ inbox \in Seq(Message)

PInv ==
  /\ IInv /\ ShapeOK /\ Tokenless
  /\ popup.step = "closed" => ~Asked /\ popup.answer = None /\ popup.topUp = "no"
  /\ popup.step # "closed" /\ ~popup.early => Following

-----------------------------------------------------------------------------
(* Steps of the popup alone.                                               *)

\* A step that changes neither what is shown nor what is on its way.
LEMMA Elsewhere ==
  ASSUME PInv, UNCHANGED <<vars, inbox>>, popup.step # "closed",
         NEW step \in Steps, NEW topUp \in {"no", "loading", "failed"},
         popup' = [popup EXCEPT !.step = step, !.topUp = topUp]
  PROVE  PInv'
<1>1. IInv' /\ Tokenless'
  <2>1. IInv'
    BY Kept DEF PInv
  <2> QED BY <2>1 DEF PInv, Tokenless, vars
<1>2. /\ popup' \in Popup /\ popup'.step = step
      /\ popup'.selectedCoin = popup.selectedCoin /\ popup'.answer = popup.answer
      /\ popup'.early = popup.early
  BY DEF PInv, ShapeOK, Popup, Steps
<1>3. Asked' = Asked /\ Current' = Current
  BY DEF Asked, Current, vars
<1> QED BY <1>1, <1>2, <1>3 DEF PInv, ShapeOK, Following, Steps

LEMMA OpenKeeps ==
  ASSUME PInv, Open, UNCHANGED vars
  PROVE  PInv'
<1>1. IInv' /\ Tokenless'
  <2>1. IInv'
    BY Kept DEF PInv
  <2> QED BY <2>1 DEF PInv, Tokenless, vars
<1>2. /\ popup' \in Popup /\ popup'.step = "Primary" /\ popup'.answer = None
      /\ popup'.selectedCoin = Eth
  BY DEF Open, Fresh, Popup, Steps, Choices
<1>3. /\ inbox \in Seq(Message) /\ \A i \in DOMAIN inbox : inbox[i] # Get
      /\ inbox' = Append(inbox, Get)
  BY DEF PInv, ShapeOK, Open, Asked
<1>4. /\ inbox' \in Seq(Message) /\ Len(inbox') = Len(inbox) + 1
      /\ inbox'[Len(inbox')] = Get
      /\ \A i \in 1 .. Len(inbox) : inbox'[i] # Get
      /\ inbox' # <<>>
  BY <1>3 DEF Message
<1>5. Asked'
  BY <1>4 DEF Asked
<1>6. Following'
  BY <1>2, <1>4, <1>5 DEF Following
<1> QED BY <1>1, <1>2, <1>4, <1>6 DEF PInv, ShapeOK

LEMMA CloseKeeps ==
  ASSUME PInv, Close, UNCHANGED vars
  PROVE  PInv'
<1>1. IInv' /\ Tokenless'
  <2>1. IInv'
    BY Kept DEF PInv
  <2> QED BY <2>1 DEF PInv, Tokenless, vars
<1>2. /\ popup' \in Popup /\ popup'.step = "closed" /\ popup'.answer = None
      /\ popup'.topUp = "no"
  BY DEF Close, Fresh, Popup, Choices
<1>3. /\ inbox \in Seq(Message)
      /\ inbox' = [i \in DOMAIN inbox |-> IF inbox[i] = Get THEN GetLost ELSE inbox[i]]
  BY DEF PInv, ShapeOK, Close
<1>4. inbox' \in Seq(Message)
  BY <1>3 DEF Message
<1>5. ~Asked'
  BY <1>3, PopupAssumption DEF Asked
<1> QED BY <1>1, <1>2, <1>4, <1>5 DEF PInv, ShapeOK

LEMMA ChooseKeeps ==
  ASSUME PInv, NEW c \in Choices, onCoinSelectFinal(c), UNCHANGED vars
  PROVE  PInv'
<1>1. IInv' /\ Tokenless'
  <2>1. IInv'
    BY Kept DEF PInv
  <2> QED BY <2>1 DEF PInv, Tokenless, vars
<1>2. /\ popup' \in Popup /\ popup'.step = "Primary" /\ popup'.answer = popup.answer
      /\ popup'.selectedCoin = c
      /\ ~popup'.early => ~popup.early /\ ~Asked /\ popup.answer = None
  BY DEF onCoinSelectFinal, PInv, ShapeOK, Popup, Steps
<1>3. /\ inbox \in Seq(Message) /\ inbox' = Append(inbox, c) /\ c \in Message /\ c # Get
  BY PopupAssumption DEF PInv, ShapeOK, onCoinSelectFinal, Message
<1>4. /\ inbox' \in Seq(Message) /\ inbox' # <<>> /\ inbox'[Len(inbox')] = c
      /\ Asked' => Asked
  BY <1>3 DEF Asked
<1> QED BY <1>1, <1>2, <1>4 DEF PInv, ShapeOK, Following

LEMMA ArrivalKeeps ==
  ASSUME PInv, CoinArrives, UNCHANGED vars
  PROVE  PInv'
<1>1. IInv' /\ Tokenless'
  <2>1. IInv'
    BY Kept DEF PInv
  <2> QED BY <2>1 DEF PInv, Tokenless, vars
<1>2. /\ popup' \in Popup /\ popup'.answer = None /\ popup'.selectedCoin = popup.answer
      /\ popup'.step = popup.step /\ popup'.early = popup.early /\ popup.answer # None
      /\ popup.step # "closed"
  BY DEF CoinArrives, PInv, ShapeOK, Popup
<1>3. Asked' = Asked /\ Current' = Current /\ UNCHANGED inbox
  BY DEF Asked, Current, vars, CoinArrives
<1> QED BY <1>1, <1>2, <1>3 DEF PInv, ShapeOK, Following

LEMMA PopupKeeps ==
  ASSUME PInv, PopupStep, UNCHANGED vars
  PROVE  PInv'
<1>1. popup \in Popup
  BY DEF PInv, ShapeOK
<1>2. CASE onCoinSelectStart
  <2>1. popup' = [popup EXCEPT !.step = "CurrencySelect", !.topUp = popup.topUp]
    BY <1>1, <1>2 DEF onCoinSelectStart, Popup
  <2> QED BY <1>1, <1>2, <2>1, Elsewhere DEF onCoinSelectStart, Popup, Steps
<1>3. CASE onBackButton
  <2>1. popup' = [popup EXCEPT !.step = "Primary", !.topUp = popup.topUp]
    BY <1>1, <1>3 DEF onBackButton, Popup
  <2> QED BY <1>1, <1>3, <2>1, Elsewhere DEF onBackButton, Popup, Steps
<1>4. CASE onTopUpGasStart
  <2>1. popup' = [popup EXCEPT !.step = "TopUp", !.topUp = popup.topUp]
    BY <1>1, <1>4 DEF onTopUpGasStart, Popup
  <2> QED BY <1>1, <1>4, <2>1, Elsewhere DEF onTopUpGasStart, Popup, Steps
<1>5. CASE onTopUpGasFinal
  <2>1. popup' = [popup EXCEPT !.step = "TopUp", !.topUp = "loading"]
    BY <1>1, <1>5 DEF onTopUpGasFinal, Popup
  <2> QED BY <1>1, <1>5, <2>1, Elsewhere DEF onTopUpGasFinal, Popup, Steps
<1>6. ASSUME popup.step # "closed", TopUpTimer \/ TopUpFails
      PROVE  PInv'
  <2>1. CASE TopUpTimer
    <3>1. popup' = [popup EXCEPT !.step = "Primary", !.topUp = "no"]
      BY <1>1, <2>1 DEF TopUpTimer, Popup
    <3> QED BY <1>1, <1>6, <2>1, <3>1, Elsewhere DEF TopUpTimer, Popup, Steps
  <2>2. CASE TopUpFails
    <3>1. popup' = [popup EXCEPT !.step = popup.step, !.topUp = "failed"]
      BY <1>1, <2>2 DEF TopUpFails, Popup
    <3>2. popup.step \in Steps
      BY <1>1, <1>6 DEF Popup
    <3> QED BY <1>6, <2>2, <3>1, <3>2, Elsewhere DEF TopUpFails
  <2> QED BY <1>6, <2>1, <2>2
<1>7. TopUpTimer \/ TopUpFails => popup.step # "closed"
  BY DEF PInv, TopUpTimer, TopUpFails
<1> QED BY <1>2, <1>3, <1>4, <1>5, <1>6, <1>7, OpenKeeps, CloseKeeps, ChooseKeeps, ArrivalKeeps
        DEF PopupStep

-----------------------------------------------------------------------------
(* Steps of the background.                                                *)

\* The first message is handled, and the rest moves up.
LEMMA Handled ==
  ASSUME inbox \in Seq(Message), inbox # <<>>, inbox' = Tail(inbox)
  PROVE  /\ inbox' \in Seq(Message) /\ Len(inbox') = Len(inbox) - 1
         /\ Len(inbox) \in Nat \ {0} /\ Head(inbox) \in Message /\ Head(inbox) = inbox[1]
         /\ \A i \in 1 .. Len(inbox') : inbox'[i] = inbox[i + 1]
         /\ Len(inbox) = 1 <=> inbox' = <<>>
         /\ inbox' # <<>> => inbox'[Len(inbox')] = inbox[Len(inbox)]
         /\ Head(inbox) # Get => (Asked' <=> Asked)
<1>1. /\ Len(inbox) \in Nat \ {0} /\ DOMAIN inbox = 1 .. Len(inbox)
      /\ inbox' \in Seq(Message) /\ Len(inbox') = Len(inbox) - 1
      /\ DOMAIN inbox' = 1 .. Len(inbox')
      /\ Head(inbox) = inbox[1] /\ Head(inbox) \in Message
      /\ \A i \in 1 .. Len(inbox') : inbox'[i] = inbox[i + 1]
  OBVIOUS
<1>2. Len(inbox) = 1 <=> inbox' = <<>>
  BY <1>1
<1>3. inbox' # <<>> => inbox'[Len(inbox')] = inbox[Len(inbox)]
  BY <1>1, <1>2
<1>4. Asked' => Asked
  BY <1>1 DEF Asked
<1>5. ASSUME Head(inbox) # Get, Asked
      PROVE  Asked'
  <2>1. PICK i \in 1 .. Len(inbox) : inbox[i] = Get
    BY <1>1, <1>5 DEF Asked
  <2>2. i - 1 \in 1 .. Len(inbox') /\ inbox'[i - 1] = Get
    BY <1>1, <1>5, <2>1
  <2> QED BY <1>1, <2>2 DEF Asked
<1> QED BY <1>1, <1>2, <1>3, <1>4, <1>5

\* What coin/get answers when no coin is selected.
LEMMA Derived ==
  ASSUME Tokenless, coin = None, NEW c \in CoinFromWallet
  PROVE  c \in {Eth, None}
BY DEF Tokenless, CoinFromWallet

LEMMA AnswerTyped ==
  ASSUME StorageOK, NEW c \in IF coin # None THEN {coin} ELSE CoinFromWallet
  PROVE  c \in Choices \cup {None}
BY DEF StorageOK, CoinFromWallet, Choices

LEMMA GetCoinKeeps ==
  ASSUME PInv, GetCoin
  PROVE  PInv'
<1>1. IInv' /\ Tokenless'
  <2>1. IInv'
    BY Kept DEF PInv, GetCoin
  <2> QED BY <2>1 DEF PInv, Tokenless, vars, GetCoin
<1>2. PICK c \in IF coin # None THEN {coin} ELSE CoinFromWallet :
        popup' = [popup EXCEPT !.answer = c]
  BY DEF GetCoin
<1>3. c \in Choices \cup {None}
  BY <1>2, AnswerTyped DEF PInv, IInv
<1>4. /\ popup' \in Popup /\ popup'.answer = c /\ popup'.selectedCoin = popup.selectedCoin
      /\ popup'.step = popup.step /\ popup'.early = popup.early
  BY <1>2, <1>3 DEF PInv, ShapeOK, Popup
<1>5. inbox # <<>> /\ Head(inbox) = Get /\ inbox' = Tail(inbox) /\ inbox \in Seq(Message)
  BY DEF GetCoin, PInv, ShapeOK
<1>6. Asked /\ popup.step # "closed"
  BY <1>5 DEF Asked, PInv
<1>7. ASSUME ~popup.early
      PROVE  Following'
  <2>1. Following
    BY <1>6, <1>7 DEF PInv
  <2>2. Len(inbox) = 1 /\ inbox' = <<>>
    BY <1>5, <1>6, <2>1, Handled DEF Following
  <2>3. ~Asked'
    BY <2>2 DEF Asked
  <2>4. c # None => c = Current'
    BY <1>2, Derived DEF Current, PInv, GetCoin, vars
  <2>5. c = None => popup.selectedCoin = Current'
    BY <1>2, <1>6, <2>1 DEF Following, Current, GetCoin, vars
  <2> QED BY <1>4, <2>2, <2>3, <2>4, <2>5 DEF Following
<1> QED BY <1>1, <1>4, <1>5, <1>6, <1>7, Handled DEF PInv, ShapeOK

LEMMA GetNothingKeeps ==
  ASSUME PInv, GetNothing
  PROVE  PInv'
<1>1. IInv' /\ Tokenless'
  <2>1. IInv'
    BY Kept DEF PInv, GetNothing
  <2> QED BY <2>1 DEF PInv, Tokenless, vars, GetNothing
<1>2. /\ inbox # <<>> /\ Head(inbox) = GetLost /\ inbox' = Tail(inbox)
      /\ inbox \in Seq(Message) /\ UNCHANGED popup /\ Current' = Current
  BY DEF GetNothing, PInv, ShapeOK, Current, vars
<1>3. Asked' <=> Asked
  BY <1>2, PopupAssumption, Handled
<1>4. ASSUME popup.step # "closed", ~popup.early
      PROVE  Following'
  <2>1. Following
    BY <1>4 DEF PInv
  <2>2. CASE Asked
    BY <1>2, <1>3, <2>1, <2>2, PopupAssumption, Handled DEF Following
  <2>3. CASE ~Asked /\ popup.answer # None
    BY <1>2, <2>1, <2>3 DEF Following
  <2>4. CASE ~Asked /\ popup.answer = None
    <3>1. inbox[Len(inbox)] = popup.selectedCoin /\ popup.selectedCoin \in Choices
      BY <1>2, <2>1, <2>4 DEF Following, PInv, ShapeOK, Popup
    <3>2. inbox' # <<>>
      BY <1>2, <3>1, PopupAssumption, Handled
    <3> QED BY <1>2, <1>3, <2>4, <3>1, <3>2, Handled DEF Following
  <2> QED BY <2>2, <2>3, <2>4
<1> QED BY <1>1, <1>2, <1>3, <1>4, Handled DEF PInv, ShapeOK

LEMMA PutCoinKeeps ==
  ASSUME PInv, PutCoin
  PROVE  PInv'
<1>1. /\ inbox # <<>> /\ Head(inbox) \in Choices /\ inbox' = Tail(inbox)
      /\ inbox \in Seq(Message) /\ UNCHANGED popup /\ coin' = Head(inbox)
      /\ SetCoin(Head(inbox))
  BY DEF PutCoin, PInv, ShapeOK, SetCoin
<1>2. IInv' /\ Tokenless'
  <2>1. IInv'
    BY <1>1, Kept DEF PInv, Next
  <2>2. coin' # None
    BY <1>1, WalletSyncAssumption
  <2> QED BY <2>1, <2>2 DEF Tokenless
<1>3. Head(inbox) # Get /\ Current' = Head(inbox)
  BY <1>1, PopupAssumption, WalletSyncAssumption DEF Current
<1>4. Asked' <=> Asked
  BY <1>1, <1>3, Handled
<1>5. ASSUME popup.step # "closed", ~popup.early
      PROVE  Following'
  <2>1. Following
    BY <1>5 DEF PInv
  <2>2. CASE Asked
    BY <1>1, <1>3, <1>4, <2>1, <2>2, Handled DEF Following
  <2>3. CASE ~Asked /\ popup.answer # None
    BY <1>1, <2>1, <2>3 DEF Following
  <2>4. CASE ~Asked /\ popup.answer = None
    BY <1>1, <1>3, <1>4, <2>1, <2>4, Handled DEF Following
  <2> QED BY <2>2, <2>3, <2>4
<1> QED BY <1>1, <1>2, <1>4, <1>5, Handled DEF PInv, ShapeOK

\* The tabs' handlers write no token into storage before a coin is selected.
LEMMA HandlersKeep ==
  ASSUME PInv, UNCHANGED <<popup, inbox>>,
         \/ \E c \in Connects : ConnectStep(c)
         \/ \E f \in Flows : FlowStep(f)
  PROVE  PInv'
<1>1. IInv'
  BY Kept DEF PInv, Next
<1>2. UNCHANGED coin
  BY DEF ConnectStep, ConnectStart, ConnectFind, ConnectCreate, ConnectUpdate, ConnectStore,
         ConnectFails, FlowStep, SimulateStart, SimulateReadsWallet, SimulateUpdate,
         SimulateQuote, Submit, RelaySwap, FlowFails
<1>3. Tokenless'
  <2> SUFFICES ASSUME coin = None
               PROVE  /\ stored' # None => stored'.token = None
                      /\ \A k \in Connects : conn'[k].token = None
    BY <1>2 DEF Tokenless
  <2>1. /\ stored # None => stored.token = None
        /\ \A k \in Connects : conn[k].token = None
        /\ \A k \in Connects : conn[k] \in Handler
        /\ conn = [k \in Connects |-> conn[k]]
    BY DEF PInv, Tokenless, IInv, ConnOK
  <2>2. ASSUME NEW c \in Connects, ConnectStep(c)
        PROVE  /\ stored' # None => stored'.token = None
               /\ \A k \in Connects : conn'[k].token = None
    <3>1. ASSUME NEW address \in Accounts, NEW network \in Networks,
                 ConnectStart(c, address, network)
          PROVE  /\ UNCHANGED stored
                 /\ \A k \in Connects : conn'[k].token = None
      <4>1. TokenOn(coin, network) = None
        BY WalletSyncAssumption DEF TokenOn, Choices
      <4> QED BY <2>1, <3>1, <4>1 DEF ConnectStart
    <3>2. CASE ConnectFind(c)
      BY <2>1, <3>2 DEF ConnectFind, Handler
    <3>3. CASE ConnectCreate(c)
      BY <2>1, <3>3 DEF ConnectCreate, Handler
    <3>4. CASE ConnectUpdate(c)
      BY <2>1, <3>4 DEF ConnectUpdate, Handler
    <3>5. CASE ConnectStore(c)
      BY <2>1, <3>5 DEF ConnectStore, Handler
    <3>6. CASE ConnectFails(c)
      BY <2>1, <3>6 DEF ConnectFails, Handler
    <3> QED BY <2>1, <2>2, <3>1, <3>2, <3>3, <3>4, <3>5, <3>6 DEF ConnectStep
  <2>3. ASSUME NEW f \in Flows, FlowStep(f)
        PROVE  UNCHANGED <<stored, conn>>
    BY <2>3 DEF FlowStep, SimulateStart, SimulateReadsWallet, SimulateUpdate, SimulateQuote,
                Submit, RelaySwap, FlowFails
  <2> QED BY <2>1, <2>2, <2>3
<1> QED BY <1>1, <1>2, <1>3 DEF PInv, ShapeOK, Following, Asked, Current

-----------------------------------------------------------------------------
LEMMA PInitially ==
  ASSUME PInit
  PROVE  PInv
<1>1. IInv
  BY Initially DEF PInit
<1>2. Tokenless
  BY DEF PInit, Init, Tokenless
<1>3. ShapeOK /\ popup.step = "closed" /\ popup.answer = None /\ popup.topUp = "no" /\ ~Asked
  BY DEF PInit, Fresh, ShapeOK, Popup, Choices, Asked
<1> QED BY <1>1, <1>2, <1>3 DEF PInv

LEMMA PKept ==
  ASSUME PInv, [PNext]_pvars
  PROVE  PInv'
<1>1. CASE UNCHANGED pvars
  <2>1. IInv'
    BY <1>1, Kept DEF PInv, pvars
  <2> QED BY <1>1, <2>1 DEF PInv, pvars, vars, ShapeOK, Tokenless, Following, Asked, Current
<1> QED BY <1>1, PopupKeeps, GetCoinKeeps, GetNothingKeeps, PutCoinKeeps, HandlersKeep DEF PNext

LEMMA PAlways == PSpec => []PInv
BY PInitially, PKept, PTL DEF PSpec

\* Storage, wallets, handlers, the popup and its messages keep their shape
\* (popup.tsx, coin/get.ts and coin/set.ts among the handlers of WalletSync).
THEOREM PopupCorrect == PSpec => []PopupOK
<1>1. PInv => PopupOK
  BY DEF PInv, ShapeOK, PopupOK, IInv, WalletsOK, StorageOK, ConnOK, FlowOK, TypeOK
<1> QED BY <1>1, PAlways, PTL

\* Once its messages are handled the popup shows the coin that transactions are
\* quoted in, unless the user chose before coin/get was answered (useEffect and
\* onCoinSelectFinal of popup.tsx, coin/get.ts, coin/set.ts).
THEOREM SelectedShown == PSpec => []ShowsSelected
<1>1. PInv => ShowsSelected
  <2> SUFFICES ASSUME PInv, popup.step # "closed", inbox = <<>>, popup.answer = None,
                      ~popup.early
               PROVE  popup.selectedCoin = Current
    BY DEF ShowsSelected, Current
  <2>1. ~Asked
    BY DEF Asked
  <2> QED BY <2>1 DEF PInv, Following
<1> QED BY <1>1, PAlways, PTL
=============================================================================
