----------------------------- MODULE WalletSync -----------------------------
(***************************************************************************)
(* Who knows which coin: the selected coin and the current wallet in the   *)
(* extension's storage, and the wallets of the backend, each with a token. *)
(*                                                                         *)
(* The background handles the messages of all tabs, and gives up control   *)
(* at every await: wallet/connect finds or creates a wallet and stores it, *)
(* tx/simulate writes the selected coin into the stored wallet and has the *)
(* backend quote a swap, tx/submit has the backend relay the swap agreed   *)
(* to.  The backend looks the sender's wallet up again for each of these.  *)
(* A handler may end at any await: a request fails or its answer is late,  *)
(* or the browser stops the service worker.  A request the backend carries *)
(* out is carried out before its handler ends.                             *)
(***************************************************************************)
EXTENDS Integers, Sequences, FiniteSets

CONSTANTS Connects,  \* the wallet/connect messages of all tabs
          Flows,     \* the intercepted transactions of all tabs
          Accounts,  \* the accounts of the user
          Coins,     \* the coins with a token on the network of the backend
          Eth,       \* the default coin, which has none
          Home,      \* NETWORK_ID, the network of the backend
          Networks,  \* the networks the user connects on; coins have a token on Home only
          None,      \* nothing there: no coin, no wallet, no token
          MaxBusy    \* how many handlers of the background overlap

VARIABLES
  coin,    \* storage: the selected coin
  stored,  \* storage: the current wallet
  wallets, \* the backend's wallets, by id
  conn,    \* the handlers of wallet/connect
  flow     \* the transactions on their way through tx/simulate and tx/submit

vars == <<coin, stored, wallets, conn, flow>>

Choices == Coins \cup {Eth}
MaybeToken == Coins \cup {None}

ASSUME WalletSyncAssumption ==
  /\ Home \in Networks
  /\ Eth \notin Coins /\ None \notin Choices
  /\ MaxBusy \in Nat \ {0}

Wallet == [address : Accounts, network : Networks, token : MaybeToken]
Stored == [id : Nat, address : Accounts, network : Networks, token : MaybeToken]
MaybeStored == Stored \cup {None}

\* coin.networks[network].
TokenOn(c, network) == IF c \in Coins /\ network = Home THEN c ELSE None

\* WalletService.findOne: the wallets it may return.
Found(address) ==
  {i \in DOMAIN wallets : wallets[i].address = address /\ wallets[i].network = Home}

Handler == [pc : {"idle", "find", "save", "store", "done"}, address : Accounts \cup {None},
            network : Networks, token : MaybeToken, id : Nat]
Transaction == [pc : {"idle", "wallet", "update", "quote", "shown", "relay", "done"},
                from : Accounts \cup {None}, coin : Choices \cup {None},
                wallet : MaybeStored, quote : MaybeToken, relayed : MaybeToken]

Init ==
  /\ coin = None
  /\ stored = None
  \* the user may have a wallet from another browser
  /\ wallets \in {<<>>} \cup
                 {<<w>> : w \in [address : Accounts, network : {Home}, token : Coins]}
  /\ conn = [c \in Connects |->
               [pc |-> "idle", address |-> None, network |-> Home, token |-> None, id |-> 0]]
  /\ flow = [f \in Flows |-> [pc |-> "idle", from |-> None, coin |-> None, wallet |-> None,
                              quote |-> None, relayed |-> None]]

Busy == {c \in Connects : conn[c].pc \in {"find", "save", "store"}}
   \cup {f \in Flows : flow[f].pc \in {"wallet", "update", "quote", "relay"}}
Free == Cardinality(Busy) < MaxBusy

-----------------------------------------------------------------------------
\* coin/set: the user selects a coin in the popup.
SetCoin(c) ==
  /\ coin' = c
  /\ UNCHANGED <<stored, wallets, conn, flow>>

-----------------------------------------------------------------------------
(* wallet/connect                                                          *)

\* Mutation: the selected coin is taken as it is, not its token on the network.
ConnectStart_AnyCoin(c, address, network) ==
  /\ conn[c].pc = "idle" /\ Free
  /\ conn' = [conn EXCEPT ![c] =
                [pc |-> "find", address |-> address, network |-> network,
                 token |-> coin, id |-> 0]]
  /\ UNCHANGED <<coin, stored, wallets, flow>>

\* The message arrives and the selected coin is read; a coin without a token on
\* the wallet's network ends the handler.
ConnectStart(c, address, network) ==
  /\ conn[c].pc = "idle" /\ Free
  /\ conn' = [conn EXCEPT ![c] =
                [pc |-> IF coin = None \/ TokenOn(coin, network) # None THEN "find" ELSE "done",
                 address |-> address, network |-> network,
                 token |-> TokenOn(coin, network), id |-> 0]]
  /\ UNCHANGED <<coin, stored, wallets, flow>>

\* The backend looks for a wallet of the address: 0 when there is none.
ConnectFind(c) ==
  /\ conn[c].pc = "find"
  /\ \E i \in IF Found(conn[c].address) = {} THEN {0} ELSE Found(conn[c].address) :
       conn' = [conn EXCEPT ![c].pc = "save", ![c].id = i]
  /\ UNCHANGED <<coin, stored, wallets, flow>>

\* Mutation: a wallet is created whether one was found or not.
ConnectCreate_Always(c) ==
  /\ conn[c].pc = "save"
  /\ conn[c].token # None
  /\ wallets' = Append(wallets, [address |-> conn[c].address, network |-> conn[c].network,
                                 token |-> conn[c].token])
  /\ conn' = [conn EXCEPT ![c].pc = "store", ![c].id = Len(wallets')]
  /\ UNCHANGED <<coin, stored, flow>>

\* None was found: create it.  The schema requires a token.
ConnectCreate(c) ==
  /\ conn[c].pc = "save" /\ conn[c].id = 0
  /\ conn[c].token # None
  /\ wallets' = Append(wallets, [address |-> conn[c].address, network |-> conn[c].network,
                                 token |-> conn[c].token])
  /\ conn' = [conn EXCEPT ![c].pc = "store", ![c].id = Len(wallets')]
  /\ UNCHANGED <<coin, stored, flow>>

\* One was found: it moves to the network of the tab, and its token with it.
ConnectUpdate(c) ==
  /\ conn[c].pc = "save" /\ conn[c].id # 0
  /\ wallets' = [wallets EXCEPT ![conn[c].id].network = conn[c].network,
                                ![conn[c].id].token = conn[c].token]
  /\ conn' = [conn EXCEPT ![c].pc = "store"]
  /\ UNCHANGED <<coin, stored, flow>>

\* Mutation: of the stored wallet only the address and the network are replaced.
ConnectStore_KeepsId(c) ==
  /\ conn[c].pc = "store"
  /\ stored' = [id |-> IF stored = None THEN conn[c].id ELSE stored.id,
                address |-> conn[c].address, network |-> conn[c].network,
                token |-> conn[c].token]
  /\ conn' = [conn EXCEPT ![c].pc = "done"]
  /\ UNCHANGED <<coin, wallets, flow>>

ConnectStore(c) ==
  /\ conn[c].pc = "store"
  /\ stored' = [id |-> conn[c].id, address |-> conn[c].address, network |-> conn[c].network,
                token |-> conn[c].token]
  /\ conn' = [conn EXCEPT ![c].pc = "done"]
  /\ UNCHANGED <<coin, wallets, flow>>

\* A request fails or its answer comes too late, the schema refuses a wallet
\* without a token, or the service worker is stopped.
ConnectFails(c) ==
  /\ conn[c].pc \in {"find", "save", "store"}
  /\ conn' = [conn EXCEPT ![c].pc = "done"]
  /\ UNCHANGED <<coin, stored, wallets, flow>>

-----------------------------------------------------------------------------
(* tx/simulate, the user's decision, and tx/submit                         *)

SimulateStart(f, from) ==
  /\ flow[f].pc = "idle" /\ Free
  /\ flow' = [flow EXCEPT ![f].pc = "wallet", ![f].from = from, ![f].coin = coin]
  /\ UNCHANGED <<coin, stored, wallets, conn>>

\* Without a coin or a wallet, or with a coin that has no token on the wallet's
\* network, the handler throws.
SimulateReadsWallet(f) ==
  /\ flow[f].pc = "wallet"
  /\ flow' = [flow EXCEPT
                ![f].wallet = stored,
                ![f].pc = IF stored # None /\ TokenOn(flow[f].coin, stored.network) # None
                          THEN "update" ELSE "done"]
  /\ UNCHANGED <<coin, stored, wallets, conn>>

\* Mutation: the network of the wallet is left as it is.
SimulateUpdate_TokenOnly(f) ==
  /\ flow[f].pc = "update"
  /\ LET w == flow[f].wallet IN
       wallets' = [wallets EXCEPT ![w.id].token = TokenOn(flow[f].coin, w.network)]
  /\ flow' = [flow EXCEPT ![f].pc = "quote"]
  /\ UNCHANGED <<coin, stored, conn>>

\* Mutation: the coin is left to wallet/connect to write.
SimulateUpdate_NoPut(f) ==
  /\ flow[f].pc = "update"
  /\ flow' = [flow EXCEPT ![f].pc = "quote"]
  /\ UNCHANGED <<coin, stored, wallets, conn>>

\* The selected coin becomes the token of the stored wallet.
SimulateUpdate(f) ==
  /\ flow[f].pc = "update"
  /\ LET w == flow[f].wallet IN
       wallets' = [wallets EXCEPT ![w.id].network = w.network,
                                  ![w.id].token = TokenOn(flow[f].coin, w.network)]
  /\ flow' = [flow EXCEPT ![f].pc = "quote"]
  /\ UNCHANGED <<coin, stored, conn>>

\* The backend quotes a swap of the token of the sender's wallet.
SimulateQuote(f) ==
  /\ flow[f].pc = "quote"
  /\ \E i \in Found(flow[f].from) :
       flow' = [flow EXCEPT ![f].pc = "shown", ![f].quote = wallets[i].token]
  /\ UNCHANGED <<coin, stored, wallets, conn>>

\* The user agrees and signs a permit for the token quoted.
Submit(f) ==
  /\ flow[f].pc = "shown" /\ flow[f].quote # None /\ Free
  /\ flow' = [flow EXCEPT ![f].pc = "relay"]
  /\ UNCHANGED <<coin, stored, wallets, conn>>

\* The backend relays a swap of the token of the sender's wallet.
RelaySwap(f) ==
  /\ flow[f].pc = "relay"
  /\ \E i \in Found(flow[f].from) :
       flow' = [flow EXCEPT ![f].pc = "done", ![f].relayed = wallets[i].token]
  /\ UNCHANGED <<coin, stored, wallets, conn>>

\* As ConnectFails; or the backend finds no wallet, or the user declines.
FlowFails(f) ==
  /\ flow[f].pc \in {"wallet", "update", "quote", "shown", "relay"}
  /\ flow' = [flow EXCEPT ![f].pc = "done"]
  /\ UNCHANGED <<coin, stored, wallets, conn>>

-----------------------------------------------------------------------------
ConnectStep(c) ==
  \/ \E address \in Accounts, network \in Networks : ConnectStart(c, address, network)
  \/ ConnectFind(c) \/ ConnectCreate(c) \/ ConnectUpdate(c) \/ ConnectStore(c)
  \/ ConnectFails(c)

FlowStep(f) ==
  \/ \E from \in Accounts : SimulateStart(f, from)
  \/ SimulateReadsWallet(f) \/ SimulateUpdate(f) \/ SimulateQuote(f)
  \/ Submit(f) \/ RelaySwap(f) \/ FlowFails(f)

Next ==
  \/ \E c \in Choices : SetCoin(c)
  \/ \E c \in Connects : ConnectStep(c)
  \/ \E f \in Flows : FlowStep(f)

Spec == Init /\ [][Next]_vars

-----------------------------------------------------------------------------
(* Properties.                                                             *)

\* Storage, wallets and handlers keep their shape.
TypeOK ==
  /\ coin \in Choices \cup {None}
  /\ stored \in MaybeStored
  /\ wallets \in Seq(Wallet)
  /\ conn \in [Connects -> Handler]
  /\ flow \in [Flows -> Transaction]

\* The id in storage, which tx/simulate writes to, is that of a wallet of the
\* backend with the stored address, whatever connects overlap or are cut short
\* (storage.set after the answer of the backend, in wallet/connect).
StoredWalletKnown ==
  stored # None => /\ stored.id \in DOMAIN wallets
                   /\ wallets[stored.id].address = stored.address

\* A wallet's token is a token of the wallet's network: connects and simulations
\* move a wallet to another network and set its token in one write, however the
\* writes of several tabs follow each other (the PUTs of wallet/connect and
\* tx/simulate).
TokenOfNetwork ==
  \A i \in DOMAIN wallets : wallets[i].token # None => wallets[i].network = Home

\* While handlers do not overlap and the user stays on the backend's network, the
\* backend serves an account from one wallet: findOne is never ambiguous, and no
\* handler cut short leaves a second one (find, then create, in wallet/connect),
\* provided that the backend does not save a wallet after its handler gave up.
OneServed ==
  \A i, j \in DOMAIN wallets :
    wallets[i].network = Home /\ wallets[j].network = Home
      /\ wallets[i].address = wallets[j].address => i = j

\* Under the same conditions a transaction of the stored account is quoted
\* in the coin that was selected when its simulation began (the update before
\* the simulation in tx/simulate, and the backend's look-up by address).
QuoteInChosenCoin ==
  \A f \in Flows :
    flow[f].quote # None /\ flow[f].wallet.address = flow[f].from => flow[f].quote = flow[f].coin
=============================================================================
