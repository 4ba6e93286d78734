# CoinChoice in TLA+

CoinChoice lets a user without ETH pay for gas in a token: a browser extension intercepts the
transactions of a web page, shows what they cost in the coin the user has chosen, has the user sign a
permit, and sends a meta-transaction that swaps some of that coin for ETH before the page's own
transaction goes on. This directory models the parts of the code that decide things, checks them
with TLC and proves the main results with TLAPS. All paths below are relative to `src/packages/`.

## The system

| Part (code) | State | Operations | Talks to | Module |
|---|---|---|---|---|
| Facade: `browser-extension/src/utils/RPCProviderFacade.ts`, `bus.ts`, `permit.ts` | the shared wallet object; one pending promise per request; handlers registered on the bus | `wrap`, `waitForSignature`, the accept handler, `actionSignature` | the drawer and the relays by the bus; MetaMask; a node | `Facade`, `Swap` |
| Relays: `contents/scoped.ts` | none | connect-wallet, sign-complete, tx-validate, tx-simulate | bus on one side, background on the other | `Facade`, `Tabs` |
| Drawer: `components/Notification.tsx` | opened, payload, loading, account heard of last | open, sign-finalise, accountsChanged; Get Gas, Cancel, close | bus | `Facade` |
| Main script: `contents/main.ts` | the wallet object, a socket | start-up, accountsChanged, chainChanged, onMessage, onMetamask, top-up | MetaMask, bus, backend socket | `Tabs`, `Facade` |
| Background: `background/messages/**` | extension storage: coin, wallet | wallet/connect, tx/validate, tx/simulate, tx/submit, coin/set, coin/get | backend over HTTP (30 s limit) | `WalletSync`, `Popup` |
| Popup: `popup.tsx` | page, a coin of its own, the spinner | select a coin, top up, close | background | `Popup` |
| Backend wallets: `backend/src/wallet/**` | a collection of wallets | findOne (by address, on `NETWORK_ID` only), create, update, delete | MongoDB | `WalletSync`, `Tabs` |
| Backend relaying: `backend/src/app.controller.ts`, `app.service.ts` | none | simulation, transactions/relayed and /test, metamask | wallets, 0x, Tenderly, the chain | `Swap`, `Tabs` |
| Relayers: `contracts/src/Relayer.sol`, `CoinChoiceRelayer.sol` | executioners or roles, guard, paused, owner; balances | depositERC20, relaySwapToETH, swap0x, unsafeGeneralCall, the owner's functions, pause | tokens, WETH, the swap target | `Relayer` |
| Multi-signature wallet: `contracts/src/MultiSigWallet.sol` | owners, transactions, confirmations, balance | submit, confirm, revoke, execute, receive | any recipient, which may call back | `MultiSig` |
| Administration: the proxy, AccessControl, `contracts/deploy`, `contracts/scripts` | admin and implementation of the proxy; roles; where a script is | deploy, initialize, grant, revoke, renounce, pause, changeAdmin, upgradeTo(AndCall) | the wallet, the relayer | `Administration` |
| Socket and snap: `backend/src/app.gateway.ts`, `meta-mask/packages/snap` | client ids, kept in wallets | connection, need_eth | extension, MetaMask | `Tabs` |
| fRPC gateway: `frpc/gateway`, `frpc/wasm-modules/eth-rpc` | a counter | random, round-robin and quorum calls | Fluence workers, RPC providers | `Gateway` |
| Demonstration site of the snap: `meta-mask/packages/site` | MetaMask context (Flask, snap, error), theme | effects that look Flask and the snap up, Connect, Reconnect, the timer of an error, the theme's switch | MetaMask, local storage | `SnapSite` |
| Ceramic scripts, vendored OpenZeppelin and test tokens | - | - | - | not modelled |

What is hard in it, and what makes each part correct:

- *Facade and drawer.* Every message between page, drawer and background is broadcast on one bus and
  carries no id of the request it belongs to; handlers come and go; everything is asynchronous and
  every step can fail. Correct means: nothing is signed or submitted without consent, no answer is
  lost, no handler outlives its request, what was begun ends and stops the spinner.
- *Background, popup and backend wallets.* Handlers give up control at each await, may be cut short
  there, and write to a wallet read earlier. Correct means: the wallet in storage exists, its token
  fits its network, an account is served from one wallet, the quote is in the chosen coin, and the
  popup shows that coin.
- *Amounts.* A quote goes through two margins, strings, floating-point numbers and big integers, while
  the wallet's token may change. Correct means: what is drawn covers the swap, and the user pays what
  was agreed to.
- *Relayers.* Foreign code in the middle of a swap; whole balances are swept. Correct means: one
  user's swap leaves nothing for another to take, and a user pays what the user's permits allow.
- *Multi-signature wallet and administration.* The call of a transaction hands control to foreign
  code, which may enter again, and fail; scripts and other owners act between each other's steps.
  Correct means: counted confirmations are real, a quorum stands behind what is executed and behind
  what only the wallet may do, nothing runs twice, no wei is lost.
- *Sockets.* Client ids go out of date and overtake each other, and an account may have several
  wallets. Correct means: a page hears of its own accounts only, and the last one is reached.
- *Demonstration site.* Effects, clicks and prompts overlap; failures are hidden as "no". Correct means: the
  site shows in the end what MetaMask has, and asks nothing of a MetaMask without snaps.
- *fRPC gateway.* Late, missing and tied reports. Correct means: a result has its quorum, requests are
  spread evenly and all answered.

The hazards are listed at their lines in `PROJECT.json`, each with the properties that cover it or
the reason none does.

## Modules

| Module | Models |
|---|---|
| `Facade` | one tab: facade, relays, drawer, account changes, and what the tab can tell of backend and chain |
| `GasFlow` | what a call of a page is promised (held back, one deal, one deposit, let through); `Facade` implements it |
| `WalletSync` | coin and wallet in storage, the backend's wallets, the handlers between their awaits |
| `Popup` | extends `WalletSync` by the popup, its messages in order, coin/get and coin/set |
| `Tabs` | client ids through pages, connects, wallets and sockets; need_eth from the snap to a page |
| `Swap` | one transaction's coin and amounts from quote to chain |
| `Relayer` | both relayer contracts over a token with permits, WETH and ETH, and a market that calls back |
| `MultiSig` | the multi-signature wallet, with nested executions and reverts |
| `MultiSigPromise` | what the wallet promises, seen from the chain; `MultiSig` implements it |
| `Administration` | extends `MultiSig` by the proxy, the roles behind it and the scripts |
| `Gateway` | requests to the fRPC gateway, its workers, counter, quorum and timers |
| `SnapSite` | the site that installs the snap: context, effects, clicks, MetaMask's answers, theme |
| `MC...` | instances for TLC: names of model values, small sets, symmetry |
| `...Proofs` | theorems for every value of the constants: `Facade` (with its refinement of `GasFlow`), `Wallet` (of `WalletSync` and `Popup`), `Tabs`, `Swap`, `Relayer`, `Administration` (of `MultiSig` too), `Gateway`, `SnapSite` |

Definitions whose names continue another's name after `_` (`Confirmed_Unmined`) are mutations: what
it would be with a plausible bug. They are not part of any specification; each property is known to
fail for one of them.

### Facade

An action is one macrotask of the tab, that is, a handler with everything that its promises run before
the event loop takes the next message. `pc` says how far a request is in `waitForSignature`;
`waiters[t]` are the handlers registered for a topic (for the answers of `busPromise`, and `accept`);
`calls[t]` are the calls the relays of `scoped.ts` have under way; `bus` are the messages between
facade and drawer in order; `drawer` and `newAccount` are the React state; `grant` and `permit` are what
the accept handler works with; `metaTx` and `nonces` are the chain as far as it matters; `agreed` and
`notices` are history.

- A broadcast answer serves *all* handlers of its topic. The modules of Framebus are not in the
  repository: `Dispatches` allows both a walk of a copy of the list (all handlers are reached) and a
  walk of the live list (each handler removes itself when it runs, so the next one is skipped).
- The background answers every call: by success, by failure or, when a handler throws, by the
  closing of the channel; and `ky` gives up after 30 seconds. `sign-complete` may fail in the tab and
  be relayed later all the same (`NotSubmitted`, then `Relay`).
- `permit` keeps who signs, fixed when the handler starts (the token object is made without waiting),
  and the nonce, read later; the token takes a permit only from its owner with the current nonce
  (`Mine`). The owner is the sender of the transaction in the *payload* (`tx/submit`).
- `GasFlow` is what remains when page, drawer, background and chain are one: a call is new, held back or
  let through (`Status` of `pc`); its deal is `grant`, its deposit `metaTx`; a permit is spent when the
  meta-transaction it was signed for is mined (`Spent`). `Pay` needs a permit that was not spent
  before, which the code gets from the permit's nonce; `Deal` gives one agreement to several calls, as one press of Get Gas
  may; every other step of `Facade` is a stutter or one of its steps.
- The sender of a call is the one the page names in `params[0].from`, which need not be the connected
  wallet, and no wallet need be connected (`Intercept`).
- Not in this module: chain changes, the socket and start-up (in `Tabs`), the top-up (in `Popup`),
  amounts (in `Swap`), the Connect button, and which coin is selected (an invalid coin is `NotValid`, a
  failed look-up of the token `NotSigned`).

### WalletSync and Popup

`conn[c].pc` and `flow[f].pc` stand at the awaits of `wallet/connect` and of `tx/simulate` followed by
`tx/submit`. A failed or late request and a stopped service worker are one action each
(`ConnectFails`, `FlowFails`), possible at any await. A request is carried out before its handler ends,
or never: that the backend saves a wallet after the extension stopped waiting for it is left out here
(two wallets of one account could come of it, as they can of overlapping handlers); `Tabs` has it.
`Found` is any match of `findOne`. `MaxBusy` says how many handlers overlap. The
extension never deletes a wallet.

`Popup` composes with it: `inbox` are the messages of popups the background has not handled. A popup
starts with the default coin and asks (`Open`), shows what it is told (`CoinArrives`) or what the user
chooses (`onCoinSelectFinal`), and closes at any moment; its messages are handled all the same
(`GetNothing`, `PutCoin`). `coin/get` derives a coin from the stored wallet when none is selected; with no
coin selected a wallet is stored without a token, so all it can derive is the default. The timer of
the top-up returns to the first page from whichever page is open.

### Tabs

`page` is the wallet object of each page's script with its client id, `socket` the open connections, `owner`
who opened the n-th one. A place in `owner` is a client id; 0 is the empty one of a page that has none yet.
`connects` are the connect-wallet messages being carried out, in the order they were sent. Each looks for a
wallet (`Find`), and updates the one found or creates one (`Write`), with other connects in between; it fails
(`ConnectFails`), or is given up after 30 seconds and written all the same (`GiveUp`). `wallets` are those of
the backend, with their networks: an account may have none, one or several on the backend's network
(`Served`), and a look-up finds any of these. A simulation writes the network it read in storage, perhaps an
earlier one (`SimulateUpdate`, of a wallet the extension has stored, `kept`). A page without an account waits at start-up
for an answer nobody gives, until another connect is answered (`Answer` opens it).

`had`, `by` and `course` are history. `course` says of an account whether its connects went one after the
other from look-up to write (`apart`), overlapped but were written in order (`ordered`), or not even that. `WalletSync` has
the same handlers with coins and tokens; `OneServed` holds there without overlap, and nothing here
takes it for granted.

### Swap

`stage` walks through `POST /simulation` (gas price, gas used, quote, balance), the decision, tx/submit,
`POST /transactions/relayed` and the mining. The numbers keep their arithmetic and lose their size: `Precision` stands for
2^53, `Exponent` for 10^21, from which a number is written with an exponent that `BigNumber.from`
does not read, `Safe` for what `formatUnits` takes. `Hundredfold` has every result the roundings of floating-point
arithmetic allow. `Simulation` is the answer of `POST /simulation` that the drawer is given, and the amount in it
goes into tx/submit; of the amounts the drawer displays only `feeToken`, the fee in the coin, which is not modelled. Meanwhile another tab changes the wallet's token (`SetToken`) and the user spends
(`Spends`). The script `relaySwapWithPermit.ts` and `POST /transactions/test` do the whole at once.
The hundredfold and the second margin make what is drawn about 121 times the quote, so that
`Covered` has much to spare and fails only when a step is left out or the number is misread; the rest is
sent back in the same transaction, if the balance and the permit suffice for the draw.

### Relayer

`frame` is the call of the swap target under way, with the storage a revert restores. While it is set
only the market acts: it takes what is approved, pays in WETH or ETH, and calls any function of the
relayer (`Turn`). Neither contract compares a permit's owner or spender with the user that is drawn or with itself: a draw
takes any unused permit (`Permits`, of any user, for the relayer or for somebody else) and then needs an
allowance of the drawn user, from this permit or an earlier one (`CanPull`, `Pull`). A permit may also be handed to the
token directly (`TokenPermit`). `plain`, `stray`, `pulls` and `drawn` are history: what came in other than as part of a
swap (deposits, plain sends, what the market pays in a general call), the ETH the market paid in a `swap0x` of
`CoinChoiceRelayer` and that stayed, how many draws took a permit of a user, and how much a user was drawn.
The functions of the two contracts that differ are actions of their
own (`Relayer_...`, `CoinChoice_...`); the two ways of counting what was received are in
`Relayer_swap0xReturns` and `CoinChoice_swap0xReturns`. Users and operators have no code; a new owner is
such an account. `RelayerLib` only words the message of a revert.

### MultiSig and Administration

`storage` is the contract's state, which a revert restores; `calls` is the stack of executions under
way with the storage before each. While it is not empty only contracts can call (`MayCall`). A
recipient that returns is `CallReturns`; one that fails is `CallFails`, which restores the storage
saved when this execution began and leaves the execution around it running. The data of a transaction
is abstracted to what its recipient then does, which is anything. `received` and `runs` are history.
`MultiSigPromise` has one step: a transaction of the chain that was committed. The refinement maps it
to `Committed`, the storage before the outermost execution, or the storage when there is none.

In `Administration` the recipient of every transaction is the proxy, and stands for the call made.
The proxy takes the functions of `AdminFunctions` from its admin itself (`ifAdmin`) and passes everything
else to the relayer, also what its admin calls: the copy of the proxy in the repository has an empty
`_beforeFallback`, and only so can the wallet be admin and controller at once. The logic is the relayer's (with `foreign` false), or anything else the admin installs by
`upgradeTo` and `upgradeToAndCall`: foreign logic accepts or refuses any call and leaves any storage, its
admin and its logic included (`RunsForeign`, `Tampered`). `initialize` is open to anybody until it was called, and
the deploy script's call is one of these (`Deploy`). `granted` is history. `script` is
`grantRole.ts` or `confirmTransaction.ts`, each of whose steps is a transaction or a read of its own, so
that other owners act in between; it takes the wallet's last transaction for the one it submitted
(`ScriptCounts`).

### Gateway

`phase` is where a request is; `number` what it got from the counter service on another peer, which it
uses later; `reports` what workers said. `eth_call` makes a success of a provider's error message, as
the wasm module does, and a failure only of a provider that cannot be reached. `findSameResults` takes
any of several values that are reported equally often: in the code the order of keys decides. `Expire` is the time to live of a
particle, 20 seconds in every mode, and a failing `resolveSubnetwork`. The workers of the deal are resolved anew for each
request; `W` takes them to stay the same, as `EvenlySpread` needs. The mode
is not checked when the configuration is read, and an unknown one answers every request with an error.

### SnapSite

`state` is the reducer's state. A dispatch and the rendering after it are one step; effects run some
time later (`RunEffects`), with `ran` for what they ran with last: the first one asks what MetaMask is
again whenever `isFlask` changed, and for the snap if it is Flask; the second one replaces the `timer` of an
error. `click[c]` stands at the awaits of `handleConnectClick`, which the page and the header both have.
MetaMask answers a question with what is so when it answers, or the page makes "no" of a failure
(`isFlask`, `getSnap`); answers reach the page in the order they were given (`inbox`). `metamask` has the snap once the
user lets it in, and may lose it at any time (`Remove`). `excused` is history: the last answer was a failure, or
the snap was removed after it. `window.ethereum` is taken to be there and to stay, the theme to be stored
by this page only, in a store with room for it; so the theme's part of `SiteOK` says little more than that the
switch, the state and the store change together. A reload begins the same again and is left out, as is `sendHello`, whose card is
commented out.

## Runs

| Run | Bounds | Shows |
|---|---|---|
| `facade_concurrent` | 2 requests at once, 1 account, no switch | `Consent`, `DepositAnnounced`, `NoLostWaiter`, `NoStaleHandler`, `OpenDrawerAlive`, `FlowKept` |
| `facade_sequential` | 2 requests one after the other, 2 accounts, 1 switch | `OwnPrompt`, and with fairness `ActionEnds`, `LoadingEnds` |
| `facade_deposit` | as before | violation of `DepositBeforeOriginal` |
| `wallet_serial` | `Popup`: 2 connects, 1 transaction, 1 account, 2 coins and ETH, no overlap, 1 network, 2 messages on their way | `PopupOK`, `OneServed`, `QuoteInChosenCoin`, `ShowsSelected` |
| `wallet_overlap` | `WalletSync`: 2 connects, 2 transactions, 2 accounts, 2 overlapping handlers, 2 networks | `StoredWalletKnown`, `TokenOfNetwork` |
| `tabs` | 2 pages, one of them perhaps without an account at first, 2 accounts, 2 sockets, 1 change of account or chain, 1 need_eth, 2 connects at a time, 1 that fails or is given up | `RightPage`, `LastPageReached`, and with fairness `SocketOpens` |
| `swap` | 2 coins, 5 amounts and 4 balances on either side of each limit | `Covered`, `TakenAsAgreed` |
| `relayer` | both contracts, 2 users with 2 tokens each, 2 operators, 1 unit each way at a time, at most 2 WETH and 1 of the others sent to the relayer, permits for 2 tokens, one nonce a user | `NothingLeftBehind`, `Recompensed`, `OncePerSignature`, `NoPullInSwap` |
| `multisig` | 3 owners (one a contract), a stranger, quorum 2, 3 transactions, depth 3, 2 wei | `TypeOK`, `CountExact`, `Quorum`, `Once`, `Accounted`, `PromiseKept` |
| `administration` | 3 owners (deployer, operator and one that is made admin), quorum 2, 2 transactions, 1 upgrade by other admins, foreign logic that pauses or that makes its owner admin and disappears | `AdministrationOK`, `PauseNeedsQuorum`, `Completed`, `AdminNeedsQuorum` |
| `gateway` | 3 workers, 2 providers, 2 values and a message, quorum 2; 3 requests in turn, 2 at random, 1 to all | `QuorumBehind`, `EvenlySpread`, and with fairness `EachAnswered` |
| `snap_site` | 2 clicks, 1 look-up of the effect at a time | `SiteOK`, `ShowsInstalled`, and with fairness `ErrorsEnd` |

The type invariants of `Facade`, `Swap`, `Relayer` and `Gateway` are theorems (`TypeCorrect`) and are not run
as well.

Why these bounds are enough to be telling: messages are confused between *two* requests, and a third
only repeats that; a stale handler needs one request that ended and one that follows; an account
change matters at every stage of one request, so one switch at any moment covers each of them. Two
overlapping handlers of two tabs are the smallest race; the initial wallet (none, or one with any
address and coin) adds a third party. In the popup's run the second account is left to
`wallet_overlap`: what is shown depends on coins, and two messages on their way are the popup's question
and a choice that races it. Two pages and two sockets are needed for a client id to be stale while another
page is reached, which one change then provokes; two connects at a time create two wallets of one account. The amounts of `swap` lie below, at and above each of its limits. In the relayer one unit of
each asset is enough to be left behind or drawn twice, a second one of WETH to tell what was received from what was there, a permit for two
tokens to leave an allowance, and two users to be confused. In the
multi-signature wallet the outermost execution, one nested in it and one nested in that one can each
return or fail, in any order, for three different transactions or for the same; the scripts need one
transaction of their own and one of another owner; one that lets the proxy go and a call by the new admin are enough to pause without
a quorum for that. Three workers with a quorum of two allow a majority, a tie
that decides nothing, and silence. Two clicks on the site overlap each other and the effect's look-up, and give the two errors
of which the second replaces the timer of the first. The theorems do away with the bounds for most of these
properties and for the type invariants. Symmetry is used for requests, handlers, coins and users, and
only in runs without liveness. Every run says `CHECK_DEADLOCK FALSE`, because requests, events, sockets
and wei are finite and a page may simply be done.

Fairness:

- `Facade`: the browser delivers messages, the background answers every call,
  the user answers MetaMask's prompt one way or the other, a pending meta-transaction is mined or
  reverted, and the page goes on once it can. Nothing is assumed of the user in front of the
  drawer, of the page making calls, or of the backend relaying what was posted. The liveness properties
  are checked with one call at a time: with two, they make the graph too large.
- `Tabs`: the connects of a page proceed and its answers arrive (`Proceeds`), because `ky` gives up after 30 seconds
  (`utils/api.ts`) and the relay then answers with an error. Nothing is assumed of requests that were given up, sockets and the snap.
- `SnapSite`: React runs its effects, timers fire, and MetaMask answers a look-up; nobody promises that a user
  answers a prompt, or that the page is told what MetaMask answered.
- `Gateway`: the gateway and its timers go on (`Proceeds`); in quorum mode the timer of the quorum is enough, and nothing is
  assumed of the particle's time to live. Clients, workers and providers need not.

## Where the documentation and the code part

With a run:

- `DepositBeforeOriginal`: the README promises the deposit, *then* the original transaction. Any
  failure after consent, also a node that does not know the transaction yet one second after it was
  sent, lets the page's call through at once, while the deposit is pending or reverted.

Met while modelling, visible in the models and not claimed by any property:

- `src/README.md:18`: "on each transaction, you will be prompted". If the simulation fails no drawer opens, and
  the call waits for a decision that nobody is asked for (`NotSimulated`; `RPCProviderFacade.ts:185`).
- Overlapping connects of an account that has no wallet create two (`connect.ts:31`-`51`), and a look-up may then
  find the one with the older client id: the page is not reached although every write was in order.
  `LastPageReached` says what is left. A simulation writes the network it read before (`simulate.ts:26`-`33`) and may
  move a wallet off the backend's network.
- `Relayer.sol:143` and `CoinChoiceRelayer.sol:73` speak of "the user's permit". Neither contract compares
  `permit.owner` with `user` or `permit.spender` with itself: the rest of an allowance is drawn with anybody's permit.
- The comment on `CoinChoiceRelayer.swap0x` says "for testing purposes only"; ETH the market pays in it stays
  in the relayer (lines 139-148) and goes to the next user of `relaySwapToETH` (line 112).
- `initialize` (`CoinChoiceRelayer.sol:37`) may be called by anybody between the deployment of the proxy and the
  script's call, which then fails.
- `wallet/connect` means to update one wallet. Moved to another network it is not found again
  (`connect.ts:75`), and the next connect creates a second one; hence the networks of `wallet_serial`.
- With two calls waiting, one press of Get Gas moves both on, the second with the payload of the
  first (`RPCProviderFacade.ts:191`); hence `OwnPrompt` with one call at a time.
- The token is looked up again when a swap is relayed, so the meta-transaction may name another
  coin than the quote did. It then reverts, as the permit is for another token (`TakenAsAgreed`).
- `gateway/README.md:46` speaks of a quorum of providers; the code counts workers' reports
  (`index.js:83`), and several workers may ask the same provider. Line 40 gives the default as 3; the code has `|| 2`
  (`index.js:115`).
- `grantRole.ts:40` reports "completed" also when what it confirmed and executed was another owner's
  transaction; `Completed` says what that report is worth.
- The popup's `coin/set.ts:8` relies on the coin being fetched from the store where none is selected automatically;
  `coin/get` can then derive only the default, because wallets are stored without a token while no
  coin is selected.
- A choice made before `coin/get` is answered is stored, and covered up on the screen by the answer
  (`popup.tsx:46`). `ShowsSelected` excepts this case and shows that it is the only one.
- The fixed value of a permit (10^15) does not cover a draw of a coin with 18 decimals;
  from 10^21 on the amount is not read at all; and the drawer throws on a balance from 2^53 on.
- The popup's spinner does not stop when the script of the top-up cannot be fetched.

## Proofs

Each proof module strengthens the properties to an inductive invariant `IInv` and has one lemma per
action or handler.

- `FacadeProofs`, for any number of requests, switches, accounts and calls at a time:
  `TypeCorrect`, `ConsentGiven`, `AnnouncedDepositsMined`, `HandlersAlive`. `IInv` adds a
  ledger to the type invariant and to `NoStaleHandler`: an accept message on the bus that says yes holds
  a payload in `agreed`; a request in or after `permit` has such a payload in `grant`; a request that
  waits for a receipt waits for a meta-transaction on the chain; a `sign-finalise` on the bus names only
  mined ones. Consent is not inductive without the messages in between, and a deposit can only be
  followed to its notice through the same messages. Both walks of Framebus are covered.
  `NobodyLost` adds that a call is made for a handler once (`AskedOnce`): an answer ends one call and
  takes at least one handler off the queue. `DrawerNotLeftBehind` follows the prompt over the bus
  (`DrawerOK`): an open drawer, and an open message with nothing that closes it behind, is for a request
  under way. `OwnPromptKept` assumes `MaxActive = 1`: one request is active, calls are made for handlers
  that wait (`Single`), and there is one prompt, on its way to the drawer, in front of the user, or on its
  way back (`OnePrompt`), for a request that waits for a decision and with its own quote.
  `ImplementsFlow`: every step maps to a step of `GasFlow` or a stutter, with any number of calls at once. Of the
  invariant it needs (`Course`) the core is that the permits of mined meta-transactions have nonces that
  are used up, so that the next one mined spends another permit, and that a call with a deal never waits for a decision again.
- `WalletProofs`, for any number of overlapping handlers: `TypeCorrect`, `StoredKnown`,
  `TokensOfNetwork` of `WalletSync`. `IInv` says of what a handler carries over an await that its id is a wallet of the
  backend with its address (`Refers`) and its token one of its network; a write to the wallets keeps
  every such reference (`Keeps`), because it never changes an address and nothing removes a wallet.
  For `Popup`, `PopupCorrect` and `SelectedShown`, from `PInv`: the popup is ahead of the storage only by the
  messages behind it in the inbox (`Following`), and as long as no coin is selected no wallet is stored
  with a token (`Tokenless`). `ServedFromOne` and `QuotedInChosenCoin` assume one busy handler at a time on
  the backend's network (`Serial`). `SInv` adds that what a handler did not find is still missing when
  it creates it, and that the coin a simulation wrote into the wallet is there until the quote is made.
- `TabsProofs`, for any number of pages, accounts, sockets and connects: `AskedRightPage` and `ReachedLast`.
  `IInv` follows a client id through all that carries it: whether in a wallet object, a connect, a greeting
  or a wallet of the backend, it was given to the page it came from, and that page has connected the
  account. `LInv` follows each account while its writes are in order (`Told`): the last
  of its connects under way, or if there is none a wallet that may be found, carries the client id in the wallet object of the page
  that connected it last; `Apart`: while none looked before earlier ones were
  written, there is one such wallet at most, and what the first connect under way found, or did not find, is still so when it writes; and a page knows the id of its socket or is about to be greeted
  with it (`Greeted`).
- `SwapProofs`, for any coins, quotes, balances, precision and limits: `TypeCorrect`, `DrawCovers`,
  `PaidAsAgreed`. The margin grows what it is applied to, and the hundredfold loses less than ninety-nine
  parts of a hundred to roundings; `Carried` hands the bounds from stage to stage.
- `RelayerProofs`, for any users, operators and amounts: `TypeCorrect`, `NothingIsLeft`,
  `SwapsRecompensed`, `DrawnOncePerSignature`, `NothingDrawnInSwap`. `IInv` speaks of the middle of a call (`Underway`):
  the guard is set exactly then, the WETH is what was there plus what the market paid, the ETH no more than what stayed and what the market
  paid, and only `relaySwapToETH` holds tokens that did not come in plainly; of what a user signed (`Counted`): what was drawn, what is still
  allowed and what a permit not used yet would allow stay within the permits for the relayer; and of the saved storage,
  which a revert brings back.
- `AdministrationProofs`. Of `MultiSig`, for any owners, quorum, recipients, values, depth: `TypeCorrect`,
  `CountsExact`, `QuorumKept`, `RunsOnce`, `NothingUnaccounted`, `ImplementsPromise`. The properties speak of the current
  storage, but a revert brings an earlier one back: `IInv` says the same of every saved storage on the
  stack, and that each evolved from the one saved before it (proposals kept, what was settled unchanged).
  From this a failed execution maps to a stutter and the end of the outermost one to a step of
  `MultiSigPromise`. What executed transactions sent is a recursive sum. `IInv` says that some tally adds up payment by
  payment to the balance that is missing (`Balanced`), which each step shows by giving the new tally; that the sum *is* such
  a tally (`SpentIsTally`) takes an induction, made by the least element of the set where it would fail.
- Of `Administration`, for any owners, quorum, calls and bounds: a step of it is a step of
  `MultiSig`, so that everything proved of the wallet holds here (`WalletKept`); `AdministrationCorrect`,
  `PausedByQuorum`, `ScriptsComplete`, `AdminByQuorum`. `AInv` states what the proxy and the scripts rely on of
  the *committed* storage, which a failed execution does not take back: the proxy has foreign logic or another admin only after
  a transaction that let it go was executed there (`Kept`), so that foreign logic, about which nothing else is assumed, can pause only then.
- `GatewayProofs`, for any number of requests, workers and providers: `TypeCorrect`, `ResultsHaveQuorum`, and
  `MajorityDecides`: with a quorum of more than half of the workers the order of keys decides nothing.
  `SpreadEvenly`: every number up to the counter is the number of one request (`Numbered`), so that a
  worker's requests, but one, each have a request of the other worker a fixed gap before them.

- `SnapSiteProofs`, for any number of clicks and look-ups: `SiteCorrect`, `InstalledShown`. What the site will show is
  what the last answer about snaps says (`Told`). `IInv` says that this is so, or that another look-up is `Due`: asked, about
  to be asked by a click that was let in, or by an effect that is to run because Flask was found; that Flask is asked for once for
  each value it had (`AskedFlask`); and that a click waits for one answer (`Matched`).

They assume only the named assumptions of the modules, which TLC evaluates in the runs.

Only model-checked: the liveness properties `ActionEnds`, `LoadingEnds`, `SocketOpens`, `EachAnswered`, `ErrorsEnd`
(TLAPS proves nothing about fairness or ENABLED). Every safety property of a passing run, and both refinements, are
theorems.

## Not modelled

- The Connect button, layout, formatting and logging; prices and fees that are only shown
  (`getCoinPrice`), and GET endpoints that pass a third party's answer on; DELETE of a wallet, which no part of
  the system calls; `handleMessage` of the socket gateway, as no client sends a message to it.
- The panel of the snap, which turns into `NaN%` for a transaction without `maxFeePerGas`, is text.
- The typed calls of the wasm modules, which the gateway does not use, and the curl adapter, pure I/O.
- The Ceramic scripts run a daemon and deploy a schema once. Generated ABIs, build configuration and the bundled yarn are not
  part of the program's logic.
- Vendored contracts are third-party code. What the relayer uses of AccessControl and of the proxy is
  in `Administration`, of the token and WETH in `Relayer`.

## Plan

Done: all modules above, the proofs of their safety properties, and the refinements of `MultiSigPromise` and
`GasFlow`. Worth stating as well: with one call at a time, a flow that says of a deal that it is the call's own.
