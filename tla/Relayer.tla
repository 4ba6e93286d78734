------------------------------- MODULE Relayer -------------------------------
(***************************************************************************)
(* Relayer.sol and CoinChoiceRelayer.sol: a user's tokens, drawn with a    *)
(* permit, are swapped by foreign code and the user is sent the ETH.       *)
(*                                                                         *)
(* While the swap target has control it spends the relayer's tokens, pays  *)
(* in WETH or ETH, and may call the relayer again.  Nobody else can act    *)
(* until the call is over; when it fails the transaction is undone.  Users *)
(* sign permits at any time, for the relayer or for somebody else, and     *)
(* neither contract looks whose permit it is handed.  Which of the two is  *)
(* deployed, and whether it has an owner, is chosen once: behind its proxy *)
(* CoinChoiceRelayer has none.  An owner may pass ownership on.            *)
(***************************************************************************)
EXTENDS Integers

CONSTANTS Users,          \* accounts with tokens; they have no code
          Operators,      \* accounts that may be executioners; they have no code
          Deployer,       \* the operator that deploys, an executioner and the owner
          Market,         \* the swap target and spender, foreign code
          None,           \* no call under way, no owner, nobody
          Amounts,        \* the token amounts of a call
          PermitValue,    \* the value of every permit
          Payments,       \* what is paid or sent to the relayer at a time
          Purse,          \* the tokens of a user at the start
          MaxSignatures,  \* bound: how many permits a user signs
          MaxHeld         \* bound: how much of each asset the relayer is sent

VARIABLES
  contract,      \* which contract is deployed
  owner,         \* its owner
  executioners,  \* isExecutioner, or who has the role EXECUTIONER
  paused,
  storage,       \* what a revert restores
  frame,         \* the call of the swap target under way
  signed,        \* the permits signed, by owner
  last           \* history: what a swap paid out that ended with the last step

vars == <<contract, owner, executioners, paused, storage, frame, signed, last>>
setup == <<contract, owner>>

Assets == {"token", "WETH", "ETH"}
Nothing == [a \in Assets |-> 0]

ASSUME RelayerAssumption ==
  /\ Deployer \in Operators /\ Market \notin Operators
  /\ None \notin Operators /\ None \notin Users /\ Market # None
  /\ Amounts \subseteq Nat /\ Payments \subseteq Nat
  /\ PermitValue \in Nat /\ Purse \in Nat
  /\ MaxSignatures \in Nat /\ MaxHeld \in [Assets -> Nat]

\* A permit is good for the relayer or for somebody else.
Spenders == {"relayer", "other"}
Permits == [owner : Users, spender : Spenders]

\* For how many nonces a user signed, for whom at the last of them, and (history) what
\* the permits for the relayer come to, one at most for each nonce.
Signed == [nonces : Nat, spenders : SUBSET Spenders, granted : Nat]

\* held: what the relayer holds; of the token: what users hold, allow the relayer
\* and have used of nonces; approved: whether the market may spend the relayer's
\* tokens.  History: plain, what came in other than as part of a swap since it was
\* last paid out; stray, the ETH the market paid in a swap that paid it to nobody;
\* pulls, how often a draw took a permit of the user; drawn, what the user was drawn.
Storage ==
  [held : [Assets -> Nat], purse : [Users -> Nat], allowance : [Users -> Nat],
   nonce : [Users -> Nat], approved : BOOLEAN, guard : BOOLEAN,
   plain : [Assets -> Nat], stray : Nat, pulls : [Users -> Nat], drawn : [Users -> Nat]]

\* paid and ether: the WETH and the ETH the market paid in this call.
Swaps == {"relaySwapToETH", "swap0x"}
Frame == [op : Swaps \cup {"unsafeGeneralCall"}, user : Users \cup {None},
          before : Nat, paid : Nat, ether : Nat, saved : Storage]
PaidOut == [op : Swaps, paid : Nat, ether : Nat, got : Nat]

ASSUME NoneAssumption == None \notin Frame /\ None \notin PaidOut

Init ==
  /\ contract \in {"Relayer", "CoinChoiceRelayer"}
  /\ owner \in IF contract = "Relayer" THEN {Deployer} ELSE {Deployer, None}
  /\ executioners = {Deployer}
  /\ paused = FALSE
  /\ storage = [held |-> Nothing, purse |-> [u \in Users |-> Purse],
                allowance |-> [u \in Users |-> 0], nonce |-> [u \in Users |-> 0],
                approved |-> FALSE, guard |-> FALSE,
                plain |-> Nothing, stray |-> 0,
                pulls |-> [u \in Users |-> 0], drawn |-> [u \in Users |-> 0]]
  /\ frame = None
  /\ signed = [u \in Users |-> [nonces |-> 0, spenders |-> {}, granted |-> 0]]
  /\ last = None

-----------------------------------------------------------------------------
(* The token and who has control.                                          *)

\* For whom a permit of u, signed for the nonce the token has for u, is not used yet.
Unused(s, u) == IF signed[u].nonces > s.nonce[u] THEN signed[u].spenders ELSE {}

\* A user signs a permit for the nonce the token has for the user.
Sign(u, spender) ==
  /\ frame = None /\ storage.nonce[u] < MaxSignatures
  /\ LET others == Unused(storage, u)
         new == IF spender = "relayer" /\ spender \notin others THEN PermitValue ELSE 0
     IN signed' = [signed EXCEPT ![u] = [nonces |-> storage.nonce[u] + 1,
                                         spenders |-> others \cup {spender},
                                         granted |-> signed[u].granted + new]]
  /\ UNCHANGED <<setup, executioners, paused, storage, frame>> /\ last' = None

\* While a call is under way only the code that was called can call.
Turn(c) == (frame = None) <=> (c # Market)

\* The token's permit, which takes the next nonce of the owner.
Permit(s, p) ==
  [s EXCEPT !.nonce[p.owner] = @ + 1,
            !.allowance[p.owner] = IF p.spender = "relayer" THEN PermitValue ELSE @]

\* Anybody who has seen a permit may hand it to the token, the market in a call too.
TokenPermit(p) ==
  /\ p.spender \in Unused(storage, p.owner)
  /\ storage' = Permit(storage, p)
  /\ UNCHANGED <<setup, executioners, paused, frame, signed>> /\ last' = None

\* Mutation: an allowance that is left makes the permit unnecessary.
CanPull_Allowed(u, n, p) ==
  /\ p.spender \in Unused(storage, p.owner) \/ storage.allowance[u] >= n
  /\ n <= Permit(storage, p).allowance[u] /\ n <= storage.purse[u]

\* permit, and transferFrom of n tokens of u: the permit may be another user's, or for
\* another spender, if u allows the relayer enough.
CanPull(u, n, p) ==
  /\ p.spender \in Unused(storage, p.owner)
  /\ n <= Permit(storage, p).allowance[u] /\ n <= storage.purse[u]
Pull(s, u, n, p) ==
  [Permit(s, p) EXCEPT !.allowance[u] = @ - n, !.purse[u] = @ - n, !.drawn[u] = @ + n,
                       !.held["token"] = @ + n, !.pulls[p.owner] = @ + 1]

Room(a, n) == storage.held[a] + n <= MaxHeld[a] /\ storage.plain[a] + n <= MaxHeld[a]

\* Anybody sends the relayer some of an asset: receive and fallback, or a transfer.
PlainSend(a, n) ==
  /\ frame = None /\ Room(a, n)
  /\ storage' = [storage EXCEPT !.held[a] = @ + n, !.plain[a] = @ + n]
  /\ UNCHANGED <<setup, executioners, paused, frame, signed>> /\ last' = None

-----------------------------------------------------------------------------
(* What the market does while it has control; it may also spend what it is  *)
(* still approved for later.                                               *)

MarketTakes(n) ==
  /\ storage.approved /\ n <= storage.held["token"]
  /\ storage' = [storage EXCEPT !.held["token"] = @ - n]
  /\ UNCHANGED <<setup, executioners, paused, frame, signed>> /\ last' = None

MarketPaysWETH(n) ==
  /\ frame # None /\ Room("WETH", n)
  /\ storage' = [storage EXCEPT !.held["WETH"] = @ + n]
  /\ frame' = [frame EXCEPT !.paid = @ + n]
  /\ UNCHANGED <<setup, executioners, paused, signed>> /\ last' = None

MarketPaysETH(n) ==
  /\ frame # None /\ Room("ETH", n)
  /\ storage' = [storage EXCEPT !.held["ETH"] = @ + n]
  /\ frame' = [frame EXCEPT !.ether = @ + n]
  /\ UNCHANGED <<setup, executioners, paused, signed>> /\ last' = None

-----------------------------------------------------------------------------
(* The parts of the functions of both contracts.                           *)

nonReentrant == ~storage.guard
onlyExecutioner(c) == contract = "Relayer" /\ c \in executioners
onlyRole(c) == contract = "CoinChoiceRelayer" /\ c \in executioners
onlyOwner(c) == c = owner

Deposit(u, n, p) ==
  /\ CanPull(u, n, p) /\ Room("token", n)
  /\ storage' = [Pull(storage, u, n, p) EXCEPT !.plain["token"] = @ + n]
  /\ UNCHANGED <<setup, executioners, paused, frame, signed>> /\ last' = None

\* The market is approved, if at all, without a limit, and is called.
Call(op, user, s) ==
  /\ storage' = [s EXCEPT !.guard = TRUE]
  /\ frame' = [op |-> op, user |-> user, before |-> storage.held["WETH"], paid |-> 0,
               ether |-> 0, saved |-> storage]
  /\ last' = None
  /\ UNCHANGED <<setup, executioners, paused, signed>>

BeginRelaySwap(u, n, p) ==
  /\ CanPull(u, n, p)
  /\ Call("relaySwapToETH", u, [Pull(storage, u, n, p) EXCEPT !.approved = TRUE])
BeginSwap0x(u) == Call("swap0x", u, [storage EXCEPT !.approved = TRUE])

\* An arbitrary call: of the market, or of a token, of which the relayer moves what
\* it holds or is allowed by a user, or approves the market.
GeneralCall ==
  \/ Call("unsafeGeneralCall", None, storage)
  \/ /\ \/ \E a \in {"token", "WETH"}, n \in Amounts :
             n <= storage.held[a] /\ storage' = [storage EXCEPT !.held[a] = @ - n]
        \/ \E u \in Users, n \in Amounts :
             /\ n <= storage.allowance[u] /\ n <= storage.purse[u]
             /\ storage' = [storage EXCEPT !.purse[u] = @ - n, !.allowance[u] = @ - n,
                                           !.drawn[u] = @ + n]
        \/ storage' = [storage EXCEPT !.approved = TRUE]
     /\ UNCHANGED <<setup, executioners, paused, frame, signed>> /\ last' = None

Finish(s, got) ==
  /\ storage' = [s EXCEPT !.guard = FALSE]
  /\ frame' = None
  /\ last' = [op |-> frame.op, paid |-> frame.paid, ether |-> frame.ether, got |-> got]
  /\ UNCHANGED <<setup, executioners, paused, signed>>

InCall(op) == frame # None /\ frame.op = op

-----------------------------------------------------------------------------
(* Relayer.sol                                                             *)

\* Mutation: depositERC20 without the guard.
Relayer_depositERC20_Unguarded(c, u, n, p) ==
  contract = "Relayer" /\ Turn(c) /\ Deposit(u, n, p)

\* Anybody may hand in a permit.
Relayer_depositERC20(c, u, n, p) ==
  contract = "Relayer" /\ Turn(c) /\ nonReentrant /\ Deposit(u, n, p)

Relayer_relaySwapToETH(c, u, n, p) ==
  Turn(c) /\ nonReentrant /\ onlyExecutioner(c) /\ BeginRelaySwap(u, n, p)

Relayer_swap0x(c, u) ==
  Turn(c) /\ nonReentrant /\ onlyExecutioner(c) /\ BeginSwap0x(u)

\* All WETH and all ETH go to the recipient.
Relayer_swap0xReturns ==
  /\ contract = "Relayer" /\ InCall("swap0x")
  /\ storage.held["WETH"] > 0
  /\ Finish([storage EXCEPT !.held["WETH"] = 0, !.held["ETH"] = 0,
                            !.plain["WETH"] = 0, !.plain["ETH"] = 0, !.stray = 0],
            storage.held["WETH"] + storage.held["ETH"])

Relayer_unsafeGeneralCall(c) ==
  contract = "Relayer" /\ Turn(c) /\ nonReentrant /\ onlyOwner(c) /\ GeneralCall

addExecutioner(c, e) ==
  /\ contract = "Relayer" /\ Turn(c) /\ onlyOwner(c)
  /\ executioners' = executioners \cup {e}
  /\ UNCHANGED <<setup, paused, storage, frame, signed>> /\ last' = None

-----------------------------------------------------------------------------
(* CoinChoiceRelayer.sol                                                   *)

CoinChoice_depositERC20(c, u, n, p) ==
  Turn(c) /\ nonReentrant /\ onlyRole(c) /\ Deposit(u, n, p)

CoinChoice_relaySwapToETH(c, u, n, p) ==
  Turn(c) /\ nonReentrant /\ ~paused /\ onlyRole(c) /\ BeginRelaySwap(u, n, p)

\* Mutation: the swap may yield nothing.
relaySwapReturns_Nothing ==
  /\ InCall("relaySwapToETH")
  /\ Finish([storage EXCEPT !.held = Nothing, !.plain = Nothing, !.stray = 0,
                            !.purse[frame.user] = @ + storage.held["token"]],
            storage.held["WETH"] + storage.held["ETH"])

\* Mutation: the tokens the market did not take are kept.
relaySwapReturns_KeepsDust ==
  /\ InCall("relaySwapToETH")
  /\ storage.held["WETH"] > 0
  /\ Finish([storage EXCEPT !.held = [Nothing EXCEPT !["token"] = storage.held["token"]],
                            !.plain = Nothing, !.stray = 0],
            storage.held["WETH"] + storage.held["ETH"])

\* WETH was received: it is unwrapped, and all ETH and the rest of the tokens go to
\* the user.
relaySwapReturns ==
  /\ InCall("relaySwapToETH")
  /\ storage.held["WETH"] > 0
  /\ Finish([storage EXCEPT !.held = Nothing, !.plain = Nothing, !.stray = 0,
                            !.purse[frame.user] = @ + storage.held["token"]],
            storage.held["WETH"] + storage.held["ETH"])

CoinChoice_swap0x(c, u) ==
  Turn(c) /\ nonReentrant /\ ~paused /\ onlyRole(c) /\ BeginSwap0x(u)

\* Only the WETH received is unwrapped and sent; ETH the market paid stays.
CoinChoice_swap0xReturns ==
  /\ contract = "CoinChoiceRelayer" /\ InCall("swap0x")
  /\ LET received == storage.held["WETH"] - frame.before
     IN /\ received > 0
        /\ Finish([storage EXCEPT !.held["WETH"] = frame.before, !.stray = @ + frame.ether],
                  received)

CoinChoice_unsafeGeneralCall(c) ==
  Turn(c) /\ nonReentrant /\ ~paused /\ onlyRole(c) /\ GeneralCall

pause ==
  /\ contract = "CoinChoiceRelayer" /\ frame = None
  /\ paused' = TRUE
  /\ UNCHANGED <<setup, executioners, storage, frame, signed>> /\ last' = None

-----------------------------------------------------------------------------
(* The same in both.                                                       *)

GeneralCallReturns ==
  /\ InCall("unsafeGeneralCall")
  /\ storage' = [storage EXCEPT !.guard = FALSE,
                                !.plain["WETH"] = @ + frame.paid,
                                !.plain["ETH"] = @ + frame.ether]
  /\ frame' = None
  /\ UNCHANGED <<setup, executioners, paused, signed>> /\ last' = None

\* The call fails, nothing was received, or sending the ETH fails.
CallReverts ==
  /\ frame # None
  /\ storage' = frame.saved
  /\ frame' = None
  /\ UNCHANGED <<setup, executioners, paused, signed>> /\ last' = None

relayApprove(c) ==
  /\ Turn(c) /\ onlyOwner(c)
  /\ storage' = [storage EXCEPT !.approved = TRUE]
  /\ UNCHANGED <<setup, executioners, paused, frame, signed>> /\ last' = None

\* relaySwipe of the token or of WETH, and relaySwipeETH.
relaySwipe(c, a) ==
  /\ Turn(c) /\ onlyOwner(c)
  /\ storage' = [storage EXCEPT !.held[a] = 0, !.plain[a] = 0,
                                !.stray = IF a = "ETH" THEN 0 ELSE @]
  /\ UNCHANGED <<setup, executioners, paused, frame, signed>> /\ last' = None

\* To an account without code that is not the market, such as another operator.
transferOwnership(c, to) ==
  /\ Turn(c) /\ onlyOwner(c)
  /\ owner' = to
  /\ UNCHANGED <<contract, executioners, paused, storage, frame, signed>> /\ last' = None

-----------------------------------------------------------------------------
Callers == Operators \cup {Market}

RelayerCall(c) ==
  \/ \E u \in Users, n \in Amounts, p \in Permits :
       Relayer_depositERC20(c, u, n, p) \/ Relayer_relaySwapToETH(c, u, n, p)
  \/ \E u \in Users : Relayer_swap0x(c, u)
  \/ Relayer_unsafeGeneralCall(c)
  \/ \E e \in Operators : addExecutioner(c, e)

CoinChoiceCall(c) ==
  \/ \E u \in Users, n \in Amounts, p \in Permits :
       CoinChoice_depositERC20(c, u, n, p) \/ CoinChoice_relaySwapToETH(c, u, n, p)
  \/ \E u \in Users : CoinChoice_swap0x(c, u)
  \/ CoinChoice_unsafeGeneralCall(c)

OwnerCall(c) == relayApprove(c) \/ \E a \in Assets : relaySwipe(c, a)

Returns ==
  \/ relaySwapReturns \/ Relayer_swap0xReturns \/ CoinChoice_swap0xReturns
  \/ GeneralCallReturns \/ CallReverts

Next ==
  \/ \E u \in Users, spender \in Spenders : Sign(u, spender)
  \/ \E p \in Permits : TokenPermit(p)
  \/ \E a \in Assets, n \in Payments : PlainSend(a, n)
  \/ \E n \in Amounts : MarketTakes(n)
  \/ \E n \in Payments : MarketPaysWETH(n) \/ MarketPaysETH(n)
  \/ \E c \in Callers : RelayerCall(c) \/ CoinChoiceCall(c) \/ OwnerCall(c)
  \/ \E c \in Callers, to \in Operators : transferOwnership(c, to)
  \/ pause
  \/ Returns

Spec == Init /\ [][Next]_vars

-----------------------------------------------------------------------------
(* Properties.                                                             *)

\* Nobody ever holds less than nothing, here and in the state a revert restores.
TypeOK ==
  /\ contract \in {"Relayer", "CoinChoiceRelayer"} /\ owner \in Operators \cup {None}
  /\ executioners \subseteq Operators /\ paused \in BOOLEAN
  /\ storage \in Storage
  /\ frame \in Frame \cup {None}
  /\ signed \in [Users -> Signed]
  /\ last \in PaidOut \cup {None}

\* While the market has control nobody's tokens are drawn into the relayer, whatever
\* the market calls: they would go to the user whose swap is under way (the guard
\* around the call of the swap target, and around depositERC20).
NoPullInSwap ==
  [][frame # None /\ frame' # None => storage'.purse = storage.purse]_vars

\* Between transactions the relayer holds nothing of a swap that would go to the next
\* user: no token, WETH or ETH but what was deposited or sent plainly since (the payout
\* and the refund of the rest at the end of relaySwapToETH and swap0x, and the revert).
\* The one exception is in the code: the swap0x of CoinChoiceRelayer sends on the WETH
\* received only, so ETH the market paid in it stays, for the next relaySwapToETH to pay
\* out; in Relayer there is none of it.
NothingLeftBehind ==
  frame = None =>
    /\ storage.held["token"] <= storage.plain["token"]
    /\ storage.held["WETH"] <= storage.plain["WETH"]
    /\ storage.held["ETH"] <= storage.plain["ETH"] + storage.stray
    /\ contract = "Relayer" => storage.stray = 0

\* A swap that is completed paid out something, and at least all the market paid for it,
\* in WETH or ETH; the swap0x of CoinChoiceRelayer exactly the WETH, which leaves other
\* WETH and all ETH alone (the requirement of WETH and the two ways of counting it).
Recompensed ==
  last # None =>
    /\ last.got > 0
    /\ IF contract = "CoinChoiceRelayer" /\ last.op = "swap0x"
         THEN last.got = last.paid
         ELSE last.got >= last.paid + last.ether

\* Each draw uses up a permit that no other draw uses, so that a relayed transaction
\* draws once also when it is submitted again.  The permit need not be of the user who
\* is drawn, nor for the relayer, and an allowance that is left can be drawn with one
\* that is not; but all draws from a user, those of general calls too, stay within the
\* permits for the relayer the user signed (permit before each transferFrom).
OncePerSignature ==
  \A u \in Users : /\ storage.pulls[u] <= signed[u].nonces
                    /\ storage.drawn[u] <= signed[u].granted
=============================================================================
